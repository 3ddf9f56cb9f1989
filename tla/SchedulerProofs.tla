---------------------------- MODULE SchedulerProofs ----------------------------
(***************************************************************************)
(* Scheduler.tla for any number of entries, any clock and any set of times *)
(* to sleep to: the ring stays whole until a live process is reaped, which *)
(* happens behind a sleeper only, and no waiting parent loses its child.   *)
(***************************************************************************)
EXTENDS Scheduler, TLAPS, FiniteSetTheorems

\* The links of the ring in both directions.
Links ==
  \A e \in used : /\ entry[e].next \in used /\ entry[entry[e].next].prev = e
                  /\ entry[e].prev \in used /\ entry[entry[e].prev].next = e

\* Every set of entries closed under next is the whole ring or empty.
Circle == \A S \in SUBSET used : S # {} /\ (\A e \in S : entry[e].next \in S) => S = used

\* p is met on the way from x to c, c itself included.
OnTheWay(p, x, c) ==
  \A S \in SUBSET Entries : x \in S /\ (\A y \in S \ {c} : entry[y].next \in S) => p \in S

\* The entry that is looked at next.
Coming == IF handler = "scan" THEN current ELSE entry[current].next

\* A waiting parent runs, its child is in the ring, and once the child has
\* exited the scan comes to the parent before it comes to the child.
Waiters ==
  \A p \in used : waits[p] # NoEntry =>
    /\ waits[p] \in used /\ waits[p] # p
    /\ entry[p].state = "RUNNING"
    /\ entry[waits[p]].state = "TERMINATED" => OnTheWay(p, Coming, waits[p])

Ring ==
  /\ first \in used
  /\ Links
  /\ Circle
  /\ count = Cardinality(used)
  /\ Coming \in used
  /\ Shell \in used /\ entry[Shell].state \notin {"TERMINATED", "SLEEPING"}
  /\ Waiters

IInv == TypeOK /\ (fault = "none" => Ring)

-----------------------------------------------------------------------------
(* What the two changes of the ring do to its links.                       *)

\* The links after create_process.
LEMMA LinkedLinks ==
  ASSUME TypeOK, Ring, NEW e \in Entries \ used, NEW state \in States,
         entry' = Linked(e, state)
  PROVE  /\ entry' \in [Entries -> ProcessEntry]
         /\ entry'[e].state = state
         /\ \A x \in Entries \ {e} : entry'[x].state = entry[x].state
         /\ \A x \in Entries \ {e} :
              entry'[x].next = IF x = entry[first].prev THEN e ELSE entry[x].next
         /\ \A x \in Entries \ {e} :
              entry'[x].prev = IF x = first THEN e ELSE entry[x].prev
         /\ entry'[e].next = first /\ entry'[e].prev = entry[first].prev
<1> DEFINE prev == entry[first].prev
           new  == [state |-> state, wake |-> Zero, next |-> first, prev |-> prev]
<1>1. first \in used /\ prev \in used /\ first \in Entries /\ prev \in Entries /\ e # first /\ e # prev
  BY DEF TypeOK, Ring, Links
<1>2. new \in ProcessEntry
  BY <1>1, ClockAssumption DEF ProcessEntry, Time, Zero
<1>3. entry \in [Entries -> ProcessEntry] BY DEF TypeOK
<1>4. entry' = [[[entry EXCEPT ![e] = new] EXCEPT ![first].prev = e] EXCEPT ![prev].next = e]
  BY DEF Linked
<1>5. new.state = state /\ new.next = first /\ new.prev = prev OBVIOUS
<1> HIDE DEF prev, new
<1> QED BY <1>1, <1>2, <1>3, <1>4, <1>5 DEF ProcessEntry, prev

\* The links after remove_process.
LEMMA ReapedLinks ==
  ASSUME TypeOK, Ring, NEW e \in used, Reap(e)
  PROVE  /\ entry' \in [Entries -> ProcessEntry]
         /\ \A x \in Entries : entry'[x].state = entry[x].state
         /\ \A x \in Entries :
              entry'[x].next = IF x = entry[e].prev THEN entry[e].next ELSE entry[x].next
         /\ \A x \in Entries :
              entry'[x].prev = IF x = entry[e].next THEN entry[e].prev ELSE entry[x].prev
<1> DEFINE prev == entry[e].prev
           next == entry[e].next
<1>1. prev \in Entries /\ next \in Entries BY DEF TypeOK, Ring, Links
<1>2. entry \in [Entries -> ProcessEntry] BY DEF TypeOK
<1>3. entry' = [[entry EXCEPT ![prev].next = next] EXCEPT ![next].prev = prev]
  BY DEF Reap
<1> HIDE DEF prev, next
<1>4. QED BY <1>1, <1>2, <1>3 DEF ProcessEntry, prev, next

\* The ring without the waiting parents.
Whole ==
  /\ first \in used
  /\ Links
  /\ Circle
  /\ count = Cardinality(used)

LEMMA FiniteRing == ASSUME TypeOK PROVE IsFiniteSet(used) /\ Cardinality(used) \in Nat
BY EntriesAssumption, FS_Subset, FS_CardinalityType DEF TypeOK

\* create_process puts one entry into the circle.
LEMMA LinkedWhole ==
  ASSUME TypeOK, Ring, NEW e \in Entries \ used, NEW state \in States,
         entry' = Linked(e, state), used' = used \cup {e}, count' = count + 1, first' = first
  PROVE  Whole'
<1> DEFINE prev == entry[first].prev
<1>1. /\ \A x \in used : entry'[x].next = IF x = prev THEN e ELSE entry[x].next
      /\ \A x \in used : entry'[x].prev = IF x = first THEN e ELSE entry[x].prev
      /\ entry'[e].next = first /\ entry'[e].prev = prev
  BY LinkedLinks DEF TypeOK
<1>2. first \in used /\ prev \in used /\ entry[prev].next = first /\ e \notin used
  BY DEF Ring, Links
<1> HIDE DEF prev
<1>3. Links'
  <2>1. \A x \in used : (x = prev <=> entry[x].next = first) /\ (x = first <=> entry[x].prev = prev)
    BY <1>2 DEF Ring, Links, prev
  <2> QED BY <1>1, <1>2, <2>1 DEF Ring, Links
<1>4. ASSUME NEW S \in SUBSET used', S # {}, \A x \in S : entry'[x].next \in S
      PROVE  S = used'
  <2>1. e \in S => first \in S BY <1>1, <1>4
  <2>2. S \ {e} # {} /\ S \ {e} \in SUBSET used BY <1>2, <1>4, <2>1
  <2>3. \A x \in S \ {e} : entry[x].next \in S \ {e}
    BY <1>1, <1>2, <1>4, <2>1, <2>2 DEF Ring, Links
  <2>4. S \ {e} = used BY <2>2, <2>3 DEF Ring, Circle
  <2>5. e \in S BY <1>1, <1>2, <1>4, <2>4
  <2> QED BY <2>4, <2>5
<1>5. count' = Cardinality(used')
  BY <1>2, FiniteRing, FS_AddElement DEF Ring
<1> QED BY <1>2, <1>3, <1>4, <1>5 DEF Whole, Circle

\* remove_process takes one entry out of the circle; the shell stays.
LEMMA ReapedWhole ==
  ASSUME TypeOK, Ring, NEW e \in used, e # Shell, Reap(e)
  PROVE  Whole' /\ entry[e].next \in used'
<1> DEFINE prev == entry[e].prev
           next == entry[e].next
<1>1. /\ \A x \in used : entry'[x].next = IF x = prev THEN next ELSE entry[x].next
      /\ \A x \in used : entry'[x].prev = IF x = next THEN prev ELSE entry[x].prev
  BY ReapedLinks DEF TypeOK
<1>2. used' = used \ {e} /\ count' = count - 1 /\ first' = IF e = first THEN next ELSE first
  BY DEF Reap
<1>3. /\ prev \in used /\ next \in used /\ entry[prev].next = e /\ entry[next].prev = e
  BY DEF Ring, Links
<1> HIDE DEF prev, next
<1>4. next # e /\ prev # e
  <2>1. next = e => {e} = used
    <3>1. next = e => \A x \in {e} : entry[x].next \in {e} BY DEF next
    <3> QED BY <3>1 DEF Ring, Circle
  <2> QED BY <2>1, <1>3 DEF Ring, next
<1>5. Links'
  <2>1. \A x \in used : (x = prev <=> entry[x].next = e) /\ (x = next <=> entry[x].prev = e)
    BY <1>3 DEF Ring, Links, prev, next
  <2> QED BY <1>1, <1>2, <1>3, <1>4, <2>1 DEF Ring, Links
<1>6. ASSUME NEW S \in SUBSET used', S # {}, \A x \in S : entry'[x].next \in S
      PROVE  S = used'
  <2>1. CASE prev \in S
    <3>1. next \in S BY <1>1, <1>3, <1>6, <2>1
    <3>2. \A x \in S \cup {e} : entry[x].next \in S \cup {e}
      BY <1>1, <1>2, <1>3, <1>6, <3>1 DEF next
    <3>3. S \cup {e} \in SUBSET used /\ S \cup {e} # {} BY <1>2
    <3>4. S \cup {e} = used BY <3>2, <3>3 DEF Ring, Circle
    <3> QED BY <1>2, <3>4
  <2>2. CASE prev \notin S
    <3>1. \A x \in S : entry[x].next \in S BY <1>1, <1>2, <1>6, <2>2
    <3>2. S = used BY <1>2, <1>6, <3>1 DEF Ring, Circle
    <3> QED BY <1>3, <2>2, <3>2
  <2> QED BY <2>1, <2>2
<1>7. count' = Cardinality(used')
  BY <1>2, FiniteRing, FS_RemoveElement DEF Ring
<1>8. first' \in used' /\ next \in used' BY <1>2, <1>3, <1>4 DEF Ring
<1> QED BY <1>5, <1>6, <1>7, <1>8 DEF Whole, Circle, next

-----------------------------------------------------------------------------
(* One step of each action.  The way of the scan to a child that has       *)
(* exited is followed through every change of the ring.                    *)

Rest == Whole /\ Coming \in used /\ Shell \in used
              /\ entry[Shell].state \notin {"TERMINATED", "SLEEPING"} /\ Waiters

LEMMA RestIsRing == Ring <=> Rest
BY DEF Ring, Rest, Whole

LEMMA CreateProcessInv ==
  ASSUME IInv, NEW e \in Entries, NEW state \in States, NEW wait \in BOOLEAN,
         CreateProcess(e, state, wait)
  PROVE  IInv'
<1>1. /\ fault = "none" /\ fault' = "none" /\ handler = "user" /\ Ring /\ TypeOK
      /\ current \in used /\ e \notin used /\ current \in Entries /\ e # current
      /\ UNCHANGED <<first, current, handler, time>>
      /\ entry' = Linked(e, state) /\ used' = used \cup {e} /\ count' = count + 1
      /\ entry[current].state = "RUNNING" /\ waits[current] = NoEntry
      /\ waits' = [waits EXCEPT ![e] = NoEntry,
                      ![current] = IF wait /\ state # "TERMINATED" THEN e ELSE NoEntry]
  BY DEF CreateProcess, Active, IInv, TypeOK
<1>2. waits' \in [Entries -> Entries \cup {NoEntry}] /\ waits'[e] = NoEntry
      /\ waits'[current] \in {NoEntry, e}
      /\ (waits'[current] = e => state # "TERMINATED")
      /\ \A p \in Entries \ {e, current} : waits'[p] = waits[p]
  BY <1>1, EntriesAssumption DEF TypeOK
<1>3. /\ entry' \in [Entries -> ProcessEntry]
      /\ entry'[e].state = state /\ entry'[e].next = first
      /\ \A x \in Entries \ {e} : entry'[x].state = entry[x].state
      /\ \A x \in Entries \ {e} :
           entry'[x].next = IF x = entry[first].prev THEN e ELSE entry[x].next
  BY <1>1, LinkedLinks
<1>4. TypeOK' BY <1>1, <1>2, <1>3 DEF TypeOK
<1>5. Whole' BY <1>1, LinkedWhole
<1>6. used \subseteq Entries /\ Shell # e /\ Shell \in Entries
  BY <1>1 DEF TypeOK, Ring
<1>7. Coming' = entry'[current].next /\ Coming' \in used' /\ Coming = entry[current].next
  BY <1>1, <1>5 DEF Coming, Whole, Links
<1>8. ASSUME NEW p \in used', waits'[p] # NoEntry
      PROVE  /\ waits'[p] \in used' /\ waits'[p] # p /\ entry'[p].state = "RUNNING"
             /\ entry'[waits'[p]].state = "TERMINATED" => OnTheWay(p, Coming, waits[p])'
  <2>1. CASE p = current
    BY <1>1, <1>2, <1>3, <1>8, <2>1
  <2>2. CASE p # current
    <3> DEFINE c == waits[p]
    <3>1. p \in used /\ p # e /\ waits'[p] = c /\ c # NoEntry
      BY <1>1, <1>2, <1>6, <1>8, <2>2
    <3>2. /\ c \in used /\ c # p /\ c # e /\ entry[p].state = "RUNNING"
          /\ entry[c].state = "TERMINATED" => OnTheWay(p, Coming, c)
      BY <1>1, <3>1 DEF Ring, Waiters
    <3>3. entry'[c].state = entry[c].state /\ entry'[p].state = "RUNNING"
      BY <1>3, <1>6, <3>1, <3>2
    <3> HIDE DEF c
    <3>4. ASSUME OnTheWay(p, Coming, c), NEW S \in SUBSET Entries, Coming' \in S,
                 \A y \in S \ {c} : entry'[y].next \in S
          PROVE  p \in S
      <4>1. e \in S => first \in S BY <1>3, <3>2, <3>4
      <4>2. entry[entry[first].prev].next = first BY <1>1 DEF Ring, Links
      <4>3. \A y \in Entries \ {e} : entry'[y].next \in S => entry[y].next \in S
        BY <1>3, <4>1, <4>2
      <4>4. Coming \in S BY <1>1, <1>7, <3>4, <4>3
      <4>5. \A y \in S \ {c, e} : entry[y].next \in S BY <3>4, <4>3
      <4>6. CASE e \notin S BY <3>4, <4>4, <4>5, <4>6 DEF OnTheWay
      <4>7. CASE e \in S
        <5>1. \A y \in used : entry[y].next \in used BY <1>1 DEF Ring, Links
        <5>2. \A y \in (S \cap used) \ {c} : entry[y].next \in S \cap used
          BY <1>1, <4>5, <5>1
        <5>3. Coming \in S \cap used BY <1>1, <4>4 DEF Ring
        <5> QED BY <3>4, <5>2, <5>3 DEF OnTheWay
      <4> QED BY <4>6, <4>7
    <3>5. OnTheWay(p, Coming, c) => \A S \in SUBSET Entries :
             Coming' \in S /\ (\A y \in S \ {c} : entry'[y].next \in S) => p \in S
      BY <3>4
    <3>6. OnTheWay(p, Coming, c) => OnTheWay(p, Coming, waits[p])'
      BY <3>1, <3>5 DEF OnTheWay
    <3> QED BY <1>1, <3>1, <3>2, <3>3, <3>6
  <2> QED BY <2>1, <2>2
<1>9. Waiters' BY <1>8 DEF Waiters
<1>10. Shell \in used' /\ entry'[Shell].state \notin {"TERMINATED", "SLEEPING"}
  BY <1>1, <1>3, <1>6 DEF Ring
<1> QED BY <1>4, <1>5, <1>7, <1>9, <1>10, RestIsRing DEF IInv, Ring, Whole

\* The ring does not change, nor does the state of a waiting parent.
LEMMA ExitInv == ASSUME IInv, Exit PROVE IInv'
<1>1. /\ fault = "none" /\ fault' = "none" /\ handler = "user" /\ Ring /\ TypeOK
      /\ current \in used /\ current # Shell /\ waits[current] = NoEntry
      /\ entry' = [entry EXCEPT ![current].state = "TERMINATED"]
      /\ UNCHANGED <<used, first, current, count, handler, time, waits>>
  BY DEF Exit, Active, IInv
<1>2. entry \in [Entries -> ProcessEntry] /\ used \subseteq Entries /\ current \in Entries
  BY <1>1 DEF TypeOK
<1>3. /\ entry' \in [Entries -> ProcessEntry]
      /\ \A x \in Entries : entry'[x].next = entry[x].next /\ entry'[x].prev = entry[x].prev
      /\ entry'[current].state = "TERMINATED"
      /\ \A x \in Entries \ {current} : entry'[x].state = entry[x].state
  BY <1>1, <1>2 DEF ProcessEntry, States
<1>4. TypeOK' BY <1>1, <1>3 DEF TypeOK
<1>5. Links' /\ Circle' BY <1>1, <1>2, <1>3 DEF Ring, Links, Circle
<1>6. Coming' = Coming BY <1>1, <1>2, <1>3 DEF Coming
<1>7. ASSUME NEW p \in used, waits[p] # NoEntry
      PROVE  /\ waits[p] \in used /\ waits[p] # p /\ entry'[p].state = "RUNNING"
             /\ entry'[waits[p]].state = "TERMINATED" => OnTheWay(p, Coming, waits[p])'
  <2> DEFINE c == waits[p]
  <2>1. /\ c \in used /\ c # p /\ entry[p].state = "RUNNING" /\ p # current
        /\ entry[c].state = "TERMINATED" => OnTheWay(p, Coming, c)
    BY <1>1, <1>7 DEF Ring, Waiters
  <2> HIDE DEF c
  <2>2. CASE c # current
    BY <1>1, <1>2, <1>3, <1>6, <2>1, <2>2 DEF OnTheWay, c
  <2>3. CASE c = current
    <3>1. ASSUME NEW S \in SUBSET Entries, Coming \in S,
                 \A y \in S \ {c} : entry[y].next \in S
          PROVE  p \in S
      <4> DEFINE T == (S \cap used) \cup {c}
      <4>1. \A y \in T : entry[y].next \in T
        BY <1>1, <2>3, <3>1 DEF Ring, Links, Coming
      <4>2. T \in SUBSET used /\ T # {} BY <2>1
      <4> HIDE DEF T
      <4>3. T = used BY <1>1, <4>1, <4>2 DEF Ring, Circle
      <4> QED BY <2>1, <4>3 DEF T
    <3>2. OnTheWay(p, Coming, c) BY <3>1 DEF OnTheWay
    <3> QED BY <1>1, <1>2, <1>3, <1>6, <2>1, <3>2 DEF OnTheWay, c
  <2> QED BY <2>2, <2>3
<1>8. Waiters' BY <1>1, <1>7 DEF Waiters
<1>9. Shell \in used' /\ entry'[Shell].state \notin {"TERMINATED", "SLEEPING"}
  BY <1>1, <1>2, <1>3 DEF Ring
<1>10. Ring' BY <1>1, <1>5, <1>6, <1>8, <1>9 DEF Ring
<1> QED BY <1>4, <1>10 DEF IInv

\* A change of the current process's own state that does not end it.
LEMMA StateChange ==
  ASSUME TypeOK, Ring, fault = "none", current \in used, fault' = "none",
         entry' \in [Entries -> ProcessEntry],
         \A x \in Entries : entry'[x].next = entry[x].next /\ entry'[x].prev = entry[x].prev,
         \A x \in Entries \ {current} : entry'[x].state = entry[x].state,
         entry'[current].state # "TERMINATED",
         entry'[current].state = "SLEEPING" => current # Shell /\ waits[current] = NoEntry,
         entry'[current].state \in {"RUNNING", "SLEEPING"},
         UNCHANGED <<used, first, current, count, handler, time, waits>>
  PROVE  IInv'
<1>1. used \subseteq Entries BY DEF TypeOK
<1>2. TypeOK' BY DEF TypeOK
<1>3. Links' /\ Circle'
  <2>1. used' = used /\ \A x \in used : entry'[x].next = entry[x].next /\ entry'[x].prev = entry[x].prev
    BY <1>1
  <2>2. Links' BY <2>1 DEF Ring, Links
  <2>3. Circle' BY <2>1 DEF Ring, Circle
  <2> QED BY <2>2, <2>3
<1>4. Coming' = Coming BY <1>1 DEF Coming
<1>5. ASSUME NEW p \in used, waits[p] # NoEntry
      PROVE  /\ waits[p] \in used /\ waits[p] # p /\ entry'[p].state = "RUNNING"
             /\ entry'[waits[p]].state = "TERMINATED" => OnTheWay(p, Coming, waits[p])'
  <2>1. /\ waits[p] \in used /\ waits[p] # p /\ entry[p].state = "RUNNING"
        /\ entry[waits[p]].state = "TERMINATED" => OnTheWay(p, Coming, waits[p])
    BY <1>5 DEF Ring, Waiters
  <2>2. entry'[p].state = "RUNNING" BY <1>1, <1>5, <2>1
  <2>3. entry'[waits[p]].state = "TERMINATED" => entry[waits[p]].state = "TERMINATED"
    BY <1>1, <2>1
  <2>4. OnTheWay(p, Coming, waits[p]) => OnTheWay(p, Coming, waits[p])'
    BY <1>1, <1>4 DEF OnTheWay
  <2> QED BY <2>1, <2>2, <2>3, <2>4
<1>6. Waiters' BY <1>5 DEF Waiters
<1>7. Shell \in used' /\ entry'[Shell].state \notin {"TERMINATED", "SLEEPING"}
  BY <1>1 DEF Ring
<1>8. Ring' BY <1>3, <1>4, <1>6, <1>7 DEF Ring
<1> QED BY <1>2, <1>8 DEF IInv

LEMMA SleepInv == ASSUME IInv, NEW wake \in WakeTimes, Sleep(wake) PROVE IInv'
<1>1. /\ fault = "none" /\ fault' = "none" /\ Ring /\ TypeOK
      /\ current \in used /\ current # Shell /\ waits[current] = NoEntry
      /\ entry' = [entry EXCEPT ![current].state = "SLEEPING", ![current].wake = wake]
      /\ UNCHANGED <<used, first, current, count, handler, time, waits>>
  BY DEF Sleep, Active, IInv
<1>2. entry \in [Entries -> ProcessEntry] /\ current \in Entries /\ wake \in Time
  BY <1>1, WakeTimesAssumption DEF TypeOK
<1>3. /\ entry' \in [Entries -> ProcessEntry]
      /\ \A x \in Entries : entry'[x].next = entry[x].next /\ entry'[x].prev = entry[x].prev
      /\ entry'[current].state = "SLEEPING"
      /\ \A x \in Entries \ {current} : entry'[x].state = entry[x].state
  <2>1. entry'[current] = [entry[current] EXCEPT !.state = "SLEEPING", !.wake = wake]
    BY <1>1, <1>2
  <2>2. \A x \in Entries \ {current} : entry'[x] = entry[x]
    BY <1>1, <1>2
  <2>3. /\ entry'[current] \in ProcessEntry /\ entry'[current].state = "SLEEPING"
        /\ entry'[current].next = entry[current].next /\ entry'[current].prev = entry[current].prev
    BY <1>2, <2>1 DEF ProcessEntry, States
  <2>4. entry' \in [Entries -> ProcessEntry] BY <1>1, <1>2, <2>2, <2>3
  <2> QED BY <1>2, <2>2, <2>3, <2>4
<1> QED BY <1>1, <1>3, StateChange

LEMMA WakeUpInv == ASSUME IInv, WakeUp PROVE IInv'
<1>1. /\ fault = "none" /\ fault' = "none" /\ Ring /\ TypeOK /\ handler = "scan"
      /\ entry' = [entry EXCEPT ![current].state = "RUNNING"]
      /\ UNCHANGED <<used, first, current, count, handler, time, waits>>
  BY DEF WakeUp, Scanning, IInv
<1>2. entry \in [Entries -> ProcessEntry] /\ current \in Entries /\ current \in used
  BY <1>1 DEF TypeOK, Ring, Coming
<1>3. /\ entry' \in [Entries -> ProcessEntry]
      /\ \A x \in Entries : entry'[x].next = entry[x].next /\ entry'[x].prev = entry[x].prev
      /\ entry'[current].state = "RUNNING"
      /\ \A x \in Entries \ {current} : entry'[x].state = entry[x].state
  BY <1>1, <1>2 DEF ProcessEntry, States
<1> QED BY <1>1, <1>2, <1>3, StateChange

\* The clock stays a time of day whatever the tick adds.
LEMMA AdvanceType == ASSUME NEW t \in Time PROVE Advance(t) \in Time
<1>1. /\ t.seconds \in Nat /\ t.seconds <= UintWrap - 1 /\ t.millisecond \in Nat /\ t.millisecond <= SecondMs
      /\ TickMs \in Nat /\ TickMs <= SecondMs /\ SecondMs \in Nat /\ UintWrap \in Nat \ {0}
  BY ClockAssumption DEF Time
<1>2. (t.seconds + 1) % UintWrap \in 0..(UintWrap - 1) BY <1>1
<1>3. CASE t.millisecond + TickMs > SecondMs
  BY <1>1, <1>2, <1>3 DEF Advance, Time
<1>4. CASE ~(t.millisecond + TickMs > SecondMs)
  BY <1>1, <1>4 DEF Advance, Time
<1> QED BY <1>3, <1>4

LEMMA TickInv == ASSUME IInv, Tick PROVE IInv'
<1>1. /\ fault = "none" /\ fault' = "none" /\ Ring /\ TypeOK /\ handler = "user"
      /\ time' = Advance(time) /\ current' = entry[current].next /\ handler' = "scan"
      /\ UNCHANGED <<entry, used, first, count, waits>>
  BY DEF Tick, IInv
<1>2. Coming' = Coming BY <1>1 DEF Coming
<1>3. TypeOK' BY <1>1, AdvanceType DEF TypeOK, ProcessEntry
<1>4. Links' /\ Circle' BY <1>1 DEF Ring, Links, Circle
<1>5. Waiters' BY <1>1, <1>2 DEF Ring, Waiters, OnTheWay
<1>6. Ring' BY <1>1, <1>2, <1>4, <1>5 DEF Ring
<1> QED BY <1>3, <1>6 DEF IInv

\* The scan steps over an entry that is no waited-for dead child.
LEMMA StepOver ==
  ASSUME NEW p, NEW c, p # current, c # current, current \in Entries,
         OnTheWay(p, current, c),
         NEW S \in SUBSET Entries, entry[current].next \in S,
         \A y \in S \ {c} : entry[y].next \in S
  PROVE  p \in S
<1> DEFINE T == S \cup {current}
<1>1. T \in SUBSET Entries /\ current \in T /\ \A y \in T \ {c} : entry[y].next \in T
  OBVIOUS
<1>2. p \in T BY <1>1 DEF OnTheWay
<1> QED BY <1>2

LEMMA DispatchInv == ASSUME IInv, Dispatch PROVE IInv'
<1>1. /\ fault = "none" /\ fault' = "none" /\ Ring /\ TypeOK /\ handler = "scan" /\ handler' = "user"
      /\ UNCHANGED <<entry, used, first, current, count, time>>
      /\ current \in used /\ current \in Entries /\ entry[current].state = "RUNNING"
  BY DEF Dispatch, Scanning, IInv, Ring, Coming, TypeOK
<1>2. /\ waits' \in [Entries -> Entries \cup {NoEntry}]
      /\ \A p \in used \ {current} : waits'[p] = waits[p]
      /\ waits'[current] # NoEntry => /\ waits'[current] = waits[current]
                                      /\ entry[waits[current]].state # "TERMINATED"
  BY <1>1 DEF Dispatch, TypeOK
<1>3. TypeOK' BY <1>1, <1>2 DEF TypeOK
<1>4. Links' /\ Circle' BY <1>1 DEF Ring, Links, Circle
<1>5. Coming = current /\ Coming' = entry[current].next /\ Coming' \in used
  BY <1>1 DEF Coming, Ring, Links
<1>6. ASSUME NEW p \in used, waits'[p] # NoEntry
      PROVE  /\ waits'[p] \in used /\ waits'[p] # p /\ entry[p].state = "RUNNING"
             /\ entry[waits'[p]].state = "TERMINATED" => OnTheWay(p, Coming, waits[p])'
  <2> DEFINE c == waits[p]
  <2>1. waits'[p] = c /\ (p = current => entry[c].state # "TERMINATED") BY <1>2, <1>6
  <2>2. /\ c \in used /\ c # p /\ entry[p].state = "RUNNING"
        /\ entry[c].state = "TERMINATED" => OnTheWay(p, current, c)
    BY <1>1, <1>5, <1>6, <2>1 DEF Ring, Waiters
  <2> HIDE DEF c
  <2>3. ASSUME entry[c].state = "TERMINATED",
               NEW S \in SUBSET Entries, Coming' \in S, \A y \in S \ {c} : entry[y].next \in S
        PROVE  p \in S
    <3>1. p # current /\ c # current BY <1>1, <2>1, <2>3
    <3> QED BY <1>1, <1>5, <2>2, <2>3, <3>1, StepOver
  <2>4. entry[c].state = "TERMINATED" => OnTheWay(p, Coming, waits[p])'
    BY <1>1, <2>1, <2>3 DEF OnTheWay
  <2> QED BY <2>1, <2>2, <2>4
<1>7. Waiters' BY <1>1, <1>6 DEF Waiters
<1>8. Ring' BY <1>1, <1>4, <1>5, <1>7 DEF Ring
<1> QED BY <1>1, <1>3, <1>8 DEF IInv

LEMMA OverSuspendedInv == ASSUME IInv, OverSuspended PROVE IInv'
<1>1. /\ fault = "none" /\ fault' = "none" /\ Ring /\ TypeOK /\ handler = "scan" /\ handler' = "scan"
      /\ current' = entry[current].next
      /\ UNCHANGED <<entry, used, first, count, time, waits>>
      /\ current \in used /\ current \in Entries /\ entry[current].state = "SUSPENDED"
  BY DEF OverSuspended, Scanning, IInv, Ring, Coming, TypeOK
<1>2. TypeOK' BY <1>1 DEF TypeOK, ProcessEntry
<1>3. Links' /\ Circle' BY <1>1 DEF Ring, Links, Circle
<1>4. Coming = current /\ Coming' = entry[current].next /\ Coming' \in used
  BY <1>1 DEF Coming, Ring, Links
<1>5. ASSUME NEW p \in used, waits[p] # NoEntry
      PROVE  /\ waits[p] \in used /\ waits[p] # p /\ entry[p].state = "RUNNING"
             /\ entry[waits[p]].state = "TERMINATED" => OnTheWay(p, Coming, waits[p])'
  <2> DEFINE c == waits[p]
  <2>1. /\ c \in used /\ c # p /\ entry[p].state = "RUNNING"
        /\ entry[c].state = "TERMINATED" => OnTheWay(p, current, c)
    BY <1>1, <1>4, <1>5 DEF Ring, Waiters
  <2> HIDE DEF c
  <2>2. ASSUME entry[c].state = "TERMINATED",
               NEW S \in SUBSET Entries, Coming' \in S, \A y \in S \ {c} : entry[y].next \in S
        PROVE  p \in S
    <3>1. p # current /\ c # current BY <1>1, <2>1, <2>2
    <3> QED BY <1>1, <1>4, <2>1, <2>2, <3>1, StepOver
  <2>3. entry[c].state = "TERMINATED" => OnTheWay(p, Coming, waits[p])'
    BY <1>1, <2>2 DEF OnTheWay, c
  <2> QED BY <2>1, <2>3 DEF c
<1>6. Waiters' BY <1>1, <1>5 DEF Waiters
<1>7. Ring' BY <1>1, <1>3, <1>4, <1>6 DEF Ring
<1> QED BY <1>1, <1>2, <1>7 DEF IInv

\* remove_process keeps the types, whoever is removed.
LEMMA ReapType == ASSUME TypeOK, Ring, NEW e \in used, Reap(e) PROVE TypeOK'
<1>1. /\ entry' \in [Entries -> ProcessEntry] BY ReapedLinks
<1>2. /\ used' = used \ {e} /\ count' = count - 1 /\ current' = entry[e].next
      /\ first' \in {first, entry[e].next} /\ fault' \in {"none", "live"}
      /\ UNCHANGED <<handler, time, waits>>
  BY DEF Reap
<1>3. entry[e].next \in used BY DEF Ring, Links
<1>4. count - 1 \in Nat
  <2>1. Cardinality(used \ {e}) = count - 1 BY FiniteRing, FS_RemoveElement DEF Ring
  <2>2. IsFiniteSet(used \ {e}) BY FiniteRing, FS_RemoveElement
  <2> QED BY <2>1, <2>2, FS_CardinalityType
<1> QED BY <1>1, <1>2, <1>3, <1>4 DEF TypeOK

\* The two places in the scan that remove a process: itself or the one behind
\* a sleeper.
LEMMA ReapInv ==
  ASSUME IInv, fault = "none", handler = "scan", NEW e \in used, Reap(e),
         e = current \/ (e = entry[current].next /\ entry[current].state = "SLEEPING")
  PROVE  IInv'
<1>1. TypeOK /\ Ring /\ TypeOK' BY ReapType DEF IInv
<1>2. CASE entry[e].state # "TERMINATED"
  BY <1>1, <1>2 DEF IInv, Reap
<1>3. CASE entry[e].state = "TERMINATED"
  <2>1. e # Shell BY <1>1, <1>3 DEF Ring
  <2>2. Whole' /\ entry[e].next \in used' BY <1>1, <2>1, ReapedWhole
  <2>3. /\ fault' = "none" /\ used' = used \ {e} /\ current' = entry[e].next
        /\ UNCHANGED <<handler, time, waits>>
    BY <1>3 DEF Reap
  <2>4. /\ used \subseteq Entries /\ current \in used /\ Coming = current
        /\ Coming' = entry[e].next
    BY <1>1, <2>3 DEF TypeOK, Ring, Coming
  <2>5. /\ \A x \in Entries : entry'[x].state = entry[x].state
        /\ \A x \in Entries : entry'[x].next = IF x = entry[e].prev THEN entry[e].next ELSE entry[x].next
        /\ entry[entry[e].prev].next = e
    BY <1>1, ReapedLinks DEF Ring, Links
  <2>6. ASSUME NEW p \in used', waits[p] # NoEntry
        PROVE  /\ waits[p] \in used' /\ waits[p] # p /\ entry'[p].state = "RUNNING"
               /\ entry'[waits[p]].state = "TERMINATED" => OnTheWay(p, Coming, waits[p])'
    <3> DEFINE c == waits[p]
    <3>1. /\ c \in used /\ c # p /\ p \in used /\ p # e /\ entry[p].state = "RUNNING"
          /\ entry[c].state = "TERMINATED" => OnTheWay(p, current, c)
      BY <1>1, <2>3, <2>4, <2>6 DEF Ring, Waiters
    <3> HIDE DEF c
    <3>2. p # current BY <1>3, <3>1
    <3>3. c # e
      <4>1. SUFFICES ASSUME c = e PROVE FALSE OBVIOUS
      <4>2. OnTheWay(p, current, e) BY <1>3, <3>1, <4>1
      <4>3. {current, e} \in SUBSET Entries /\ current \in {current, e}
        BY <2>4
      <4>4. \A y \in {current, e} \ {e} : entry[y].next \in {current, e} OBVIOUS
      <4>5. p \in {current, e} BY <4>2, <4>3, <4>4 DEF OnTheWay
      <4> QED BY <3>1, <3>2, <4>5
    <3>4. ASSUME entry[c].state = "TERMINATED", NEW S \in SUBSET Entries,
                 Coming' \in S, \A y \in S \ {c} : entry'[y].next \in S
          PROVE  p \in S
      <4> DEFINE T == S \cup {current, e}
      <4>1. \A y \in S \ {c} : entry[y].next \in T BY <2>5, <3>4
      <4>2. entry[e].next \in T /\ entry[current].next \in T BY <2>4, <3>4
      <4>3. T \in SUBSET Entries /\ current \in T BY <2>4
      <4>4. \A y \in T \ {c} : entry[y].next \in T BY <4>1, <4>2
      <4> HIDE DEF T
      <4>5. p \in T BY <3>1, <3>4, <4>3, <4>4 DEF OnTheWay
      <4> QED BY <3>1, <3>2, <4>5 DEF T
    <3>5. entry'[c].state = entry[c].state /\ entry'[p].state = "RUNNING"
      BY <2>4, <2>5, <3>1
    <3>6. entry[c].state = "TERMINATED" => OnTheWay(p, Coming, waits[p])'
      BY <2>3, <3>4 DEF OnTheWay, c
    <3> QED BY <2>3, <3>1, <3>3, <3>5, <3>6 DEF c
  <2>7. Waiters' BY <2>3, <2>6 DEF Waiters
  <2>8. Shell \in used' /\ entry'[Shell].state \notin {"TERMINATED", "SLEEPING"}
    BY <1>1, <2>1, <2>3, <2>4, <2>5 DEF Ring
  <2>9. Ring' BY <2>2, <2>4, <2>7, <2>8, RestIsRing DEF Ring, Whole
  <2> QED BY <1>1, <2>9 DEF IInv
<1> QED BY <1>2, <1>3

LEMMA BuryInv == ASSUME IInv, Bury PROVE IInv'
<1>1. fault = "none" /\ handler = "scan" /\ current \in used /\ Reap(current)
  BY DEF Bury, Scanning, IInv, Ring, Coming
<1>2. ASSUME NEW e \in used, e = current, Reap(e) PROVE IInv'
  BY <1>1, <1>2, ReapInv
<1> QED BY <1>1, <1>2

LEMMA OverSleeperInv == ASSUME IInv, OverSleeper PROVE IInv'
<1>1. /\ fault = "none" /\ handler = "scan" /\ entry[current].state = "SLEEPING"
      /\ Reap(entry[current].next) /\ Ring
  BY DEF OverSleeper, Scanning, IInv
<1>2. entry[current].next \in used BY <1>1 DEF Ring, Links, Coming
<1> QED BY <1>1, <1>2, ReapInv

-----------------------------------------------------------------------------
(* The theorems.                                                           *)

LEMMA InitInv == Init => IInv
<1> SUFFICES ASSUME Init PROVE IInv OBVIOUS
<1> USE EntriesAssumption, ClockAssumption DEF Init
<1>1. entry \in [Entries -> ProcessEntry] BY DEF ProcessEntry, States, Time, Zero
<1>2. \A e \in Entries : entry[e].next = Shell /\ entry[e].prev = Shell /\ entry[e].state = "RUNNING"
  OBVIOUS
<1>3. TypeOK BY <1>1 DEF TypeOK, Time, Zero
<1>4. Cardinality(used) = 1 BY FS_Singleton
<1>5. Links /\ Circle /\ Coming \in used BY <1>2 DEF Links, Circle, Coming
<1>6. Waiters BY DEF Waiters
<1> QED BY <1>2, <1>3, <1>4, <1>5, <1>6 DEF IInv, Ring

LEMMA NextInv == IInv /\ [Next]_vars => IInv'
<1> SUFFICES ASSUME IInv, [Next]_vars PROVE IInv' OBVIOUS
<1>1. CASE Creation BY <1>1, CreateProcessInv DEF Creation
<1>2. CASE Exit BY <1>2, ExitInv
<1>3. CASE Sleeping BY <1>3, SleepInv DEF Sleeping
<1>4. CASE Tick BY <1>4, TickInv
<1>5. CASE Dispatch BY <1>5, DispatchInv
<1>6. CASE WakeUp BY <1>6, WakeUpInv
<1>7. CASE Bury BY <1>7, BuryInv
<1>8. CASE OverSleeper BY <1>8, OverSleeperInv
<1>9. CASE OverSuspended BY <1>9, OverSuspendedInv
<1>10. CASE UNCHANGED vars
  BY <1>10 DEF vars, IInv, TypeOK, Ring, Links, Circle, Coming, Waiters, OnTheWay
<1> QED BY <1>1, <1>2, <1>3, <1>4, <1>5, <1>6, <1>7, <1>8, <1>9, <1>10 DEF Next, Scan

LEMMA Inductive == Spec => []IInv
<1>1. Init => IInv BY InitInv
<1>2. IInv /\ [Next]_vars => IInv' BY NextInv
<1> QED BY <1>1, <1>2, PTL DEF Spec

\* The entries, the ring's pointers and the clock are always of their types.
THEOREM TypeCorrect == Spec => []TypeOK
<1>1. IInv => TypeOK BY DEF IInv
<1> QED BY <1>1, Inductive, PTL

\* Whatever is created, put to sleep, woken and reaped, the entries stay one
\* circle with exact links and an exact count until a live process is reaped.
THEOREM RingCorrect == Spec => []RingIntact
<1>1. IInv => RingIntact
  BY DEF IInv, Ring, Links, Circle, OneCircle, Coming, RingIntact
<1> QED BY <1>1, Inductive, PTL

\* No waiting parent's child goes back to the heap before the parent has seen
\* that it exited, however many processes come and go meanwhile.
THEOREM ChildrenAwaitParents == Spec => []ParentSeesExit
<1>1. IInv => ParentSeesExit BY DEF IInv, Ring, Waiters, ParentSeesExit
<1> QED BY <1>1, Inductive, PTL

\* The removal of a process that has not exited is the fall-through of the
\* sleeper's case: an entry that stays in the ring is asleep in front of it.
THEOREM LiveReapsAreBehindSleepers == Spec => OnlyBehindSleepers
<1> DEFINE A == fault' = "live" => \E e \in used \cap used' :
                  entry[e].state = "SLEEPING" /\ entry[e].next \in used \ used'
<1>1. IInv /\ [Next]_vars => [A]_vars
  <2> SUFFICES ASSUME IInv, Next, fault' = "live"
               PROVE  \E e \in used \cap used' :
                        entry[e].state = "SLEEPING" /\ entry[e].next \in used \ used'
    OBVIOUS
  <2>1. OverSleeper
    BY DEF Next, Creation, CreateProcess, Active, Exit, Sleeping, Sleep, Tick, Scan, Dispatch,
           WakeUp, Bury, OverSuspended, Scanning, Reap
  <2>2. /\ fault = "none" /\ Ring /\ current \in used /\ entry[current].state = "SLEEPING"
        /\ entry[current].next \in used /\ used' = used \ {entry[current].next}
    BY <2>1 DEF OverSleeper, Scanning, Reap, IInv, Ring, Coming, Links
  <2>3. entry[current].next # current
    <3>1. SUFFICES ASSUME entry[current].next = current PROVE FALSE OBVIOUS
    <3>2. {current} = used BY <2>2, <3>1 DEF Ring, Circle
    <3> QED BY <2>2, <3>2 DEF Ring
  <2> QED BY <2>2, <2>3
<1>2. Spec => [][A]_vars BY <1>1, Inductive, PTL DEF Spec
<1> QED BY <1>2 DEF OnlyBehindSleepers

=============================================================================
