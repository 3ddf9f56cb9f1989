------------------------------ MODULE Scheduler ------------------------------
(***************************************************************************)
(* Processes and the timer: kernel/process.c and irq0_timer_c of           *)
(* kernel/interrupts/irq_handlers.c.  Processes are entries of a circular, *)
(* doubly linked list on the kernel heap; a freed entry keeps its bytes    *)
(* until the heap hands it out again, and the code relies on that.         *)
(*                                                                         *)
(* A parent holds a pointer to its child's entry and spins on the state in *)
(* it (apps/new_test/main.c).  A time slice is long enough for one turn of *)
(* that loop.  The first app, the shell, never exits and never sleeps.     *)
(***************************************************************************)
EXTENDS Integers, FiniteSets

CONSTANTS Entries,      \* heap blocks that can hold a process_entry
          Dummy,        \* the entry of "dummy", main()'s own process
          Shell,        \* the entry of "new_test", the first app
          SecondMs,     \* milliseconds in a second
          TickMs,       \* milliseconds between two ticks
          UintWrap,     \* the seconds are counted modulo this
          WakeTimes,    \* times that processes sleep to
          NoEntry       \* NULL

ASSUME EntriesAssumption ==
  /\ IsFiniteSet(Entries) /\ NoEntry \notin Entries
  /\ Dummy \in Entries /\ Shell \in Entries \ {Dummy}
ASSUME ClockAssumption ==
  SecondMs \in Nat \ {0} /\ TickMs \in 1..SecondMs /\ UintWrap \in Nat \ {0}

Time == [seconds : 0..(UintWrap - 1), millisecond : 0..SecondMs]
ASSUME WakeTimesAssumption == WakeTimes \subseteq Time

VARIABLES entry,     \* content of the heap blocks
          used,      \* blocks that are allocated
          first,     \* first_process
          current,   \* current_process, during a tick also irq0_timer_c's next
          count,     \* number_of_processes
          handler,   \* "user", or "scan" inside the loop of the timer handler
          time,      \* the clock
          waits,     \* entry -> the child its process spins on
          fault      \* "none", or "live" when a process was reaped that had not exited

vars == <<entry, used, first, current, count, handler, time, waits, fault>>

States == {"TERMINATED", "RUNNING", "SUSPENDED", "SLEEPING"}
Zero == [seconds |-> 0, millisecond |-> 0]
ProcessEntry == [state : States, wake : Time, next : Entries, prev : Entries]

-----------------------------------------------------------------------------
\* main(), lines 219 to 272: "dummy" is created, "new_test" is created behind
\* it, then "dummy" is removed although it is the current process.
Init ==
  /\ entry = [e \in Entries |-> [state |-> "RUNNING", wake |-> Zero, next |-> Shell, prev |-> Shell]]
  /\ used = {Shell}
  /\ first = Shell
  /\ current = Dummy
  /\ count = 1
  /\ handler = "user"
  /\ time = Zero
  /\ waits = [e \in Entries |-> NoEntry]
  /\ fault = "none"

\* The process on the CPU, when it is free to do something.
Active == /\ fault = "none" /\ handler = "user"
          /\ current \in used
          /\ entry[current].state = "RUNNING"
          /\ waits[current] = NoEntry

-----------------------------------------------------------------------------
(* System calls of the current process; they run with interrupts off.      *)

\* Mutant of Linked: the new entry is not entered in its successor.
LinkedOneWay(e, state) ==
  LET next == first
      prev == entry[first].prev
      new  == [state |-> state, wake |-> Zero, next |-> next, prev |-> prev]
  IN  [[entry EXCEPT ![e] = new] EXCEPT ![prev].next = e]

\* create_process: e goes between the last entry and the first.
Linked(e, state) ==
  LET next == first
      prev == entry[first].prev
      new  == [state |-> state, wake |-> Zero, next |-> next, prev |-> prev]
  IN  [[[entry EXCEPT ![e] = new] EXCEPT ![next].prev = e] EXCEPT ![prev].next = e]

\* System call 0x21, and the loop of the parent that waits for the child.
CreateProcess(e, state, wait) ==
  /\ Active
  /\ e \notin used
  /\ entry' = Linked(e, state)
  /\ used' = used \cup {e}
  /\ count' = count + 1
  /\ waits' = [waits EXCEPT ![e] = NoEntry,
                            ![current] = IF wait /\ state # "TERMINATED" THEN e ELSE NoEntry]
  /\ UNCHANGED <<first, current, handler, time, fault>>

\* System call 0x22: the state changes, the process stays on the CPU until
\* the next tick.
Exit ==
  /\ Active
  /\ current # Shell
  /\ entry' = [entry EXCEPT ![current].state = "TERMINATED"]
  /\ UNCHANGED <<used, first, current, count, handler, time, waits, fault>>

\* A process puts itself to sleep through its process struct; the kernel has
\* no call for it, only the code that wakes it up.
Sleep(wake) ==
  /\ Active
  /\ current # Shell
  /\ entry' = [entry EXCEPT ![current].state = "SLEEPING", ![current].wake = wake]
  /\ UNCHANGED <<used, first, current, count, handler, time, waits, fault>>

-----------------------------------------------------------------------------
(* The timer interrupt: one step for its start, one for each turn of the   *)
(* loop.                                                                   *)

\* Mutant of Advance: no carry into the seconds.
AdvanceOnly(t) == [t EXCEPT !.millisecond = @ + TickMs]

Advance(t) ==
  LET ms == t.millisecond + TickMs IN
  IF ms > SecondMs
  THEN [seconds |-> (t.seconds + 1) % UintWrap, millisecond |-> ms - SecondMs]
  ELSE [t EXCEPT !.millisecond = ms]

\* Mutant of Tick: get_next_process() is called once too often.
TickSkipping ==
  /\ fault = "none"
  /\ handler = "user"
  /\ time' = Advance(time)
  /\ current' = entry[entry[current].next].next
  /\ handler' = "scan"
  /\ UNCHANGED <<entry, used, first, count, waits, fault>>

Tick ==
  /\ fault = "none"
  /\ handler = "user"
  /\ time' = Advance(time)
  /\ current' = entry[current].next
  /\ handler' = "scan"
  /\ UNCHANGED <<entry, used, first, count, waits, fault>>

Scanning(state) == fault = "none" /\ handler = "scan" /\ entry[current].state = state

\* A running process is found; if it is a waiting parent it looks at its child.
Dispatch ==
  /\ Scanning("RUNNING")
  /\ handler' = "user"
  /\ LET child == waits[current] IN
     waits' = IF child # NoEntry /\ entry[child].state = "TERMINATED"
              THEN [waits EXCEPT ![current] = NoEntry] ELSE waits
  /\ UNCHANGED <<entry, used, first, current, count, time, fault>>

Due == /\ time.seconds >= entry[current].wake.seconds
       /\ time.millisecond >= entry[current].wake.millisecond

WakeUp ==
  /\ Scanning("SLEEPING")
  /\ Due
  /\ entry' = [entry EXCEPT ![current].state = "RUNNING"]
  /\ UNCHANGED <<used, first, current, count, handler, time, waits, fault>>

\* case PROCESS_TERMINATED, with remove_process: e leaves the ring and its
\* block goes back to the heap, content and all.
Reap(e) ==
  LET next == entry[e].next
      prev == entry[e].prev
  IN
  /\ entry' = [[entry EXCEPT ![prev].next = next] EXCEPT ![next].prev = prev]
  /\ first' = IF e = first THEN next ELSE first
  /\ used' = used \ {e}
  /\ count' = count - 1
  /\ current' = next
  /\ fault' = IF entry[e].state = "TERMINATED" THEN "none" ELSE "live"
  /\ UNCHANGED <<handler, time, waits>>

Bury == Scanning("TERMINATED") /\ Reap(current)

\* case PROCESS_SLEEPING has no break when it is too early to wake: the
\* process behind the sleeper is treated as a terminated one.
OverSleeper ==
  /\ Scanning("SLEEPING")
  /\ ~Due
  /\ Reap(entry[current].next)

\* Mutant of OverSuspended: it falls into the case before it.
OverSuspendedReaping == Scanning("SUSPENDED") /\ Reap(current)

OverSuspended ==
  /\ Scanning("SUSPENDED")
  /\ current' = entry[current].next
  /\ UNCHANGED <<entry, used, first, count, handler, time, waits, fault>>

Creation == \E e \in Entries, state \in States, wait \in BOOLEAN : CreateProcess(e, state, wait)
Sleeping == \E wake \in WakeTimes : Sleep(wake)
Scan == Dispatch \/ WakeUp \/ Bury \/ OverSleeper \/ OverSuspended

Next == Creation \/ Exit \/ Sleeping \/ Tick \/ Scan

Spec == Init /\ [][Next]_vars
\* The timer keeps ticking and its handler runs with interrupts off.
FairSpec == Spec /\ WF_vars(Tick) /\ WF_vars(Scan)

-----------------------------------------------------------------------------
(* Properties.                                                             *)

\* Every variable has its type (struct process, struct process_entry).
TypeOK ==
  /\ entry \in [Entries -> ProcessEntry]
  /\ used \subseteq Entries
  /\ first \in Entries
  /\ current \in Entries
  /\ count \in Nat
  /\ handler \in {"user", "scan"}
  /\ time \in Time
  /\ waits \in [Entries -> Entries \cup {NoEntry}]
  /\ fault \in {"none", "live"}

\* The ring is one circle: whoever follows next from an allocated entry stays
\* among them and meets every one before coming round.
OneCircle ==
  /\ \A e \in used : entry[e].next \in used
  /\ \A S \in SUBSET used : S # {} /\ (\A e \in S : entry[e].next \in S) => S = used

\* Whatever is created, removed or woken, the ring is one circle of exactly
\* the allocated entries, prev undoes next, number_of_processes counts them,
\* and current_process is in the ring or, as main() leaves it, a freed entry
\* that still leads into it.
RingIntact ==
  fault = "none" =>
    /\ first \in used
    /\ OneCircle
    /\ \A e \in used : entry[entry[e].next].prev = e
    /\ count = Cardinality(used)
    /\ current \in used \/ entry[current].next \in used

\* A process that has not exited is only ever reaped behind a sleeper: no
\* other path of the timer handler removes a running or suspended process.
OnlyBehindSleepers ==
  [][fault' = "live" => \E e \in used \cap used' :
       entry[e].state = "SLEEPING" /\ entry[e].next \in used \ used']_vars

\* A waiting parent never reads an entry that has gone back to the heap: its
\* child is not reaped before the parent has had a turn and seen it exit.
ParentSeesExit ==
  fault = "none" => \A e \in used : waits[e] # NoEntry => waits[e] \in used

\* Every running process gets the CPU again, however many processes are
\* created, suspended and reaped meanwhile.
EveryoneRuns ==
  \A e \in Entries : (e \in used /\ entry[e].state = "RUNNING")
                       ~> (current = e /\ handler = "user") \/ fault # "none"

=============================================================================
