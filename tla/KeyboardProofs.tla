--------------------------- MODULE KeyboardProofs ---------------------------
(***************************************************************************)
(* KeyboardRing.tla for every ring of at least three slots, every length   *)
(* of a read and any number of events: the types, the order of delivery,   *)
(* and that nothing is missed before the ring overflows.                   *)
(***************************************************************************)
EXTENDS KeyboardRing, TLAPS

\* How many events ago slot s was filled, and the number of the event in it.
Age(s) == IF end > s THEN end - s ELSE end - s + FILE_BUFFER_SIZE
Number(s) == typed + 1 - Age(s)

\* on_event fills the slots in turn, wherever start is.
Filled == \A s \in Slots : buffer[s] = IF Number(s) > 0 THEN Number(s) ELSE 0

\* What is in slot s is still to be delivered; nothing is when s is end.
Ahead(s) == s # end => got < Number(s)

\* The reader has not passed over an event, whatever was dropped.
Ordered ==
  /\ pc \in {"entry", "check", "compare"} => Ahead(start)
  /\ pc = "compare" /\ start = end => from = end
  /\ pc = "load" => start # end /\ Ahead(start)
  /\ pc = "copy" => got < Number(from) /\ Number(from) <= Number(start) /\ (hits = 0 => from # end)
  /\ pc \in {"copy", "increment"} =>
       start # end /\ (got < Number(start) \/ (pc = "increment" /\ got = Number(start)))
  /\ pc = "advance" =>
       /\ got <= Number(from)
       /\ (from = start /\ start # end) \/ (hits > 0 /\ from = end)
  /\ pc = "wrap" => Ahead(Wrapped(start))

\* The next event is the one behind the last that was delivered.
Follows(s) == IF s = end THEN got = typed ELSE got + 1 = Number(s)

Complete ==
  /\ pc \in {"entry", "check", "compare", "load", "copy"} => Follows(start)
  /\ pc = "copy" => from = start
  /\ pc = "increment" => start # end /\ got = Number(start)
  /\ pc = "advance" => from = start /\ start # end /\ got = Number(start)
  /\ pc = "wrap" => Follows(Wrapped(start))
  /\ pc = "wrap" /\ start = FILE_BUFFER_SIZE => hits > 0 \/ end # FILE_BUFFER_SIZE - 1

IInv == /\ TypeOK
        /\ pc \notin {"entry", "check"} => i < NumberToRead
        /\ Filled
        /\ got <= typed
        /\ ~raced => Ordered
        /\ ~raced /\ ~dropped => Complete
-----------------------------------------------------------------------------
LEMMA InitIInv == Init => IInv
<1> SUFFICES ASSUME Init PROVE IInv OBVIOUS
<1> USE SizeAssumption, ReaderAssumption
<1>1. TypeOK
  <2>1. 0 \in Slots BY DEF Slots
  <2>2. buffer \in [Slots -> 0..MaxTyped] BY DEF Init
  <2>3. dropped \in BOOLEAN /\ raced \in BOOLEAN BY DEF Init
  <2>4. start = 0 /\ 0 < FILE_BUFFER_SIZE /\ 0 \in 0..FILE_BUFFER_SIZE /\ 0 \in 0..NumberToRead
        /\ 0 \in 0..MaxTyped /\ 0 \in 0..2 /\ FILE_BUFFER_SIZE # 0
    BY DEF Init
  <2> QED BY <2>1, <2>2, <2>3, <2>4, Zenon DEF Init, TypeOK
<1>2. Filled BY DEF Init, Filled, Number, Age, Slots
<1>3. Ordered BY DEF Init, Ordered, Ahead
<1>4. Complete BY DEF Init, Complete, Follows
<1> QED BY <1>1, <1>2, <1>3, <1>4 DEF IInv, Init

\* on_event: one slot more is filled, every other one is an event older.
LEMMA OnEventFills ==
  ASSUME IInv, OnEvent
  PROVE  /\ end' = Wrapped(end + 1)
         /\ end' \in Slots
         /\ Filled'
<1>1. end \in Slots /\ typed \in Nat /\ FILE_BUFFER_SIZE \in Nat /\ FILE_BUFFER_SIZE >= 3
  BY SizeAssumption, ReaderAssumption DEF IInv, TypeOK
<1>2. end' = Wrapped(end + 1) /\ typed' = typed + 1 BY DEF OnEvent
<1>3. end' \in Slots BY <1>1, <1>2 DEF Wrapped, Slots
<1>4. ASSUME NEW s \in Slots
      PROVE  buffer'[s] = IF Number(s)' > 0 THEN Number(s)' ELSE 0
  <2>1. CASE s = end
    <3>1. Number(s)' = typed + 1
      BY <1>1, <1>2, <2>1 DEF Number, Age, Wrapped, Slots
    <3> QED BY <1>1, <2>1, <3>1 DEF OnEvent, IInv, TypeOK
  <2>2. CASE s # end
    <3>1. Number(s)' = Number(s)
      BY <1>1, <1>2, <2>2 DEF Number, Age, Wrapped, Slots
    <3> QED BY <2>2, <3>1 DEF OnEvent, IInv, TypeOK, Filled
  <2> QED BY <2>1, <2>2
<1> QED BY <1>2, <1>3, <1>4 DEF Filled

LEMMA OnEventIInv == IInv /\ OnEvent => IInv'
<1> SUFFICES ASSUME IInv, OnEvent PROVE IInv' OBVIOUS
<1> USE SizeAssumption, ReaderAssumption
<1>1. end' = Wrapped(end + 1) /\ end' \in Slots /\ Filled' BY OnEventFills
<1>2. TypeOK' BY <1>1 DEF IInv, TypeOK, OnEvent, Slots, Wrapped
<1>3. got' <= typed' BY DEF OnEvent, IInv, TypeOK
<1>4. pc' \notin {"entry", "check"} => i' < NumberToRead BY DEF OnEvent, IInv
<1>5. ASSUME ~raced' PROVE Ordered'
  <2>1. Ordered /\ (InRead => hits = 0 /\ hits' = 1) /\ (~InRead => hits' = hits)
    <3>1. ~raced /\ ~(InRead /\ hits >= 1) BY <1>5, Zenon DEF OnEvent
    <3> QED BY <3>1 DEF OnEvent, IInv, TypeOK, InRead
  <2>2. /\ end' = Wrapped(end + 1) /\ typed' = typed + 1
        /\ start' = IF Wrapped(end + 1) = start THEN Wrapped(start + 2) ELSE start
        /\ UNCHANGED <<pc, i, from, got>>
    BY DEF OnEvent
  <2>3. /\ end \in Slots /\ from \in Slots /\ start \in 0..FILE_BUFFER_SIZE /\ hits \in 0..2
        /\ start = FILE_BUFFER_SIZE => pc = "wrap"
        /\ typed \in Nat /\ got \in Nat /\ got <= typed
    BY DEF IInv, TypeOK
  <2>4. CASE pc \in {"entry", "check", "compare"}
    BY <2>1, <2>2, <2>3, <2>4 DEF Ordered, Ahead, Number, Age, Slots, Wrapped
  <2>5. CASE pc = "load"
    BY <2>1, <2>2, <2>3, <2>5 DEF Ordered, Ahead, Number, Age, Slots, Wrapped
  <2>6. CASE pc = "copy"
    BY <2>1, <2>2, <2>3, <2>6 DEF Ordered, InRead, Ahead, Number, Age, Slots, Wrapped
  <2>7. CASE pc = "increment"
    BY <2>1, <2>2, <2>3, <2>7 DEF Ordered, InRead, Ahead, Number, Age, Slots, Wrapped
  <2>8. CASE pc = "advance"
    BY <2>1, <2>2, <2>3, <2>8 DEF Ordered, InRead, Ahead, Number, Age, Slots, Wrapped
  <2>9. CASE pc = "wrap"
    BY <2>1, <2>2, <2>3, <2>9 DEF Ordered, InRead, Ahead, Number, Age, Slots, Wrapped
  <2> QED BY <2>4, <2>5, <2>6, <2>7, <2>8, <2>9 DEF IInv, TypeOK
<1>6. ASSUME ~raced', ~dropped' PROVE Complete'
  <2>1. Complete /\ (InRead => hits = 0 /\ hits' = 1) /\ (~InRead => hits' = hits)
    <3>1. ~raced /\ ~dropped /\ ~(InRead /\ hits >= 1) BY <1>6, Zenon DEF OnEvent
    <3> QED BY <3>1 DEF OnEvent, IInv, TypeOK, InRead
  <2>2. /\ end' = Wrapped(end + 1) /\ typed' = typed + 1
        /\ Wrapped(end + 1) # start /\ start' = start
        /\ UNCHANGED <<pc, i, from, got>>
    BY <1>6 DEF OnEvent
  <2>3. /\ end \in Slots /\ from \in Slots /\ start \in 0..FILE_BUFFER_SIZE /\ hits \in 0..2
        /\ start = FILE_BUFFER_SIZE => pc = "wrap"
        /\ typed \in Nat /\ got \in Nat
    BY DEF IInv, TypeOK
  <2>4. CASE pc \in {"entry", "check", "compare", "load", "copy"}
    BY <2>1, <2>2, <2>3, <2>4 DEF Complete, Follows, Number, Age, Slots, Wrapped
  <2>5. CASE pc \in {"increment", "advance"}
    BY <2>1, <2>2, <2>3, <2>5 DEF Complete, Follows, Number, Age, Slots, Wrapped
  <2>6. CASE pc = "wrap"
    BY <2>1, <2>2, <2>3, <2>6 DEF Complete, InRead, Follows, Number, Age, Slots, Wrapped
  <2> QED BY <2>4, <2>5, <2>6 DEF IInv, TypeOK
<1> QED BY <1>1, <1>2, <1>3, <1>4, <1>5, <1>6 DEF IInv

LEMMA EnterIInv == IInv /\ Enter => IInv'
<1> SUFFICES ASSUME IInv, Enter PROVE IInv' OBVIOUS
<1> USE SizeAssumption, ReaderAssumption
<1>1. TypeOK' BY DEF IInv, TypeOK, Enter, ring, history, Slots, Wrapped
<1>2. Filled' BY DEF IInv, Filled, Number, Age, Enter, ring, history
<1>3. got' <= typed' BY DEF IInv, TypeOK, Enter, history, Filled, Ordered, Number, Age, Slots
<1>4. pc' \notin {"entry", "check"} => i' < NumberToRead BY DEF Enter, IInv, TypeOK
<1>5. ASSUME ~raced' PROVE Ordered'
  BY <1>5 DEF IInv, TypeOK, Enter, ring, history, Filled, Ordered, Ahead, Number, Age, Slots, Wrapped
<1>6. ASSUME ~raced', ~dropped' PROVE Complete'
  BY <1>6 DEF IInv, TypeOK, Enter, ring, history, Filled, Complete, Ordered, Follows, Number, Age, Slots, Wrapped
<1> QED BY <1>1, <1>2, <1>3, <1>4, <1>5, <1>6 DEF IInv

LEMMA CheckIInv == IInv /\ Check => IInv'
<1> SUFFICES ASSUME IInv, Check PROVE IInv' OBVIOUS
<1> USE SizeAssumption, ReaderAssumption
<1>1. TypeOK' BY DEF IInv, TypeOK, Check, ring, history, Slots, Wrapped
<1>2. Filled' BY DEF IInv, Filled, Number, Age, Check, ring, history
<1>3. got' <= typed' BY DEF IInv, TypeOK, Check, history, Filled, Ordered, Number, Age, Slots
<1>4. pc' \notin {"entry", "check"} => i' < NumberToRead BY DEF Check, IInv, TypeOK
<1>5. ASSUME ~raced' PROVE Ordered'
  BY <1>5 DEF IInv, TypeOK, Check, ring, history, Filled, Ordered, Ahead, Number, Age, Slots, Wrapped
<1>6. ASSUME ~raced', ~dropped' PROVE Complete'
  BY <1>6 DEF IInv, TypeOK, Check, ring, history, Filled, Complete, Ordered, Follows, Number, Age, Slots, Wrapped
<1> QED BY <1>1, <1>2, <1>3, <1>4, <1>5, <1>6 DEF IInv

LEMMA CompareIInv == IInv /\ Compare => IInv'
<1> SUFFICES ASSUME IInv, Compare PROVE IInv' OBVIOUS
<1> USE SizeAssumption, ReaderAssumption
<1>1. TypeOK' BY DEF IInv, TypeOK, Compare, ring, history, Slots, Wrapped
<1>2. Filled' BY DEF IInv, Filled, Number, Age, Compare, ring, history
<1>3. got' <= typed' BY DEF IInv, TypeOK, Compare, history, Filled, Ordered, Number, Age, Slots
<1>4. pc' \notin {"entry", "check"} => i' < NumberToRead BY DEF Compare, IInv, TypeOK
<1>5. ASSUME ~raced' PROVE Ordered'
  BY <1>5 DEF IInv, TypeOK, Compare, ring, history, Filled, Ordered, Ahead, Number, Age, Slots, Wrapped
<1>6. ASSUME ~raced', ~dropped' PROVE Complete'
  BY <1>6 DEF IInv, TypeOK, Compare, ring, history, Filled, Complete, Ordered, Follows, Number, Age, Slots, Wrapped
<1> QED BY <1>1, <1>2, <1>3, <1>4, <1>5, <1>6 DEF IInv

LEMMA LoadIInv == IInv /\ Load => IInv'
<1> SUFFICES ASSUME IInv, Load PROVE IInv' OBVIOUS
<1> USE SizeAssumption, ReaderAssumption
<1>1. TypeOK' BY DEF IInv, TypeOK, Load, ring, history, Slots, Wrapped
<1>2. Filled' BY DEF IInv, Filled, Number, Age, Load, ring, history
<1>3. got' <= typed' BY DEF IInv, TypeOK, Load, history, Filled, Ordered, Number, Age, Slots
<1>4. pc' \notin {"entry", "check"} => i' < NumberToRead BY DEF Load, IInv, TypeOK
<1>5. ASSUME ~raced' PROVE Ordered'
  BY <1>5 DEF IInv, TypeOK, Load, ring, history, Filled, Ordered, Ahead, Number, Age, Slots, Wrapped
<1>6. ASSUME ~raced', ~dropped' PROVE Complete'
  BY <1>6 DEF IInv, TypeOK, Load, ring, history, Filled, Complete, Ordered, Follows, Number, Age, Slots, Wrapped
<1> QED BY <1>1, <1>2, <1>3, <1>4, <1>5, <1>6 DEF IInv

LEMMA CopyIInv == IInv /\ Copy => IInv'
<1> SUFFICES ASSUME IInv, Copy PROVE IInv' OBVIOUS
<1> USE SizeAssumption, ReaderAssumption
<1>1. TypeOK' BY DEF IInv, TypeOK, Copy, ring, history, Slots, Wrapped
<1>2. Filled' BY DEF IInv, Filled, Number, Age, Copy, ring, history
<1>3. got' <= typed' BY DEF IInv, TypeOK, Copy, history, Filled, Ordered, Number, Age, Slots
<1>4. pc' \notin {"entry", "check"} => i' < NumberToRead BY DEF Copy, IInv, TypeOK
<1>5. ASSUME ~raced' PROVE Ordered'
  BY <1>5 DEF IInv, TypeOK, Copy, ring, history, Filled, Ordered, Ahead, Number, Age, Slots, Wrapped
<1>6. ASSUME ~raced', ~dropped' PROVE Complete'
  BY <1>6 DEF IInv, TypeOK, Copy, ring, history, Filled, Complete, Ordered, Follows, Number, Age, Slots, Wrapped
<1> QED BY <1>1, <1>2, <1>3, <1>4, <1>5, <1>6 DEF IInv

LEMMA IncrementIInv == IInv /\ Increment => IInv'
<1> SUFFICES ASSUME IInv, Increment PROVE IInv' OBVIOUS
<1> USE SizeAssumption, ReaderAssumption
<1>1. TypeOK' BY DEF IInv, TypeOK, Increment, ring, history, Slots, Wrapped
<1>2. Filled' BY DEF IInv, Filled, Number, Age, Increment, ring, history
<1>3. got' <= typed' BY DEF IInv, TypeOK, Increment, history, Filled, Ordered, Number, Age, Slots
<1>4. pc' \notin {"entry", "check"} => i' < NumberToRead BY DEF Increment, IInv, TypeOK
<1>5. ASSUME ~raced' PROVE Ordered'
  BY <1>5 DEF IInv, TypeOK, Increment, ring, history, Filled, Ordered, Ahead, Number, Age, Slots, Wrapped
<1>6. ASSUME ~raced', ~dropped' PROVE Complete'
  BY <1>6 DEF IInv, TypeOK, Increment, ring, history, Filled, Complete, Ordered, Follows, Number, Age, Slots, Wrapped
<1> QED BY <1>1, <1>2, <1>3, <1>4, <1>5, <1>6 DEF IInv

LEMMA AdvanceIInv == IInv /\ Advance => IInv'
<1> SUFFICES ASSUME IInv, Advance PROVE IInv' OBVIOUS
<1> USE SizeAssumption, ReaderAssumption
<1>1. TypeOK' BY DEF IInv, TypeOK, Advance, ring, history, Slots, Wrapped
<1>2. Filled' BY DEF IInv, Filled, Number, Age, Advance, ring, history
<1>3. got' <= typed' BY DEF IInv, TypeOK, Advance, history, Filled, Ordered, Number, Age, Slots
<1>4. pc' \notin {"entry", "check"} => i' < NumberToRead BY DEF Advance, IInv, TypeOK
<1>5. ASSUME ~raced' PROVE Ordered'
  BY <1>5 DEF IInv, TypeOK, Advance, ring, history, Filled, Ordered, Ahead, Number, Age, Slots, Wrapped
<1>6. ASSUME ~raced', ~dropped' PROVE Complete'
  BY <1>6 DEF IInv, TypeOK, Advance, ring, history, Filled, Complete, Ordered, Follows, Number, Age, Slots, Wrapped
<1> QED BY <1>1, <1>2, <1>3, <1>4, <1>5, <1>6 DEF IInv

LEMMA WrapIInv == IInv /\ Wrap => IInv'
<1> SUFFICES ASSUME IInv, Wrap PROVE IInv' OBVIOUS
<1> USE SizeAssumption, ReaderAssumption
<1>1. TypeOK' BY DEF IInv, TypeOK, Wrap, ring, history, Slots, Wrapped
<1>2. Filled' BY DEF IInv, Filled, Number, Age, Wrap, ring, history
<1>3. got' <= typed' BY DEF IInv, TypeOK, Wrap, history, Filled, Ordered, Number, Age, Slots
<1>4. pc' \notin {"entry", "check"} => i' < NumberToRead BY DEF Wrap, IInv, TypeOK
<1>5. ASSUME ~raced' PROVE Ordered'
  BY <1>5 DEF IInv, TypeOK, Wrap, ring, history, Filled, Ordered, Ahead, Number, Age, Slots, Wrapped
<1>6. ASSUME ~raced', ~dropped' PROVE Complete'
  BY <1>6 DEF IInv, TypeOK, Wrap, ring, history, Filled, Complete, Ordered, Follows, Number, Age, Slots, Wrapped
<1> QED BY <1>1, <1>2, <1>3, <1>4, <1>5, <1>6 DEF IInv

LEMMA NextIInv == IInv /\ [Next]_vars => IInv'
<1> SUFFICES ASSUME IInv, [Next]_vars PROVE IInv' OBVIOUS
<1>1. CASE OnEvent BY <1>1, OnEventIInv
<1>2. CASE Read
  BY <1>2, EnterIInv, CheckIInv, CompareIInv, LoadIInv, CopyIInv, IncrementIInv, AdvanceIInv, WrapIInv
     DEF Read
<1>3. CASE UNCHANGED vars
  BY <1>3 DEF vars, IInv, TypeOK, Filled, Number, Age, Ordered, Ahead, Complete, Follows
<1> QED BY <1>1, <1>2, <1>3 DEF Next

\* Only Copy goes from "copy" to "increment" ...
LEMMA OnlyCopy == ASSUME [Next]_vars, pc = "copy", pc' = "increment" PROVE Copy
BY DEF vars, Next, Read, OnEvent, Enter, Check, Compare, Load, Increment, Advance, Wrap

\* ... and it delivers the event of the slot that was loaded.
LEMMA CopyTakes ==
  ASSUME IInv, Copy, Number(from) \in Int, Number(from) > 0 PROVE got' = Number(from)
BY DEF IInv, TypeOK, Filled, Copy

LEMMA NumberIsInt == IInv => Number(from) \in Int
BY SizeAssumption DEF IInv, TypeOK, Number, Age, Slots

LEMMA Invariance == Spec => []IInv
BY InitIInv, NextIInv, PTL DEF Spec

-----------------------------------------------------------------------------
\* Every variable has its type, for a ring of any size: keyboard_read never
\* copies from outside the ring.
THEOREM TypeCorrect == Spec => []TypeOK
<1>1. IInv => TypeOK BY DEF IInv
<1> QED BY <1>1, Invariance, PTL

\* Whatever the size of the ring, events are delivered in the order they were
\* typed and none twice, while at most one is typed during a delivery.
THEOREM DeliveryInOrder == Spec => DeliversInOrder
<1>1. IInv /\ [Next]_vars => [pc = "copy" /\ pc' = "increment" => got' > got \/ raced]_vars
  <2> SUFFICES ASSUME IInv, [Next]_vars, pc = "copy", pc' = "increment", ~raced PROVE got' > got
    OBVIOUS
  <2>1. Copy BY OnlyCopy
  <2>2. got < Number(from) BY DEF IInv, Ordered
  <2> QED BY <2>1, <2>2, CopyTakes, NumberIsInt DEF IInv, TypeOK
<1> QED BY <1>1, Invariance, PTL DEF Spec, DeliversInOrder

\* Whatever the size of the ring, the reader misses no event until the ring
\* overflows or two events are typed during one delivery.
THEOREM NothingMissed == Spec => MissesNothing
<1>1. IInv /\ [Next]_vars
        => [pc = "copy" /\ pc' = "increment" => got' = got + 1 \/ dropped \/ raced]_vars
  <2> SUFFICES ASSUME IInv, [Next]_vars, pc = "copy", pc' = "increment", ~raced, ~dropped
               PROVE  got' = got + 1
    OBVIOUS
  <2>1. Copy BY OnlyCopy
  <2>2. start # end /\ Follows(start) /\ from = start BY DEF IInv, Ordered, Complete
  <2>3. got + 1 = Number(from) BY <2>2 DEF Follows
  <2> QED BY <2>1, <2>3, CopyTakes, NumberIsInt DEF IInv, TypeOK
<1> QED BY <1>1, Invariance, PTL DEF Spec, MissesNothing

=============================================================================
