---------------------------- MODULE KeyboardRing ----------------------------
(***************************************************************************)
(* The event ring of one open keyboard file, kernel/keyboard/keyboard.c.   *)
(* on_event runs in the keyboard interrupt and cannot be interrupted;      *)
(* keyboard_read runs inside system call 0x04 with interrupts on, so that  *)
(* events arrive between any two of its steps.  One process reads, as in   *)
(* get_line and wait_for_keypress.  Events are numbered as they are typed. *)
(***************************************************************************)
EXTENDS Integers

CONSTANTS FILE_BUFFER_SIZE, \* slots of the ring
          NumberToRead,     \* events the reader has room for
          MaxTyped          \* bound on the events typed

ASSUME SizeAssumption == FILE_BUFFER_SIZE \in Nat /\ FILE_BUFFER_SIZE >= 3
ASSUME ReaderAssumption == NumberToRead \in Nat \ {0} /\ MaxTyped \in Nat

VARIABLES buffer,  \* slot -> number of the event in it, 0 before the first
          start,   \* index of the oldest event; one past the ring before it is wrapped
          end,     \* index of the next free slot
          pc,      \* where keyboard_read is
          i,       \* its loop counter
          from,    \* the value of *start the reader has loaded
          typed,   \* number of the last event typed
          got,     \* number of the last event delivered
          hits,    \* events typed since the reader found the ring not empty: 0, 1, 2 or more
          dropped, \* the ring was full and on_event moved start
          raced    \* two events were typed while the reader took one

vars == <<buffer, start, end, pc, i, from, typed, got, hits, dropped, raced>>
ring == <<buffer, start, end>>
history == <<typed, got, hits, dropped, raced>>

Slots == 0..(FILE_BUFFER_SIZE - 1)

Init ==
  /\ buffer = [s \in Slots |-> 0]
  /\ start = 0
  /\ end = 0
  /\ pc = "entry"
  /\ i = 0
  /\ from = 0
  /\ typed = 0
  /\ got = 0
  /\ hits = 0
  /\ dropped = FALSE
  /\ raced = FALSE

-----------------------------------------------------------------------------
Wrapped(index) == IF index >= FILE_BUFFER_SIZE THEN 0 ELSE index

InRead == pc \in {"load", "copy", "increment", "advance", "wrap"}

\* IRQ1.  A full ring loses its two oldest events, or only one when start
\* was on the last slot.
OnEvent ==
  LET last == Wrapped(end + 1)
      full == last = start
  IN
  /\ typed < MaxTyped
  /\ typed' = typed + 1
  /\ buffer' = [buffer EXCEPT ![end] = typed + 1]
  /\ end' = last
  /\ start' = IF full THEN Wrapped(start + 2) ELSE start
  /\ dropped' = (dropped \/ full)
  /\ hits' = IF InRead /\ hits < 2 THEN hits + 1 ELSE hits
  /\ raced' = (raced \/ (InRead /\ hits >= 1))
  /\ UNCHANGED <<pc, i, from, got>>

-----------------------------------------------------------------------------
(* keyboard_read, one step per access to the ring.                         *)

Enter ==
  /\ pc = "entry"
  /\ pc' = "check"
  /\ i' = 0
  /\ UNCHANGED <<ring, from, history>>

\* if (*start == *end): two loads, compared in Compare.
Check ==
  /\ pc = "check"
  /\ from' = start
  /\ pc' = IF i = NumberToRead THEN "entry" ELSE "compare"
  /\ UNCHANGED <<ring, i, history>>

\* Mutant of Compare: a ring that has wrapped round looks empty.
CompareOrder ==
  /\ pc = "compare"
  /\ hits' = 0
  /\ pc' = IF from >= end THEN "entry" ELSE "load"
  /\ UNCHANGED <<ring, i, from, typed, got, dropped, raced>>

Compare ==
  /\ pc = "compare"
  /\ hits' = 0
  /\ pc' = IF from = end THEN "entry" ELSE "load"
  /\ UNCHANGED <<ring, i, from, typed, got, dropped, raced>>

\* *start is read to pass it to memcpy
Load ==
  /\ pc = "load"
  /\ from' = start
  /\ pc' = "copy"
  /\ UNCHANGED <<ring, i, history>>

\* Mutant of Copy: the slot behind the one that was loaded.
CopyNext ==
  /\ pc = "copy"
  /\ got' = buffer[Wrapped(from + 1)]
  /\ pc' = "increment"
  /\ UNCHANGED <<ring, i, from, typed, hits, dropped, raced>>

Copy ==
  /\ pc = "copy"
  /\ got' = buffer[from]
  /\ pc' = "increment"
  /\ UNCHANGED <<ring, i, from, typed, hits, dropped, raced>>

\* (*start)++ is a load and a store: what on_event stores between them is lost.
Increment ==
  /\ pc = "increment"
  /\ from' = start
  /\ pc' = "advance"
  /\ UNCHANGED <<ring, i, history>>

\* Mutant of Advance: two slots at once, as on_event does.
AdvanceTwo ==
  /\ pc = "advance"
  /\ start' = from + 2
  /\ pc' = "wrap"
  /\ UNCHANGED <<buffer, end, i, from, history>>

Advance ==
  /\ pc = "advance"
  /\ start' = from + 1
  /\ pc' = "wrap"
  /\ UNCHANGED <<buffer, end, i, from, history>>

Wrap ==
  /\ pc = "wrap"
  /\ start' = Wrapped(start)
  /\ pc' = "check"
  /\ i' = i + 1
  /\ UNCHANGED <<buffer, end, from, history>>

Read == Enter \/ Check \/ Compare \/ Load \/ Copy \/ Increment \/ Advance \/ Wrap

Next == OnEvent \/ Read

Spec == Init /\ [][Next]_vars
\* Every running process gets the CPU again (Scheduler!EveryoneRuns) and the
\* reader asks again until it has an event.
FairSpec == Spec /\ WF_vars(Read)

-----------------------------------------------------------------------------
(* Properties.                                                             *)

\* Every variable has its type; start is past the ring only between the
\* reader's increment and its wrap, and memcpy never reads outside the ring.
TypeOK ==
  /\ buffer \in [Slots -> 0..MaxTyped]
  /\ start \in 0..FILE_BUFFER_SIZE
  /\ start = FILE_BUFFER_SIZE => pc = "wrap"
  /\ end \in Slots
  /\ pc \in {"entry", "check", "compare", "load", "copy", "increment", "advance", "wrap"}
  /\ i \in 0..NumberToRead
  /\ from \in Slots
  /\ typed \in 0..MaxTyped
  /\ got \in 0..MaxTyped
  /\ hits \in 0..2
  /\ dropped \in BOOLEAN
  /\ raced \in BOOLEAN

\* Events are delivered in the order they were typed and none twice, full ring
\* or not, unless two events were typed while the reader was taking one.
DeliversInOrder == [][pc = "copy" /\ pc' = "increment" => got' > got \/ raced]_vars

\* Until the ring overflows, the reader misses no event.
MissesNothing ==
  [][pc = "copy" /\ pc' = "increment" => got' = got + 1 \/ dropped \/ raced]_vars

\* What is typed is delivered in the end, unless it was dropped.
DeliversAll == \A n \in 1..MaxTyped : typed = n ~> (got >= n \/ dropped \/ raced)

=============================================================================
