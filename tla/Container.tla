------------------------------ MODULE Container ------------------------------
(***************************************************************************)
(* sync::Container: the queue with a condition variable that every pair of *)
(* threads of the program talks through.  The mutex makes each critical    *)
(* section one step; remove() is several, because wait() gives the mutex   *)
(* away and interrupt() does not take it.  A reader is                     *)
(*   out      not in remove()                                              *)
(*   entered  counted in mReaders, before its first test                   *)
(*   waiting  in mCond.wait()                                              *)
(*   woken    notified, before it has the mutex again.                     *)
(* The actions are the steps of the threads of the modules that            *)
(* instantiate this one.                                                   *)
(***************************************************************************)
EXTENDS Sequences

CONSTANT Reader

VARIABLES content,      \* mContainer
          interrupted,  \* mInterrupted
          at            \* where each reader is; mReaders counts those not out

Init == /\ content = <<>>
        /\ interrupted = FALSE
        /\ at = [t \in Reader |-> "out"]

Readers == { t \in Reader : at[t] # "out" }

Notified == [t \in Reader |-> IF at[t] = "waiting" THEN "woken" ELSE at[t]]

\* mInsert, as the constructor sets it, for a value that mRemove takes from
\* the front.
\* Mutant of Inserted: the queue is a stack.
Stacked(c, v) == <<v>> \o c

Inserted(c, v) == Append(c, v)

\* insert(): throws while, or after, somebody interrupts.
Insert(v) == /\ ~interrupted
             /\ content' = Inserted(content, v)
             /\ at' = Notified
             /\ UNCHANGED interrupted

\* remove(): the reader is counted before it has the mutex.
Enter(t) == /\ at[t] = "out"
            /\ at' = [at EXCEPT ![t] = "entered"]
            /\ UNCHANGED <<content, interrupted>>

\* The loop of remove() tests mInterrupted after a wait only.
Throws(t) == at[t] = "woken" /\ interrupted

Tests(t) == at[t] = "entered" \/ (at[t] = "woken" /\ ~interrupted)

Wait(t) == /\ Tests(t) /\ content = <<>>
           /\ at' = [at EXCEPT ![t] = "waiting"]
           /\ UNCHANGED <<content, interrupted>>

Take(t) == /\ Tests(t) /\ content # <<>>
           /\ content' = Tail(content)
           /\ at' = [at EXCEPT ![t] = "out"]
           /\ UNCHANGED interrupted

Throw(t) == /\ Throws(t)
            /\ at' = [at EXCEPT ![t] = "out"]
            /\ UNCHANGED <<content, interrupted>>

\* interrupt(final): the flag, the loop that notifies until no reader is
\* left, and the flag again.
BeginInterrupt == interrupted' = TRUE /\ UNCHANGED <<content, at>>

\* Mutant of EndInterrupt: it does not wait for the readers.
EndsAtOnce(final) == /\ interrupted' = final
                     /\ UNCHANGED <<content, at>>

NotifyAll == /\ \E t \in Reader : at[t] = "waiting"
             /\ at' = Notified
             /\ UNCHANGED <<content, interrupted>>

EndInterrupt(final) == /\ Readers = {}
                       /\ interrupted' = final
                       /\ UNCHANGED <<content, at>>
=============================================================================
