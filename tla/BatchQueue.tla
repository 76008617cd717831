------------------------------ MODULE BatchQueue ------------------------------
(***************************************************************************)
(* What the message buffer promises its callers, without memory, counters, *)
(* locks or waiting.                                                       *)
(*                                                                         *)
(* A queue carries the messages of several producers to one collector.  A  *)
(* call of MessageBufferPut is a series of atomic steps, each of which     *)
(* appends the name of the traced symbol and a NON-EMPTY prefix of what    *)
(* the producer still has to send, so a call that is not cut short ends,   *)
(* no message is duplicated, and the messages of a producer keep their     *)
(* order.  A call of MessageBufferGet hands over the whole queue.  Once    *)
(* the queue is closed a producer may be told that its messages are        *)
(* stored when they are not; that is the only way a message is lost        *)
(* besides a cancelled call.                                               *)
(***************************************************************************)
EXTENDS Integers, Sequences

CONSTANTS Producers, Arrays, MaxSent

VARIABLES
    queue,      \* messages on their way
    todo,       \* what each producer still has to send
    sent,       \* messages each producer has started to send
    batch,      \* what the collector received last
    closed      \* the collector has gone

vars == <<queue, todo, sent, batch, closed>>

Item(t, p, n) == [type |-> t, symbol |-> p, id |-> n]
Name(p)       == Item("SYMBOL", p, 0)

Init ==
    /\ queue = <<>>
    /\ todo = [p \in Producers |-> <<>>]
    /\ sent = [p \in Producers |-> 0]
    /\ batch = <<>>
    /\ closed = FALSE

\* A producer starts a call with a new array of messages.
Call(p) ==
    /\ todo[p] = <<>>
    /\ \E a \in Arrays :
          /\ sent[p] + Len(a) <= MaxSent
          /\ todo' = [todo EXCEPT ![p] =
                [i \in 1 .. Len(a) |-> Item("CUSTOM", p, sent[p] + i)]]
          /\ sent' = [sent EXCEPT ![p] = @ + Len(a)]
    /\ UNCHANGED <<queue, batch, closed>>

Put(p) ==
    /\ \E k \in 1 .. Len(todo[p]) :
          /\ queue' = queue \o <<Name(p)>> \o SubSeq(todo[p], 1, k)
          /\ todo' = [todo EXCEPT ![p] = SubSeq(@, k + 1, Len(@))]
    /\ UNCHANGED <<sent, batch, closed>>

\* The caller gives up: its query is cancelled, or the queue is closed.
GiveUp(p) ==
    /\ todo[p] # <<>>
    /\ todo' = [todo EXCEPT ![p] = <<>>]
    /\ UNCHANGED <<queue, sent, batch, closed>>

\* The collector is done with what it received.
Process ==
    /\ ~closed
    /\ batch' = <<>>
    /\ UNCHANGED <<queue, todo, sent, closed>>

Get ==
    /\ ~closed
    /\ queue # <<>>
    /\ batch = <<>>
    /\ batch' = queue
    /\ queue' = <<>>
    /\ UNCHANGED <<todo, sent, closed>>

Close ==
    /\ ~closed
    /\ closed' = TRUE
    /\ UNCHANGED <<queue, todo, sent, batch>>

Next ==
    \/ \E p \in Producers : Call(p) \/ Put(p) \/ GiveUp(p)
    \/ Get \/ Process
    \/ Close

Spec == Init /\ [][Next]_vars
=============================================================================
