------------------------------ MODULE EventPipe ------------------------------
(***************************************************************************)
(* What the interrupt path of espradio promises for the events the MAC     *)
(* raises: whatever the blob's ISR posts reaches the blob's queue in order *)
(* and once, through a pipe of bounded length.  An event is lost only when *)
(* the pipe has no room, or its queue none, and the loss is counted.       *)
(***************************************************************************)
EXTENDS Integers, Sequences

CONSTANTS
    Capacity,    \* items the pipe holds
    QueueCap     \* items the queue holds

VARIABLES
    waiting,     \* events raised and not yet posted
    posted,      \* how many have been posted: the last one's number
    transit,     \* items on their way
    inbox,       \* the queue
    lost,        \* events that found no room in the pipe
    refused      \* items that found no room in the queue

pipe == <<waiting, posted, transit, inbox, lost, refused>>

PipeInit ==
    /\ waiting = 0 /\ posted = 0 /\ lost = 0 /\ refused = 0
    /\ transit = <<>> /\ inbox = <<>>

Raise ==
    /\ waiting' = waiting + 1
    /\ UNCHANGED <<posted, transit, inbox, lost, refused>>

Post ==
    /\ waiting > 0 /\ Len(transit) < Capacity
    /\ waiting' = waiting - 1 /\ posted' = posted + 1
    /\ transit' = Append(transit, posted + 1)
    /\ UNCHANGED <<inbox, lost, refused>>

\* The place of an item being handed over may still be taken.
Lose ==
    /\ waiting > 0 /\ Len(transit) + 1 >= Capacity
    /\ waiting' = waiting - 1 /\ lost' = lost + 1
    /\ UNCHANGED <<posted, transit, inbox, refused>>

HandOver ==
    /\ transit # <<>> /\ transit' = Tail(transit)
    /\ \/ /\ Len(inbox) < QueueCap /\ inbox' = Append(inbox, Head(transit))
          /\ UNCHANGED refused
       \/ /\ Len(inbox) = QueueCap /\ refused' = refused + 1
          /\ UNCHANGED inbox
    /\ UNCHANGED <<waiting, posted, lost>>

Receive ==
    /\ inbox # <<>> /\ inbox' = Tail(inbox)
    /\ UNCHANGED <<waiting, posted, transit, lost, refused>>

PipeNext == Raise \/ Post \/ Lose \/ HandOver \/ Receive

PipeSpec == PipeInit /\ [][PipeNext]_pipe
=============================================================================
