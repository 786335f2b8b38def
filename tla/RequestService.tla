---------------------------- MODULE RequestService ----------------------------
(***************************************************************************)
(* What the path of requests promises a client, without peers, relays,     *)
(* queues, crashes or time.  Commands are given one after another.  Until  *)
(* one is over the client may send it again, a bounded number of times.    *)
(* Every sending allows one application, at any time from then on: also    *)
(* when the client has been told that the command failed, or has given     *)
(* others since.  Being told "applied" means that it was; being told       *)
(* anything else leaves open whether it was or will be.                    *)
(***************************************************************************)
EXTENDS Integers

CONSTANTS
    MaxCommands,   \* bound: commands given
    MaxSends       \* how often a command is sent at most

Commands == 1 .. MaxCommands

VARIABLES
    given,     \* the number of the last command
    open,      \* it is not over yet
    told,      \* how it ended, as far as the client knows
    sent,      \* sent[i]: how often command i was sent
    applied    \* applied[i]: how often command i was applied

Service == <<given, open, told, sent, applied>>

Init ==
    /\ given = 0 /\ open = FALSE /\ told = "nothing"
    /\ sent = [i \in Commands |-> 0]
    /\ applied = [i \in Commands |-> 0]

Give ==
    /\ ~ open /\ given < MaxCommands
    /\ given' = given + 1 /\ open' = TRUE /\ told' = "nothing"
    /\ UNCHANGED <<sent, applied>>

Send ==
    /\ open /\ sent[given] < MaxSends
    /\ sent' = [sent EXCEPT ![given] = @ + 1]
    /\ UNCHANGED <<given, open, told, applied>>

Apply(i) ==
    /\ applied[i] < sent[i]
    /\ applied' = [applied EXCEPT ![i] = @ + 1]
    /\ UNCHANGED <<given, open, told, sent>>

End(answer) ==
    /\ open
    /\ answer = "applied" => applied[given] > 0
    /\ open' = FALSE /\ told' = answer
    /\ UNCHANGED <<given, sent, applied>>

Next ==
    \/ Give \/ Send
    \/ \E i \in Commands : Apply(i)
    \/ \E answer \in {"nothing", "applied", "unknown"} : End(answer)

Spec == Init /\ [][Next]_Service

=============================================================================
