------------------------------ MODULE Delivery ------------------------------
(***************************************************************************)
(* One message on its way, in the text that travels: an edit from the      *)
(* prompt of a client over a relaying peer to the master and, as a log     *)
(* event, to a follower; an announcement from a new master to the others;  *)
(* and what a Byzantine peer sends or alters.  Every process takes the     *)
(* text apart, verifies it and composes the next one.  What order messages *)
(* come in is the business of the other modules.                           *)
(***************************************************************************)
EXTENDS Wire

CONSTANTS
    Typed,      \* the texts a user may type
    Documents,  \* the documents there may be before, at every peer
    Sequent,    \* the sequent of the next event, one digit
    Buffer      \* how many words of a text one read takes (1024 characters)

ASSUME ConstantsAssumption ==
    /\ Typed \subseteq Seq(Nat)
    /\ Documents \subseteq Seq(Nat)
    /\ Sequent \in 0 .. 9
    /\ Buffer \in Nat

VARIABLES
    at,      \* the process the text is on its way to
    wire,    \* the text
    origin,  \* what was sent first, see Origins
    route,   \* the peer asked, the master, and a Byzantine peer or 0
    doc,     \* the document before, and those of the master and of a follower
    fate     \* what became of the message

Vandalism == 1686  \* "Haha! Can't catch me!"

vars == <<at, wire, origin, route, doc, fate>>

Places == {"prompt", "relay", "master", "follower", "electorate", "done"}
Fates ==
    {"none", "ignored", "ended", "overrun", "rejected", "applied", "deposed", "counted"}

Stop(how) == at' = "done" /\ fate' = how /\ UNCHANGED <<wire, origin, route, doc>>
Send(text, place) == wire' = text /\ at' = place

\* A server reads once; what does not fit is never read.
Read(text) == SubSeq(text, 1, IF Len(text) < Buffer THEN Len(text) ELSE Buffer)
Readable == wire # <<>> /\ WellFormed(Read(wire))
Received == Unmarshal(Read(wire))
Accepted(place) == at = place /\ Readable /\ VerifyMessage(Received)

-----------------------------------------------------------------------------
(* The client: the command line and the constructor of BftClient.          *)

\* A request without a body or with "NULL" for one, or a count that is no number,
\* is not sent.
Acceptable(type, text) ==
    text \notin {<<>>, Null} /\ (type = DELT => IsNumber(text))

Origin(kind, client, type, text, votes) ==
    origin' = [kind |-> kind, client |-> client, type |-> type, text |-> text,
               votes |-> votes]

\* first is the peer asked, which relays the request if it is not the master.
SendCommand(client, first, master, byzantine) ==
    /\ at = "prompt"
    /\ \E type \in {APND, DELT}, text \in Typed :
        /\ Acceptable(type, text)
        /\ Origin("edit", client, type, text, 0)
        /\ Send(Compose(type, client, 0, text), IF first = master THEN "master" ELSE "relay")
    /\ route' = [first |-> first, master |-> master, byzantine |-> byzantine]
    /\ UNCHANGED <<doc, fate>>

-----------------------------------------------------------------------------
(* startServer: an empty text and one that cannot be verified is ignored,  *)
(* what has no number for a signature ends the process, and what lost its  *)
(* separators because it was too long is taken apart all the same.         *)

Serving == at \in {"relay", "master", "follower", "electorate"}

IgnoreEmpty == Serving /\ wire = <<>> /\ Stop("ignored")

\* The loops of unmarshal_message go on behind the end of the buffer.  What that
\* makes of the message is undefined, so the model ends here and says nothing of it.
Overrun == Serving /\ wire # <<>> /\ ~ WellFormed(Read(wire)) /\ Stop("overrun")

EndOnMessage == Serving /\ Readable /\ Throws(Received) /\ Stop("ended")

IgnoreUnverified ==
    /\ Serving /\ Readable /\ ~ Throws(Received) /\ ~ VerifyMessage(Received)
    /\ Stop("ignored")

-----------------------------------------------------------------------------
(* The peer asked: relay_message_to_master.                                *)

\* Mutant: the relaying peer composes and signs the message itself.
RelayAsOwn ==
    /\ Accepted("relay")
    /\ Send(ComposeAs(route.first, Head(Received.type), Stoi(Received.port), 0,
                      Received.body), "master")
    /\ UNCHANGED <<origin, route, doc, fate>>

Relay ==
    /\ Accepted("relay")
    /\ Send(Marshal(Received), "master")
    /\ UNCHANGED <<origin, route, doc, fate>>

\* What the assignment of a number to a string makes of it: one signed character.
AsChar(n) == ((n + 128) % 256) - 128

\* A Byzantine relay puts the length of its document in place of the type, as a
\* character, meaning to ask for the deletion of everything; no character has a
\* code that makes up for the type, and a text that starts with NUL is sent as an
\* empty one.  Or it puts another text in place of the body.
RelayAltered ==
    /\ Accepted("relay")
    /\ route.byzantine = route.first
    /\ \/ LET type == AsChar(Len(doc.before))
          IN  Send(IF type = 0 THEN <<>> ELSE Marshal([Received EXCEPT !.type = <<type>>]),
                   "master")
       \/ Send(Marshal([Received EXCEPT !.body = <<Vandalism>>]), "master")
    /\ UNCHANGED <<origin, route, doc, fate>>

-----------------------------------------------------------------------------
(* The master: handle_message_client, process_client_request_as_master.    *)

Performed(document, type, text) ==
    IF type = <<DELT>> THEN SubSeq(document, 1, Len(document) - Stoi(text))
                       ELSE document \o text

TooLong(document, type, text) == type = <<DELT>> /\ Stoi(text) > Len(document)

\* stoi throws, here and in apply_event.
NoCount(type, text) == type = <<DELT>> /\ ~ IsNumber(text)

EndOnEdit ==
    /\ Accepted("master")
    /\ NoCount(Received.type, Sanitise(Received.body))
    /\ Stop("ended")

RejectEdit ==
    /\ Accepted("master")
    /\ Received.type \in {<<APND>>, <<DELT>>}
    /\ LET text == Sanitise(Received.body)
       IN  /\ ~ NoCount(Received.type, text)
           /\ text = <<>> \/ TooLong(doc.master, Received.type, text)
    /\ Stop("rejected")

\* The master's own copy is sanitised, what it announces is what it received.
ApplyEdit ==
    /\ Accepted("master")
    /\ Received.type \in {<<APND>>, <<DELT>>}
    /\ LET text == Sanitise(Received.body)
       IN  /\ text # <<>> /\ ~ NoCount(Received.type, text)
           /\ ~ TooLong(doc.master, Received.type, text)
           /\ doc' = [doc EXCEPT !.master = Performed(@, Received.type, text)]
    /\ Send(Compose(Head(Received.type), route.master, 1,
                EventBody([sequent |-> Sequent, data |-> Received.body,
                           client |-> Stoi(Received.port), sign |-> Received.sign])),
            "follower")
    /\ UNCHANGED <<origin, route, fate>>

ObeyElection ==
    /\ Accepted("master")
    /\ Received.type = <<ELCT>>
    /\ Stop("deposed")

-----------------------------------------------------------------------------
(* A follower: process_master_log_event.                                   *)

FromMaster == Accepted("follower") /\ Received.port = Numeral[route.master]
Event == UnmarshalEvent(Received.body)
ClientMessage == AsSent(Received.type, Event)

\* In verify_message or in apply_event.
EndsOn(m) ==
    \/ Throws(m)
    \/ VerifyMessage(m) /\ Sanitise(m.body) # <<>> /\ NoCount(m.type, Sanitise(m.body))

EndOnEvent ==
    /\ FromMaster
    /\ EndsOn(ClientMessage)
    /\ Stop("ended")

\* From a stranger, not as the client signed it, without text, or too long.
IgnoreEvent ==
    /\ \/ Accepted("follower") /\ ~ FromMaster
       \/ /\ FromMaster
          /\ ~ EndsOn(ClientMessage)
          /\ LET text == Sanitise(Event.body)
             IN  \/ ~ VerifyMessage(ClientMessage)
                 \/ text = <<>>
                 \/ TooLong(doc.follower, Received.type, text)
    /\ Stop("ignored")

\* Mutant: an event without a signature is taken for one the master vouches for.
ApplyEventUnsigned ==
    /\ FromMaster
    /\ Event.sign = <<>> \/ VerifyMessage(ClientMessage)
    /\ LET text == Sanitise(Event.body)
       IN  /\ text # <<>> /\ ~ TooLong(doc.follower, Received.type, text)
           /\ doc' = [doc EXCEPT !.follower = Performed(@, Received.type, text)]
    /\ at' = "done" /\ fate' = "applied"
    /\ UNCHANGED <<wire, origin, route>>

ApplyEvent ==
    /\ FromMaster
    /\ VerifyMessage(ClientMessage) /\ ~ EndsOn(ClientMessage)
    /\ LET text == Sanitise(Event.body)
       IN  /\ text # <<>> /\ ~ TooLong(doc.follower, Received.type, text)
           /\ doc' = [doc EXCEPT !.follower = Performed(@, Received.type, text)]
    /\ at' = "done" /\ fate' = "applied"
    /\ UNCHANGED <<wire, origin, route>>

-----------------------------------------------------------------------------
(* What a Byzantine peer sends of its own (byzantine_action).              *)

\* A log event that deletes everything, of no client and without signature.
FalseDelete(byzantine, master) ==
    /\ at = "prompt"
    /\ Origin("false delete", 0, DELT, Numeral[Len(doc.before)], 0)
    /\ route' = [first |-> byzantine, master |-> master, byzantine |-> byzantine]
    /\ Send(Compose(DELT, byzantine, 1,
                EventBody([sequent |-> Sequent, data |-> Numeral[Len(doc.before)],
                           client |-> 0, sign |-> <<>>])),
            "follower")
    /\ UNCHANGED <<doc, fate>>

\* A request for an election in the name of the first client.
FalseElection(byzantine, master) ==
    /\ at = "prompt"
    /\ Origin("false election", 5000, ELCT, <<>>, 0)
    /\ route' = [first |-> byzantine, master |-> master, byzantine |-> byzantine]
    /\ Send(ComposeAs(byzantine, ELCT, 5000, 0, <<>>), "master")
    /\ UNCHANGED <<doc, fate>>

-----------------------------------------------------------------------------
(* The announcement of a new master with the votes it collected.           *)

Yes(port, term) == [yes |-> TRUE, port |-> port, term |-> term]

\* Each voter signs its own term.
Vote(p, leader, term) ==
    IF p = leader THEN SignVote(Yes(p, term)) ELSE ComposeVote(Yes(p, term - 1))

\* compose_vote_record of masterVoteRecord, which is in the order of the ports.
ComposeVoteRecord(leader, voters, term) ==
    LET entry(p) == IF p \in voters THEN Vote(p, leader, term) \o <<Colon>> ELSE <<>>
    IN  entry(4000) \o entry(4001) \o entry(4002) \o entry(4003) \o entry(4004)

Announce(leader, voters) ==
    /\ at = "prompt"
    /\ \E term \in 1 .. 2 :
         Send(Compose(MSTR, leader, term, ComposeVoteRecord(leader, voters, term)),
              "electorate")
    /\ Origin("announcement", 0, MSTR, <<>>, Cardinality(voters))
    /\ route' = [first |-> leader, master |-> leader, byzantine |-> 0]
    /\ UNCHANGED <<doc, fate>>

VotesCounted(t) == Cardinality({v \in ReadVotes(t) : v.yes /\ VerifyVote(v)})

\* verify_votes.
CountVotes ==
    /\ Accepted("electorate")
    /\ Stop("counted")

-----------------------------------------------------------------------------
Init ==
    /\ at = "prompt"
    /\ wire = <<>>
    /\ origin = [kind |-> "none", client |-> 0, type |-> 0, text |-> <<>>, votes |-> 0]
    /\ route = [first |-> 0, master |-> 0, byzantine |-> 0]
    /\ \E document \in Documents :
          doc = [before |-> document, master |-> document, follower |-> document]
    /\ fate = "none"

Next ==
    \/ \E client \in ClientPorts, first, master \in PeerPorts :
          \/ SendCommand(client, first, master, 0)
          \/ first # master /\ SendCommand(client, first, master, first)
    \/ IgnoreEmpty \/ Overrun \/ EndOnMessage \/ IgnoreUnverified
    \/ Relay \/ RelayAltered
    \/ EndOnEdit \/ RejectEdit \/ ApplyEdit \/ ObeyElection
    \/ EndOnEvent \/ IgnoreEvent \/ ApplyEvent
    \/ \E byzantine, master \in PeerPorts :
          FalseDelete(byzantine, master) \/ FalseElection(byzantine, master)
    \/ \E leader \in PeerPorts : \E voters \in SUBSET PeerPorts :
          leader \in voters /\ Announce(leader, voters)
    \/ CountVotes

Spec == Init /\ [][Next]_vars

-----------------------------------------------------------------------------
(* Properties.                                                             *)

\* Types; and every text that is sent, unless it is empty, has the separators that
\* end the loops of unmarshal_message, which do not look for the end of the string:
\* a receiver reads behind the end only of a text too long for its buffer.
TypeOK ==
    /\ at \in Places /\ fate \in Fates
    /\ wire \in Seq(Int)
    /\ doc \in [{"before", "master", "follower"} -> Seq(Int)]
    /\ at \notin {"prompt", "done"} /\ wire # <<>> => WellFormed(wire)
    /\ fate = "overrun" => Len(wire) > Buffer

HasSeparator(text) == Holds(text, Colon) \/ Holds(text, Dollar)
Wanted == Performed(doc.before, <<origin.type>>, origin.text)

\* A text without the two separators arrives as it was typed, relayed or not,
\* whoever is client, relay and master: the signature of the client is still
\* good for the master, and for the follower that rebuilds the client's message
\* from the log event.  Only a message that is too long for one read, on its way
\* to any of the three, is lost to an overrun (TypeOK).
PlainTextArrives ==
    (/\ at = "done" /\ origin.kind = "edit" /\ route.byzantine = 0
     /\ ~ HasSeparator(origin.text) /\ fate # "overrun") =>
        IF TooLong(doc.before, <<origin.type>>, origin.text)
        THEN fate = "rejected" /\ doc.master = doc.before /\ doc.follower = doc.before
        ELSE fate = "applied" /\ doc.master = Wanted /\ doc.follower = Wanted

\* The signature of the text is good for the vandal's text too.
Body(text) == IF Holds(text, Dollar) THEN Before(text, Dollar) ELSE text
Disguised ==
    /\ route.byzantine # 0
    /\ StringSum(Body(origin.text)) % origin.client = Vandalism % origin.client

\* Whatever separators the text had and whatever a Byzantine peer made of it or
\* sent, a document is as before, has lost characters at its end, or has got the
\* beginning of what the user typed, sanitised; the vandal's text arrives only in
\* place of one whose sum is the same modulo the port of the client.
OnlyTypedText ==
    \A replica \in {"master", "follower"} :
        \/ IsPrefix(doc[replica], doc.before)
        \/ /\ origin.kind = "edit" /\ origin.type = APND
           /\ \/ \E n \in DOMAIN origin.text :
                    doc[replica] = doc.before \o Sanitise(SubSeq(origin.text, 1, n))
              \/ Disguised /\ doc[replica] = doc.before \o <<Vandalism>>

\* A Byzantine peer cannot delete anything by itself, a master neither: no
\* replica deletes without a client's signature.
NoDeletionUnasked ==
    \A replica \in {"master", "follower"} :
        Len(doc[replica]) < Len(doc.before) => origin.kind = "edit" /\ origin.type = DELT

\* An election in the name of a client is obeyed only from port 4000, whose
\* secret key happens to be a multiple of the client's port.
FalseElectionFails == fate = "deposed" => route.byzantine = 4000

\* Whatever separators the text had and whatever a Byzantine relay made of it, a
\* follower that applies an event does what the master did, or less of it if the user
\* typed a ":": the master announces the body as it came (499) and applies all of it
\* sanitised (584), the follower only what stands before the ":".
FollowerDoesNoMore ==
    fate = "applied" =>
        \/ doc.follower = doc.master
        \/ /\ Holds(origin.text, Colon)
           /\ IF origin.type = APND
              THEN IsPrefix(doc.before, doc.follower) /\ IsPrefix(doc.follower, doc.master)
              ELSE IsPrefix(doc.master, doc.follower) /\ IsPrefix(doc.follower, doc.before)

\* The others count exactly the votes the master collected, although the text
\* they take for a vote goes on into the votes behind it.
EveryVoteCounts == fate = "counted" => VotesCounted(Received.body) = origin.votes

=============================================================================
