-------------------------------- MODULE Wire --------------------------------
(***************************************************************************)
(* What util.h makes of messages, events and votes on their way: fields    *)
(* joined by separators, taken apart again, and signatures that are the    *)
(* sum of a text's characters plus a multiple of the signer's port.        *)
(* A text is a sequence of words, and a word is the sum of its characters: *)
(* a separator, a digit or a letter is its own code, a keyword the sum of  *)
(* four.  Sums, and what stoi reads, are those of the program.             *)
(***************************************************************************)
EXTENDS Integers, Sequences, SequencesExt, FiniteSets

Colon == 58       \* _FIELD_SEPARATOR
Dollar == 36      \* _SIGNT_SEPARATOR
Percent == 37     \* _VOTE_SEPARATOR
Null == <<78, 85, 76, 76>>   \* _NULL_FIELD, as a user would type it
Digits == 48 .. 57
APND == 291
DELT == 297
ELCT == 296
MSTR == 326
YesWeCan == 675   \* _CANDIDATE_YES_REPLY
NoCando == 514    \* _CANDIDATE_NO_REPLY

PeerPorts == 4000 .. 4004
ClientPorts == 5000 .. 5001

-----------------------------------------------------------------------------
(* Numbers and fields of texts.                                            *)

\* What is read of a text character by character, each new one on top of base
\* times what the ones before it came to.
Horner(t, base, zero) ==
    LET value[i \in 0 .. Len(t)] ==
          IF i = 0 THEN 0 ELSE base * value[i - 1] + (t[i] - zero)
    IN  value[Len(t)]

StringSum(t) == Horner(t, 1, 0)

Numeral[n \in Nat] ==
    IF n < 10 THEN <<48 + n>> ELSE Append(Numeral[n \div 10], 48 + (n % 10))

\* stoi reads the digits a text starts with and throws when there are none.
IsNumber(t) == t # <<>> /\ Head(t) \in Digits
LeadingDigits(t) ==
    LET i == SelectInSeq(t, LAMBDA c : c \notin Digits)
    IN  IF i = 0 THEN t ELSE SubSeq(t, 1, i - 1)
Stoi(t) == Horner(LeadingDigits(t), 10, 48)

Place(t, sep) == SelectInSeq(t, LAMBDA c : c = sep)
Before(t, sep) == SubSeq(t, 1, Place(t, sep) - 1)
After(t, sep) == SubSeq(t, Place(t, sep) + 1, Len(t))
Holds(t, sep) == Place(t, sep) # 0

-----------------------------------------------------------------------------
(* Signatures.                                                             *)

\* The text that std::remove and erase leave.
Without(t, removed) ==
    LET kept[i \in 0 .. Len(t)] ==
          IF i = 0 THEN <<>>
          ELSE IF t[i] \in removed THEN kept[i - 1] ELSE Append(kept[i - 1], t[i])
    IN  kept[Len(t)]

Sanitise(t) == Without(t, {Colon})
SanitiseSignature(t) == Without(t, {Dollar, Percent})

\* Mutant: no key.
NoKey(port) == 0

SecretKey(port) == 100 * port
Sign(t, port) == Numeral[StringSum(t) + SecretKey(port)]
Verifies(t, signature, port) == Stoi(signature) % port = StringSum(t) % port

-----------------------------------------------------------------------------
(* Messages: TYPE:PEER:TERM:BODY$SIGN:                                     *)

Unsigned(m) ==
    m.type \o <<Colon>> \o m.port \o <<Colon>> \o m.term \o <<Colon>>
        \o m.body \o <<Dollar>>

\* Mutant: the last separator is left out.
MarshalOpen(m) == Unsigned(m) \o m.sign

\* message_to_string, with which a peer passes on what another has signed.
Marshal(m) == Unsigned(m) \o m.sign \o <<Colon>>

\* compose_message_as; compose_message is a peer or client composing as itself.
ComposeAs(key, type, port, term, body) ==
    LET m == [type |-> <<type>>, port |-> Numeral[port], term |-> Numeral[term],
              body |-> body, sign |-> <<>>]
    IN  Marshal([m EXCEPT !.sign = Sign(Unsigned(m), key)])

Compose(type, port, term, body) == ComposeAs(port, type, port, term, body)

Unmarshal(t) ==
    LET t1 == After(t, Colon)
        t2 == After(t1, Colon)
        t3 == After(t2, Colon)
        t4 == After(t3, Dollar)
    IN  [type |-> Before(t, Colon), port |-> Before(t1, Colon),
         term |-> Before(t2, Colon), body |-> Before(t3, Dollar),
         sign |-> Before(t4, Colon)]

\* Each loop of unmarshal_message finds the separator it looks for; otherwise it
\* reads on behind the end of the string.
WellFormed(t) ==
    LET t1 == After(t, Colon)
        t2 == After(t1, Colon)
        t3 == After(t2, Colon)
        t4 == After(t3, Dollar)
    IN  /\ Holds(t, Colon) /\ Holds(t1, Colon) /\ Holds(t2, Colon)
        /\ Holds(t3, Dollar) /\ Holds(t4, Colon)

\* In verify_message stoi throws, and nothing catches it, or the remainder is
\* that of a division by zero.
Throws(m) ==
    ~ IsNumber(m.port) \/ ~ IsNumber(SanitiseSignature(m.sign)) \/ Stoi(m.port) = 0

\* Mutant: a message is verified as soon as its signature is a number.
VerifyPresence(m) == ~ Throws(m)

VerifyMessage(m) ==
    ~ Throws(m) /\ Verifies(Unsigned(m), SanitiseSignature(m.sign), Stoi(m.port))

-----------------------------------------------------------------------------
(* Events: SEQUENT:BODY:CLIENTPORT:CLIENTSIGN in the body of a message.    *)

\* The body of unicast_log_event_as_master.
EventBody(e) ==
    Numeral[e.sequent] \o <<Colon>> \o e.data \o <<Colon>>
        \o Numeral[e.client] \o <<Colon>> \o e.sign

\* unmarshal_sig_from_event_safe on the body behind its first two characters;
\* what throws leaves an event without signature, whose verification throws.
UnmarshalEvent(body) ==
    LET t == SubSeq(body, 3, Len(body))
        rest == After(t, Colon)
    IN  IF IsNumber(Before(rest, Colon))
        THEN [body |-> Before(t, Colon), client |-> Stoi(rest),
              sign |-> SanitiseSignature(After(rest, Colon))]
        ELSE [body |-> <<>>, client |-> -1, sign |-> <<>>]

\* The message the client is taken to have sent.
AsSent(type, e) ==
    [type |-> type, port |-> IF e.client < 0 THEN <<45, 49>> ELSE Numeral[e.client],
     term |-> Numeral[0], body |-> e.body, sign |-> e.sign]

-----------------------------------------------------------------------------
(* Votes: ANSWER%PEER%TERM%SIGN                                            *)

UnsignedVote(v) ==
    <<IF v.yes THEN YesWeCan ELSE NoCando, Percent>> \o Numeral[v.port]
        \o <<Percent>> \o Numeral[v.term] \o <<Percent>>

\* The answer to a candidate ends with a separator, a vote for oneself not.
ComposeVote(v) == UnsignedVote(v) \o Sign(UnsignedVote(v), v.port) \o <<Percent>>
SignVote(v) == UnsignedVote(v) \o Sign(UnsignedVote(v), v.port)

\* unmarshal_vote: everything behind the third separator is the signature.
UnmarshalVote(t) ==
    LET t1 == After(t, Percent)
        t2 == After(t1, Percent)
    IN  [yes |-> Before(t, Percent) = <<YesWeCan>>, port |-> Stoi(t1),
         term |-> Stoi(t2), sign |-> After(t2, Percent)]

VerifyVote(v) == IsNumber(v.sign) /\ Verifies(UnsignedVote(v), v.sign, v.port)

\* Where votes start and end: each behind the end of the one before.
Spans(t) ==
    {s \in [first : DOMAIN t, end : DOMAIN t] :
        /\ t[s.end] = Colon /\ s.first < s.end
        /\ s.first = 1 \/ t[s.first - 1] = Colon
        /\ \A k \in s.first .. s.end - 1 : t[k] # Colon}

\* Mutant: a vote is looked for where the length of the one before ends.
ReadVotesByLength(t) ==
    {UnmarshalVote(SubSeq(t, IF s.first = 1 THEN 1 ELSE s.first - 2, s.end - 1)) :
        s \in Spans(t)}

\* read_votes_from_string passes the end of a vote to substr as a length, so
\* the text of all but the first goes on behind it.
ReadVotes(t) ==
    LET last(s) == s.first + s.end - 2
    IN  {UnmarshalVote(SubSeq(t, s.first, IF last(s) < Len(t) THEN last(s) ELSE Len(t))) :
            s \in Spans(t)}

=============================================================================
