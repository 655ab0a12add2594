------------------------------ MODULE OccCommand ------------------------------
(***************************************************************************)
(* OccCommand::send, attempt by attempt, and PassThrough::send, which      *)
(* D-Bus clients and the dump of the OCCs call.                            *)
(*                                                                         *)
(* A response is the sequence of the pieces that the attempts read: an     *)
(* attempt adds at most one.  A piece is a complete answer, or the         *)
(* beginning of one: nothing but a sequence number 0, a sequence number 0  *)
(* and the command POLL (which is 0), or a longer part.  A part that stays *)
(* in the buffer breaks the sum over it.                                   *)
(*                                                                         *)
(* send runs to its end before the event loop does anything else; its      *)
(* steps are actions so that the order of its returns is visible.          *)
(***************************************************************************)
EXTENDS Integers, Sequences

CONSTANTS
    Commands,   \* the types of the commands that are sent
    POLL,       \* the command that is encoded as 0
    Dumped,     \* the sequence of commands that a dump sends
    MaxSignals  \* signals about OccActive that may be under way

ASSUME CommandsAssumption == POLL \in Commands /\ Dumped \in Seq(Commands)
ASSUME MaxSignalsAssumption == MaxSignals \in Nat

VARIABLES
    occActive,  \* OccActive of the Status object
    signals,    \* its changes that PassThrough has not been told
    flag,       \* PassThrough::occActive
    todo,       \* the commands that the caller has yet to send
    call        \* the send under way or the last one: what it sent, where it
                \* is, its descriptor, retries, status and response, and
                \* whether the checksum was removed from the response

vars == <<occActive, signals, flag, todo, call>>

\* Retries of an attempt without a valid response
Retries == 1

Answer(cmd, sumRight) == [kind |-> "answer", to |-> cmd, sum |-> sumRight]
Answers == {Answer(cmd, sumRight) : cmd \in Commands, sumRight \in BOOLEAN}
Zero == [kind |-> "sequence number 0"]
ZeroPoll == [kind |-> "sequence number 0, POLL"]
Part == [kind |-> "part"]
Pieces == Answers \cup {Zero, ZeroPoll, Part}

(***************************************************************************)
(* What send can tell of a response                                        *)
(***************************************************************************)

\* response.size() > 2
LongEnough(r) ==
    \/ \E i \in DOMAIN r : r[i] \notin {Zero, ZeroPoll}
    \/ Len(r) > 1 /\ r # <<Zero, Zero>>

\* The sum of what precedes the last two bytes is what these say: bytes that
\* are 0 do not count, and anything before the answer breaks its sum.
ChecksumMatches(r) ==
    LET Counted == {i \in DOMAIN r : r[i] \notin {Zero, ZeroPoll}}
    IN \/ Counted = {}
       \/ Counted = {Len(r)} /\ r[Len(r)] \in Answers /\ r[Len(r)].sum

\* The commands that response[1] can be
SecondByte(r) ==
    CASE r[1] \in Answers -> {r[1].to}
      [] r[1] = ZeroPoll \/ r = <<Zero, Zero>> -> {POLL}
      [] r[1] = Zero -> IF r[2] = ZeroPoll THEN {POLL} ELSE Commands
      [] OTHER -> Commands

\* Exactly one answer of which the checksum was removed: what callers that
\* know the length of the answer take for one.
IsOneAnswer(c) == c.stripped /\ Len(c.response) = 1 /\ c.response[1] \in Answers

(***************************************************************************)
(* OccCommand::send                                                        *)
(***************************************************************************)

Send(cmd) ==
    call' = [cmd |-> cmd, at |-> "open", fd |-> "closed",
             retries |-> Retries, status |-> "FAILURE", response |-> <<>>,
             stripped |-> FALSE]

Return(c) == [c EXCEPT !.at = "returned", !.fd = "closed"]

\* The condition of the loop, to which "continue" jumps as well
NextAttempt(c) ==
    IF c.retries > 0 THEN [c EXCEPT !.at = "write", !.retries = @ - 1]
    ELSE Return(c)

TryAgain_NotCounted(c) == [c EXCEPT !.at = "write", !.response = <<>>]

\* The end of the body of the loop
TryAgain(c) ==
    NextAttempt(IF c.retries > 0 THEN [c EXCEPT !.response = <<>>] ELSE c)

OpenDevice ==
    /\ call.at = "open"
    /\ \/ call' = [call EXCEPT !.at = "write", !.fd = "open"]
       \/ call' = Return([call EXCEPT !.status = "COMM_FAILURE"])
    /\ UNCHANGED <<occActive, signals, flag, todo>>

Write ==
    /\ call.at = "write"
    /\ \/ call' = [call EXCEPT !.at = "read"]
       \/ call' = NextAttempt([call EXCEPT !.status = "COMM_FAILURE"])
    /\ UNCHANGED <<occActive, signals, flag, todo>>

\* Bytes are read, again while there may be more, until there are none or an
\* error ends the attempt.  What was read stays in the buffer.
Read ==
    /\ call.at = "read"
    /\ \E read \in {<<>>} \cup {<<piece>> : piece \in Pieces} :
          LET c == [call EXCEPT !.response = @ \o read]
          IN \/ call' = [c EXCEPT !.status = "SUCCESS", !.at = "check"]
             \/ call' = NextAttempt([c EXCEPT !.status = "COMM_FAILURE"])
    /\ UNCHANGED <<occActive, signals, flag, todo>>

TooShort ==
    /\ ~LongEnough(call.response)
    /\ call' = TryAgain([call EXCEPT !.status = "FAILURE"])

BadChecksum ==
    /\ LongEnough(call.response)
    /\ ~ChecksumMatches(call.response)
    /\ call' = TryAgain([call EXCEPT !.status = "COMM_FAILURE"])

Valid ==
    /\ LongEnough(call.response)
    /\ ChecksumMatches(call.response)
    /\ call.cmd \in SecondByte(call.response)
    /\ call' = Return([call EXCEPT !.stripped = TRUE])

\* The response is for another command: the status stays SUCCESS.
OtherCommand ==
    /\ LongEnough(call.response)
    /\ ChecksumMatches(call.response)
    /\ SecondByte(call.response) # {call.cmd}
    /\ call' = TryAgain(call)

Check ==
    /\ call.at = "check"
    /\ TooShort \/ BadChecksum \/ Valid \/ OtherCommand
    /\ UNCHANGED <<occActive, signals, flag, todo>>

SendStep == OpenDevice \/ Write \/ Read \/ Check

(***************************************************************************)
(* The callers, from the event loop                                        *)
(***************************************************************************)
Idle == call.at = "returned" /\ todo = <<>>

\* sendModeChange, sendIpsData and sendAmbient, each with its OccCommand
SetterSends ==
    /\ Idle
    /\ \E cmd \in Commands : Send(cmd)
    /\ UNCHANGED <<occActive, signals, flag, todo>>

Accepted_AnySize == call.status = "SUCCESS"

\* What the setters take for success: the length is that of an answer.
Accepted == call.status = "SUCCESS" /\ IsOneAnswer(call)

\* A client of D-Bus has a command passed through.
ClientAsks ==
    /\ Idle
    /\ \E cmd \in Commands : todo' = <<cmd>>
    /\ UNCHANGED <<occActive, signals, flag, call>>

\* collectDumpData sends its commands to an OCC whose OccActive is TRUE.
CollectDumpData ==
    /\ Idle
    /\ occActive
    /\ todo' = Dumped
    /\ UNCHANGED <<occActive, signals, flag, call>>

\* PassThrough::send: an OCC it does not know to be active is not asked.
PassThroughSend ==
    /\ call.at = "returned"
    /\ todo # <<>>
    /\ todo' = Tail(todo)
    /\ IF flag THEN Send(Head(todo)) ELSE UNCHANGED call
    /\ UNCHANGED <<occActive, signals, flag>>

\* Status::occActive changes, D-Bus will say so.
OccActiveChanges ==
    /\ Idle
    /\ Len(signals) < MaxSignals
    /\ occActive' = ~occActive
    /\ signals' = Append(signals, occActive')
    /\ UNCHANGED <<flag, todo, call>>

ActiveStatusEvent_OnlyTrue ==
    /\ Idle
    /\ signals # <<>>
    /\ flag' = (flag \/ Head(signals))
    /\ signals' = Tail(signals)
    /\ UNCHANGED <<occActive, todo, call>>

\* The signal reaches PassThrough.  The device its OccCommand closes when the
\* OCC is no longer active is never open between two commands.
ActiveStatusEvent ==
    /\ Idle
    /\ signals # <<>>
    /\ flag' = Head(signals)
    /\ signals' = Tail(signals)
    /\ call' = IF flag' THEN call ELSE [call EXCEPT !.fd = "closed"]
    /\ UNCHANGED <<occActive, todo>>

Init ==
    /\ occActive = FALSE
    /\ signals = <<>>
    /\ flag = FALSE
    /\ todo = <<>>
    /\ call = [cmd |-> POLL, at |-> "returned",
               fd |-> "closed", retries |-> 0, status |-> "FAILURE",
               response |-> <<>>, stripped |-> FALSE]

Next ==
    \/ SendStep \/ PassThroughSend
    \/ SetterSends \/ ClientAsks \/ CollectDumpData
    \/ OccActiveChanges \/ ActiveStatusEvent

Spec == Init /\ [][Next]_vars

\* A call goes on; that the device answers or fails in the end, instead of
\* asking for another read for ever, is taken from the driver.
FairSpec == Spec /\ WF_vars(SendStep) /\ WF_vars(PassThroughSend)

(***************************************************************************)
(* Properties                                                              *)
(***************************************************************************)

\* A mode, an IPS configuration or an ambient temperature that its sender
\* takes for accepted was answered by exactly one answer, valid and to that
\* command, whatever an unfinished attempt left in the buffer and although
\* send returns SUCCESS with the answer to another command.
AcceptedIsAnswered ==
    (call.at = "returned" /\ Accepted)
        => call.response = <<Answer(call.cmd, TRUE)>>

\* With no signal under way PassThrough knows whether the OCC is active.
FlagFollows == signals = <<>> => flag = occActive

\* Every call of the event loop returns: a client that asks, and a dump with
\* all of its commands, have their answers or failures.
CallsReturn == ~Idle ~> Idle
=============================================================================
