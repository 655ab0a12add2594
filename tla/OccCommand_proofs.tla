--------------------------- MODULE OccCommand_proofs ---------------------------
(***************************************************************************)
(* Theorems about OccCommand and PassThrough: what a caller takes for an   *)
(* accepted command was answered, and PassThrough follows OccActive.       *)
(***************************************************************************)
EXTENDS OccCommand, TLAPS

(***************************************************************************)
(* The inductive invariant                                                 *)
(***************************************************************************)

\* What the fields of a call can hold
Calls == [cmd : Commands,
          at : {"open", "write", "read", "check", "returned"},
          fd : {"open", "closed"}, retries : 0 .. Retries,
          status : {"SUCCESS", "FAILURE", "COMM_FAILURE"},
          response : Seq(Pieces), stripped : BOOLEAN]

Typed ==
    /\ occActive \in BOOLEAN
    /\ signals \in Seq(BOOLEAN)
    /\ flag \in BOOLEAN
    /\ todo \in Seq(Commands)
    /\ call \in Calls

\* A response whose checksum was removed is that of a call that has returned,
\* and passed every check of it.
Stripped ==
    call.stripped =>
        /\ call.at = "returned"
        /\ ChecksumMatches(call.response)
        /\ call.cmd \in SecondByte(call.response)

\* The last signal that is under way says what OccActive is.
LastSignal ==
    signals # <<>> => signals[Len(signals)] = occActive

Inv == Typed /\ Stripped /\ LastSignal /\ FlagFollows

(***************************************************************************)
(* The steps of send                                                       *)
(***************************************************************************)

\* What can be in the buffer is a sequence of pieces, whatever is read.
LEMMA ReadType ==
    ASSUME NEW r \in Seq(Pieces), NEW read \in {<<>>} \cup {<<p>> : p \in Pieces}
    PROVE  r \o read \in Seq(Pieces)
<1>1. CASE read = <<>>
  BY <1>1
<1>2. CASE \E p \in Pieces : read = <<p>>
  BY <1>2
<1>3. QED
  BY <1>1, <1>2

\* The condition of the loop keeps a call a call and never removes a checksum.
LEMMA NextAttemptType ==
    ASSUME NEW c \in Calls, ~c.stripped
    PROVE  NextAttempt(c) \in Calls /\ ~NextAttempt(c).stripped
<1>1. CASE c.retries > 0
  <2>1. c.retries - 1 \in 0 .. Retries
    BY <1>1 DEF Calls, Retries
  <2>2. QED
    BY <1>1, <2>1 DEF NextAttempt, Calls
<1>2. CASE ~(c.retries > 0)
  BY <1>2 DEF NextAttempt, Return, Calls
<1>3. QED
  BY <1>1, <1>2

LEMMA TryAgainType ==
    ASSUME NEW c \in Calls, ~c.stripped
    PROVE  TryAgain(c) \in Calls /\ ~TryAgain(c).stripped
<1> DEFINE d == IF c.retries > 0 THEN [c EXCEPT !.response = <<>>] ELSE c
<1>1. d \in Calls /\ ~d.stripped
  <2>1. <<>> \in Seq(Pieces)
    OBVIOUS
  <2>2. [c EXCEPT !.response = <<>>] \in Calls
    BY <2>1 DEF Calls
  <2>3. ~[c EXCEPT !.response = <<>>].stripped
    BY DEF Calls
  <2>4. QED
    BY <2>2, <2>3
<1>2. TryAgain(c) = NextAttempt(d)
  BY DEF TryAgain
<1> HIDE DEF d
<1>3. QED
  BY <1>1, <1>2, NextAttemptType

\* A step of send, which only Valid takes to a response without checksum.
LEMMA SendStepSound ==
    ASSUME Inv, SendStep
    PROVE  call' \in Calls /\ Stripped'
<1> USE DEF Inv, Typed
<1>1. CASE OpenDevice
  <2>1. ~call.stripped
    BY <1>1 DEF OpenDevice, Stripped
  <2>2. QED
    BY <1>1, <2>1 DEF OpenDevice, Return, Calls, Stripped
<1>2. CASE Write
  <2>1. ~call.stripped
    BY <1>2 DEF Write, Stripped
  <2>2. CASE call' = [call EXCEPT !.at = "read"]
    BY <2>1, <2>2 DEF Calls, Stripped
  <2>3. CASE call' = NextAttempt([call EXCEPT !.status = "COMM_FAILURE"])
    <3>1. [call EXCEPT !.status = "COMM_FAILURE"] \in Calls
          /\ ~[call EXCEPT !.status = "COMM_FAILURE"].stripped
      BY <2>1 DEF Calls
    <3>2. QED
      BY <2>3, <3>1, NextAttemptType DEF Stripped
  <2>4. QED
    BY <1>2, <2>2, <2>3 DEF Write
<1>3. CASE Read
  <2>1. ~call.stripped
    BY <1>3 DEF Read, Stripped
  <2>2. PICK read \in {<<>>} \cup {<<piece>> : piece \in Pieces} :
           LET c == [call EXCEPT !.response = @ \o read]
           IN \/ call' = [c EXCEPT !.status = "SUCCESS", !.at = "check"]
              \/ call' = NextAttempt([c EXCEPT !.status = "COMM_FAILURE"])
    BY <1>3 DEF Read
  <2> DEFINE c == [call EXCEPT !.response = @ \o read]
             failed == [c EXCEPT !.status = "COMM_FAILURE"]
  <2>3. call.response \o read \in Seq(Pieces)
    BY ReadType DEF Calls
  <2>4. c \in Calls /\ ~c.stripped
    BY <2>1, <2>3 DEF Calls
  <2>5. failed \in Calls /\ ~failed.stripped
    BY <2>4 DEF Calls
  <2> HIDE DEF c
  <2>6. CASE call' = [c EXCEPT !.status = "SUCCESS", !.at = "check"]
    BY <2>4, <2>6 DEF Calls, Stripped
  <2>7. CASE call' = NextAttempt(failed)
    BY <2>5, <2>7, NextAttemptType DEF Stripped
  <2>8. QED
    BY <2>2, <2>6, <2>7 DEF c
<1>4. CASE Check
  <2>1. ~call.stripped
    BY <1>4 DEF Check, Stripped
  <2>2. CASE TooShort
    <3>1. [call EXCEPT !.status = "FAILURE"] \in Calls
          /\ ~[call EXCEPT !.status = "FAILURE"].stripped
      BY <2>1 DEF Calls
    <3>2. QED
      BY <2>2, <3>1, TryAgainType DEF TooShort, Stripped
  <2>3. CASE BadChecksum
    <3>1. [call EXCEPT !.status = "COMM_FAILURE"] \in Calls
          /\ ~[call EXCEPT !.status = "COMM_FAILURE"].stripped
      BY <2>1 DEF Calls
    <3>2. QED
      BY <2>3, <3>1, TryAgainType DEF BadChecksum, Stripped
  <2>4. CASE Valid
    <3>1. call' = [call EXCEPT !.stripped = TRUE, !.at = "returned",
                               !.fd = "closed"]
      BY <2>4 DEF Valid, Return, Calls
    <3>2. call'.response = call.response /\ call'.cmd = call.cmd
      BY <3>1 DEF Calls
    <3>3. QED
      BY <2>4, <3>1, <3>2 DEF Valid, Calls, Stripped
  <2>5. CASE OtherCommand
    BY <2>1, <2>5, TryAgainType DEF OtherCommand, Stripped
  <2>6. QED
    BY <1>4, <2>2, <2>3, <2>4, <2>5 DEF Check
<1>5. QED
  BY <1>1, <1>2, <1>3, <1>4 DEF SendStep

\* A call starts without a response.
LEMMA SendSound ==
    ASSUME NEW cmd \in Commands, Send(cmd)
    PROVE  call' \in Calls /\ Stripped'
BY DEF Send, Calls, Retries, Stripped

(***************************************************************************)
(* The steps of the callers                                                *)
(***************************************************************************)

\* The last of several signals stays the last one when the first is handled.
LEMMA TailLast ==
    ASSUME NEW S, NEW s \in Seq(S), Len(s) > 1
    PROVE  Tail(s) # <<>> /\ Tail(s)[Len(Tail(s))] = s[Len(s)]
<1>1. Len(s) \in Nat /\ Len(Tail(s)) = Len(s) - 1
  OBVIOUS
<1>2. Tail(s)[Len(s) - 1] = s[Len(s)]
  OBVIOUS
<1>3. Len(Tail(s)) > 0
  BY <1>1
<1>4. ~ (Len(<<>>) > 0)
  OBVIOUS
<1>5. Tail(s) # <<>>
  BY <1>3, <1>4, Zenon
<1>6. QED
  BY <1>1, <1>2, <1>5

\* Nothing was sent or signalled yet.
LEMMA InitInv == Init => Inv
<1> SUFFICES ASSUME Init
             PROVE  Inv
  OBVIOUS
<1>1. /\ occActive = FALSE /\ signals = <<>> /\ flag = FALSE /\ todo = <<>>
      /\ call = [cmd |-> POLL, at |-> "returned", fd |-> "closed", retries |-> 0,
                 status |-> "FAILURE", response |-> <<>>, stripped |-> FALSE]
  BY DEF Init
<1>2. <<>> \in Seq(Pieces) /\ 0 \in 0 .. Retries
  BY DEF Retries
<1>3. call \in Calls /\ ~call.stripped
  BY <1>1, <1>2, CommandsAssumption DEF Calls
<1>4. Typed
  <2>1. signals \in Seq(BOOLEAN) /\ todo \in Seq(Commands)
    BY <1>1
  <2>2. QED
    BY <1>1, <1>3, <2>1 DEF Typed
<1>5. QED
  BY <1>1, <1>3, <1>4 DEF Inv, Stripped, LastSignal, FlagFollows

LEMMA NextInv == Inv /\ [Next]_vars => Inv'
<1> SUFFICES ASSUME Inv, [Next]_vars
             PROVE  Inv'
  OBVIOUS
<1> USE DEF Inv
<1>1. CASE SendStep
  <2>1. UNCHANGED <<occActive, signals, flag, todo>>
    BY <1>1 DEF SendStep, OpenDevice, Write, Read, Check
  <2>2. call' \in Calls /\ Stripped'
    BY <1>1, SendStepSound
  <2>3. QED
    BY <2>1, <2>2 DEF Typed, LastSignal, FlagFollows
<1>2. CASE PassThroughSend
  <2>1. UNCHANGED <<occActive, signals, flag>> /\ todo' \in Seq(Commands)
    BY <1>2 DEF PassThroughSend, Typed
  <2>2. CASE flag
    <3>1. Head(todo) \in Commands /\ Send(Head(todo))
      BY <1>2, <2>2 DEF PassThroughSend, Typed
    <3>2. QED
      BY <2>1, <3>1, SendSound DEF Typed, LastSignal, FlagFollows
  <2>3. CASE ~flag
    <3>1. UNCHANGED call
      BY <1>2, <2>3 DEF PassThroughSend
    <3>2. QED
      BY <2>1, <3>1 DEF Typed, Stripped, LastSignal, FlagFollows
  <2>4. QED
    BY <2>2, <2>3
<1>3. CASE SetterSends
  BY <1>3, SendSound DEF SetterSends, Typed, LastSignal, FlagFollows
<1>4. CASE ClientAsks
  BY <1>4 DEF ClientAsks, Typed, Stripped, LastSignal, FlagFollows
<1>5. CASE CollectDumpData
  BY <1>5, CommandsAssumption
     DEF CollectDumpData, Typed, Stripped, LastSignal, FlagFollows
<1>6. CASE OccActiveChanges
  <2>1. UNCHANGED <<flag, todo, call>> /\ occActive' \in BOOLEAN
    BY <1>6 DEF OccActiveChanges
  <2>2. /\ signals' \in Seq(BOOLEAN) /\ signals' # <<>>
        /\ signals'[Len(signals')] = occActive'
    BY <1>6, <2>1 DEF OccActiveChanges, Typed
  <2>3. QED
    BY <2>1, <2>2 DEF Typed, Stripped, LastSignal, FlagFollows
<1>7. CASE ActiveStatusEvent
  <2>1. UNCHANGED <<occActive, todo>> /\ flag' = signals[1]
        /\ signals' = Tail(signals) /\ signals # <<>>
    BY <1>7 DEF ActiveStatusEvent
  <2>0. signals \in Seq(BOOLEAN) /\ Len(signals) \in Nat /\ Len(signals) # 0
    BY <2>1 DEF Typed
  <2>2. call' \in Calls /\ Stripped'
    BY <1>7 DEF ActiveStatusEvent, Typed, Calls, Stripped
  <2>3. signals' \in Seq(BOOLEAN) /\ flag' \in BOOLEAN
    BY <2>1 DEF Typed
  <2>4. CASE Len(signals) = 1
    <3>1. flag' = occActive' /\ signals' = <<>>
      BY <2>0, <2>1, <2>4 DEF LastSignal
    <3>2. QED
      BY <2>1, <2>2, <2>3, <3>1 DEF Typed, LastSignal, FlagFollows
  <2>5. CASE Len(signals) > 1
    <3>1. signals' # <<>> /\ signals'[Len(signals')] = signals[Len(signals)]
      BY <2>0, <2>1, <2>5, TailLast
    <3>2. QED
      BY <2>1, <2>2, <2>3, <3>1 DEF Typed, LastSignal, FlagFollows
  <2>6. QED
    BY <2>0, <2>4, <2>5
<1>8. CASE UNCHANGED vars
  BY <1>8 DEF vars, Typed, Stripped, LastSignal, FlagFollows
<1>9. QED
  BY <1>1, <1>2, <1>3, <1>4, <1>5, <1>6, <1>7, <1>8 DEF Next

(***************************************************************************)
(* The theorems                                                            *)
(***************************************************************************)

\* A response of one answer whose checksum was removed is the answer to the
\* command of the call, with the right sum.
LEMMA OneAnswerIsRight ==
    ASSUME Typed, Stripped, IsOneAnswer(call)
    PROVE  call.response = <<Answer(call.cmd, TRUE)>>
<1>1. /\ call.response \in Seq(Pieces) /\ Len(call.response) = 1
      /\ call.response[1] \in Answers /\ call.cmd \in Commands
  BY DEF Typed, Calls, IsOneAnswer
<1>2. PICK cmd \in Commands, sum \in BOOLEAN :
         call.response[1] = Answer(cmd, sum)
  BY <1>1 DEF Answers
<1>3. call.response[1] \notin {Zero, ZeroPoll}
  <2>1. /\ Answer(cmd, sum).kind = "answer"
        /\ Zero.kind # "answer" /\ ZeroPoll.kind # "answer"
    BY DEF Answer, Zero, ZeroPoll
  <2>2. QED
    BY <1>2, <2>1
<1>4. call.response # <<Zero, Zero>>
  <2> SUFFICES ASSUME call.response = <<Zero, Zero>>
               PROVE  FALSE
    OBVIOUS
  <2>1. Len(call.response) = 2
    OBVIOUS
  <2>2. QED
    BY <1>1, <2>1
<1>5. call.response[1].to = cmd /\ call.response[1].sum = sum
  BY <1>2 DEF Answer
<1>6. SecondByte(call.response) = {cmd}
  BY <1>1, <1>3, <1>4, <1>5 DEF SecondByte
<1>7. call.cmd = cmd
  BY <1>6 DEF Stripped, IsOneAnswer
<1>8. sum
  <2>1. ChecksumMatches(call.response)
    BY DEF Stripped, IsOneAnswer
  <2>2. 1 \in {i \in DOMAIN call.response : call.response[i] \notin {Zero, ZeroPoll}}
    BY <1>1, <1>3
  <2>3. QED
    BY <1>1, <1>5, <2>1, <2>2 DEF ChecksumMatches
<1>9. call.response = <<call.response[1]>>
  BY <1>1
<1>10. QED
  BY <1>2, <1>7, <1>8, <1>9

\* What a setter takes for accepted was answered by one valid answer to its
\* command, for all commands and whatever the attempts read (sendModeChange,
\* sendIpsData, sendAmbient).
THEOREM AcceptedAnswered == Spec => []AcceptedIsAnswered
<1>1. Inv => AcceptedIsAnswered
  BY OneAnswerIsRight DEF Inv, AcceptedIsAnswered, Accepted
<1>2. QED
  BY InitInv, NextInv, <1>1, PTL DEF Spec

\* PassThrough knows OccActive as soon as it has been told of every change,
\* however many are under way (OccCommand's and PassThrough's activeStatusEvent).
THEOREM FlagIsRight == Spec => []FlagFollows
<1>1. Inv => FlagFollows
  BY DEF Inv
<1>2. QED
  BY InitInv, NextInv, <1>1, PTL DEF Spec
=============================================================================
