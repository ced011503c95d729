------------------------------ MODULE GatesProofs ------------------------------
(***************************************************************************)
(* What is proved of the approval gates and the silence watchdog, for any  *)
(* number of threads, families, limits and gates: no two gates share an    *)
(* answer, the record is the decision, and no gate is timed out.           *)
(***************************************************************************)
EXTENDS Gates, SequenceTheorems, TLAPS

\* The lines the supervisor has not recorded yet.
Told == {pipe[i] : i \in DOMAIN pipe} \cup {hand}

\* An occurrence is counted before anybody hears of it.
TokensAreAsked ==
  /\ \A t \in Thread : token[t] # None => token[t] < count
  /\ \A k \in Token : GateLine(k) \in Told => k < count

\* An automatic run tells of no gate.
AutoInv == auto => /\ asked = {}
                   /\ \A k \in Token : GateLine(k) \notin Told
                   /\ \A t \in Thread : pc[t] \notin {"wait", "stop?"}

\* One call of submit_gate at a time: nobody answers between its look and its write.
FormsInv == \A u \in User : form[u] # None => form[u] \in asked /\ answer[form[u]] = None

\* When every thread waits at a gate, the last line written is the line of one of them, or was
\* read, and then the watchdog knows of a gate.
LastLineInv ==
  (\A t \in Thread : Waits(t)) =>
    IF pipe = <<>> THEN gateOpen ELSE \E t \in Thread : pipe[Len(pipe)] = GateLine(token[t])

GatesIInv == TypeOK /\ GatesAreApart /\ TokensAreAsked /\ AutoInv /\ LastLineInv

LEMMA GatesFacts ==
  /\ Thread # {} /\ MaxGates \in Nat /\ MaxPipe \in Nat \ {0} /\ Default \in Nat \ {0}
  /\ Limit \in [Family -> Nat \ {0}] /\ MaxAge \in Nat
  /\ None \notin Decision /\ None \notin Family /\ None \notin Token /\ None \notin Lines
  /\ \A k \in Token : k \in Nat /\ GateLine(k) \in Lines
  /\ \A f \in Family : StepLine(f) \in Lines
  /\ OtherLine \in Lines
BY GatesAssumption DEF GatesAssumption, Lines, Token

LEMMA LinesAre ==
  /\ \A k, j : GateLine(k) = GateLine(j) => k = j
  /\ \A k, f : GateLine(k) # StepLine(f) /\ GateLine(k) # OtherLine
  /\ \A line \in Lines : line.t = "gate" => line.token \in Token /\ line = GateLine(line.token)
  /\ \A line \in Lines : line.t = "step" => line.name \in Family
  /\ \A k : GateLine(k).t = "gate" /\ GateLine(k).token = k
<1>1. \A k, j : GateLine(k) = GateLine(j) => k = j
  <2>. SUFFICES ASSUME NEW k, NEW j, GateLine(k) = GateLine(j) PROVE k = j
    OBVIOUS
  <2>1. GateLine(k).token = k /\ GateLine(j).token = j
    BY DEF GateLine
  <2>. QED BY <2>1
<1>2. \A k, f : GateLine(k) # StepLine(f) /\ GateLine(k) # OtherLine
  <2>. SUFFICES ASSUME NEW k, NEW f PROVE GateLine(k) # StepLine(f) /\ GateLine(k) # OtherLine
    OBVIOUS
  <2>1. GateLine(k).t = "gate" /\ StepLine(f).t = "step" /\ OtherLine.t = "heartbeat"
    BY DEF GateLine, StepLine, OtherLine
  <2>. QED BY <2>1
<1>3. ASSUME NEW line \in Lines
      PROVE  /\ line.t = "gate" => line.token \in Token /\ line = GateLine(line.token)
             /\ line.t = "step" => line.name \in Family
  <2>1. CASE \E k \in Token : line = GateLine(k)
    BY <2>1 DEF GateLine
  <2>2. CASE \E f \in Family : line = StepLine(f)
    BY <2>2 DEF StepLine
  <2>3. CASE line = OtherLine
    BY <2>3 DEF OtherLine
  <2>. QED BY <2>1, <2>2, <2>3 DEF Lines
<1>. QED BY <1>1, <1>2, <1>3 DEF GateLine

-------------------------------------------------------------------------------
(***************************************************************************)
(* The pipe: what an emitted and what a read line leave.                   *)
(***************************************************************************)

LEMMA Emitted ==
  ASSUME TypeOK, NEW line \in Lines, Emit(line), hand' = hand
  PROVE  /\ pipe' \in Seq(Lines) /\ Len(pipe') <= MaxPipe
         /\ pipe' # <<>> /\ pipe'[Len(pipe')] = line
         /\ Told' = Told \cup {line}
<1>1. pipe \in Seq(Lines) /\ pipe' = Append(pipe, line) /\ Len(pipe) < MaxPipe
  BY DEF TypeOK, Emit
<1>2. /\ Len(pipe) \in Nat /\ Len(pipe') = Len(pipe) + 1 /\ pipe' \in Seq(Lines)
      /\ DOMAIN pipe = 1 .. Len(pipe) /\ DOMAIN pipe' = 1 .. Len(pipe) + 1
      /\ \A i \in 1 .. Len(pipe) : pipe'[i] = pipe[i]
      /\ pipe'[Len(pipe) + 1] = line
  BY <1>1
<1>3. Len(pipe') <= MaxPipe
  BY <1>1, <1>2, GatesFacts
<1>4. {pipe'[i] : i \in DOMAIN pipe'} = {pipe[i] : i \in DOMAIN pipe} \cup {line}
  <2>1. DOMAIN pipe' = DOMAIN pipe \cup {Len(pipe) + 1}
    BY <1>2
  <2>. QED BY <1>2, <2>1
<1>. QED BY <1>2, <1>3, <1>4 DEF Told

LEMMA Taken ==
  ASSUME TypeOK, pipe # <<>>
  PROVE  /\ Head(pipe) \in Lines /\ Tail(pipe) \in Seq(Lines) /\ Len(Tail(pipe)) <= MaxPipe
         /\ Head(pipe) = pipe[1]
         /\ {Tail(pipe)[i] : i \in DOMAIN Tail(pipe)} \cup {Head(pipe)}
              = {pipe[i] : i \in DOMAIN pipe}
         /\ Tail(pipe) = <<>> => Head(pipe) = pipe[Len(pipe)]
         /\ Tail(pipe) # <<>> => Tail(pipe)[Len(Tail(pipe))] = pipe[Len(pipe)]
<1>1. /\ pipe \in Seq(Lines) /\ Len(pipe) \in Nat /\ Len(pipe) # 0
      /\ DOMAIN pipe = 1 .. Len(pipe) /\ Len(pipe) <= MaxPipe
  BY DEF TypeOK
<1>2. /\ Head(pipe) = pipe[1] /\ Head(pipe) \in Lines
      /\ Tail(pipe) \in Seq(Lines) /\ Len(Tail(pipe)) = Len(pipe) - 1
      /\ DOMAIN Tail(pipe) = 1 .. Len(pipe) - 1
      /\ \A i \in 1 .. Len(pipe) - 1 : Tail(pipe)[i] = pipe[i + 1]
  BY <1>1
<1>3. {Tail(pipe)[i] : i \in DOMAIN Tail(pipe)} \cup {Head(pipe)} = {pipe[i] : i \in DOMAIN pipe}
  <2>1. ASSUME NEW i \in DOMAIN pipe
        PROVE  pipe[i] \in {Tail(pipe)[j] : j \in DOMAIN Tail(pipe)} \cup {Head(pipe)}
    <3>1. CASE i = 1
      BY <1>2, <3>1
    <3>2. CASE i # 1
      <4>1. i - 1 \in DOMAIN Tail(pipe) /\ Tail(pipe)[i - 1] = pipe[i]
        BY <1>1, <1>2, <3>2
      <4>. QED BY <4>1
    <3>. QED BY <3>1, <3>2
  <2>2. \A j \in DOMAIN Tail(pipe) : j + 1 \in DOMAIN pipe /\ Tail(pipe)[j] = pipe[j + 1]
    BY <1>1, <1>2
  <2>3. 1 \in DOMAIN pipe /\ Head(pipe) = pipe[1]
    BY <1>1, <1>2
  <2>. DEFINE rest == Tail(pipe)
              first == Head(pipe)
  <2>4. \A i \in DOMAIN pipe : pipe[i] \in {rest[j] : j \in DOMAIN rest} \cup {first}
    BY <2>1
  <2>5. \A j \in DOMAIN rest : j + 1 \in DOMAIN pipe /\ rest[j] = pipe[j + 1]
    BY <2>2
  <2>6. first = pipe[1]
    BY <2>3
  <2>. HIDE DEF rest, first
  <2>7. {rest[j] : j \in DOMAIN rest} \cup {first} = {pipe[i] : i \in DOMAIN pipe}
    BY <2>3, <2>4, <2>5, <2>6
  <2>. QED BY <2>7 DEF rest, first
<1>4. Tail(pipe) = <<>> => Head(pipe) = pipe[Len(pipe)]
  <2>1. ASSUME Tail(pipe) = <<>> PROVE Len(pipe) = 1
    <3>1. Len(Tail(pipe)) = Len(<<>>)
      BY <2>1
    <3>2. Len(<<>>) = 0
      OBVIOUS
    <3>3. Len(Tail(pipe)) = 0
      BY <3>1, <3>2, Zenon
    <3>4. Len(Tail(pipe)) = Len(pipe) - 1 /\ Len(pipe) \in Nat
      BY <1>1, <1>2
    <3>. QED BY <3>3, <3>4
  <2>. QED BY <1>2, <2>1
<1>5. Tail(pipe) # <<>> => Tail(pipe)[Len(Tail(pipe))] = pipe[Len(pipe)]
  BY <1>1, <1>2
<1>6. Len(Tail(pipe)) <= MaxPipe
  BY <1>1, <1>2, GatesFacts
<1>. QED BY <1>2, <1>3, <1>4, <1>5, <1>6

-------------------------------------------------------------------------------
(***************************************************************************)
(* The steps, one lemma for the child's, the supervisor's and the API's.   *)
(***************************************************************************)

GateParts == GatesAreApart /\ TokensAreAsked /\ AutoInv /\ LastLineInv

LEMMA StepsOfThreads ==
  ASSUME GatesIInv, NEW t \in Thread, Step(t)
  PROVE  GatesIInv'
<1>. USE GatesFacts
<1>0. TypeOK /\ GateParts
  BY DEF GatesIInv, GateParts
<1>1. /\ UNCHANGED <<alive, token, taken, count, auto, readVars, answer, stopped, form,
                     silenceVars, watch>>
      /\ pc[t] \in {"run", "step"} /\ pc' = [pc EXCEPT ![t] = pc'[t]]
      /\ pc'[t] \in {"run", "step"} /\ step' \in [Thread -> Family]
  <2>1. CASE BeginStep(t)
    BY <1>0, <2>1 DEF BeginStep, Go, TypeOK
  <2>2. CASE Heartbeat(t)
    BY <1>0, <2>2 DEF Heartbeat, Go, TypeOK
  <2>3. CASE EndStep(t)
    BY <1>0, <2>3 DEF EndStep, Go, TypeOK
  <2>. QED BY <2>1, <2>2, <2>3 DEF Step
<1>2. \/ UNCHANGED pipe
      \/ Emit(OtherLine) \/ Emit(StepLine(step[t]))
  BY DEF Step, BeginStep, Heartbeat, EndStep
<1>3. \/ UNCHANGED <<pipe, hand>>
      \/ \E line \in Lines : /\ pipe' \in Seq(Lines) /\ Len(pipe') <= MaxPipe
                             /\ Told' = Told \cup {line} /\ \A k : GateLine(k) # line
  <2>1. step[t] \in Family /\ hand' = hand
    BY <1>0, <1>1 DEF TypeOK, readVars
  <2>2. \A line \in Lines : Emit(line) =>
          pipe' \in Seq(Lines) /\ Len(pipe') <= MaxPipe /\ Told' = Told \cup {line}
    BY <1>0, <2>1, Emitted
  <2>. QED BY <1>2, <2>1, <2>2, LinesAre
<1>4. TypeOK'
  <2>1. pipe' \in Seq(Lines) /\ Len(pipe') <= MaxPipe
    BY <1>0, <1>3 DEF TypeOK
  <2>2. \A u \in Thread : token'[u] # None <=> pc'[u] \in {"ask", "wait", "stop?"}
    BY <1>0, <1>1 DEF TypeOK
  <2>3. pc' \in [Thread -> {"run", "step", "ask", "wait", "stop?", "out"}]
    BY <1>0, <1>1 DEF TypeOK
  <2>. QED BY <1>0, <1>1, <2>1, <2>2, <2>3 DEF TypeOK, readVars, silenceVars
<1>5. \A k \in Token : GateLine(k) \in Told' => GateLine(k) \in Told
  BY <1>3 DEF Told
<1>6. GatesAreApart' /\ TokensAreAsked'
  BY <1>0, <1>1, <1>5 DEF GateParts, GatesAreApart, TokensAreAsked
<1>7. AutoInv'
  BY <1>0, <1>1, <1>5 DEF GateParts, AutoInv, TypeOK, readVars
<1>8. LastLineInv'
  BY <1>1 DEF LastLineInv, Waits
<1>. QED BY <1>4, <1>6, <1>7, <1>8 DEF GatesIInv

LEMMA AskStep ==
  ASSUME GatesIInv, NEW t \in Thread, Ask(t)
  PROVE  GatesIInv'
<1>. USE GatesFacts
<1>0. TypeOK /\ GateParts
  BY DEF GatesIInv, GateParts
<1>1. /\ UNCHANGED <<alive, step, taken, auto, pipe, readVars, answer, stopped, form,
                     silenceVars, watch>>
      /\ pc[t] = "run" /\ pc' = [pc EXCEPT ![t] = "ask"]
      /\ token' = [token EXCEPT ![t] = count] /\ count < MaxGates /\ count' = count + 1
  BY DEF Ask, Go
<1>2. count \in Token /\ count' \in 0 .. MaxGates /\ count \in Nat
  BY <1>0, <1>1 DEF TypeOK, Token
<1>3. \A u \in Thread : token'[u] = IF u = t THEN count ELSE token[u]
  BY <1>0, <1>1 DEF TypeOK
<1>4. TypeOK'
  <2>1. token' \in [Thread -> Token \cup {None}]
    BY <1>0, <1>1, <1>2 DEF TypeOK
  <2>2. \A u \in Thread : token'[u] # None <=> pc'[u] \in {"ask", "wait", "stop?"}
    BY <1>0, <1>1, <1>2, <1>3 DEF TypeOK
  <2>3. asked \subseteq 0 .. count' - 1
    BY <1>0, <1>1, <1>2 DEF TypeOK
  <2>4. pc' \in [Thread -> {"run", "step", "ask", "wait", "stop?", "out"}]
    BY <1>0, <1>1 DEF TypeOK
  <2>. QED BY <1>0, <1>1, <1>2, <2>1, <2>2, <2>3, <2>4 DEF TypeOK, readVars, silenceVars
<1>5. \A u \in Thread : token[u] # None => token[u] \in Nat /\ token[u] < count
  BY <1>0 DEF GateParts, TokensAreAsked, TypeOK
<1>6. GatesAreApart'
  BY <1>0, <1>2, <1>3, <1>5 DEF GateParts, GatesAreApart
<1>7. TokensAreAsked'
  <2>1. \A k \in Token : GateLine(k) \in Told' => k < count /\ k \in Nat
    BY <1>0, <1>1 DEF GateParts, TokensAreAsked, Told, readVars
  <2>. QED BY <1>1, <1>2, <1>3, <1>5, <2>1 DEF TokensAreAsked
<1>8. AutoInv'
  BY <1>0, <1>1 DEF GateParts, AutoInv, TypeOK, Told, readVars
<1>9. LastLineInv'
  BY <1>0, <1>1 DEF LastLineInv, Waits, TypeOK
<1>. QED BY <1>4, <1>6, <1>7, <1>8, <1>9 DEF GatesIInv

\* A thread leaves its gate: with the decision on file, or by the stop.
LEMMA LeaveStep ==
  ASSUME GatesIInv, NEW t \in Thread, pc[t] \in {"ask", "wait", "stop?"},
         NEW p \in {"run", "out"}, pc' = [pc EXCEPT ![t] = p], token' = [token EXCEPT ![t] = None],
         taken' \in [Token -> Decision \cup {None}], answer' \in [Token -> Decision \cup {None}],
         UNCHANGED <<alive, step, count, auto, pipe, readVars, stopped, form, silenceVars, watch>>
  PROVE  GatesIInv'
<1>. USE GatesFacts
<1>0. TypeOK /\ GateParts
  BY DEF GatesIInv, GateParts
<1>1. \A u \in Thread : token'[u] = IF u = t THEN None ELSE token[u]
  BY <1>0 DEF TypeOK
<1>2. TypeOK'
  <2>1. token' \in [Thread -> Token \cup {None}]
    BY <1>0 DEF TypeOK
  <2>2. \A u \in Thread : token'[u] # None <=> pc'[u] \in {"ask", "wait", "stop?"}
    BY <1>0, <1>1 DEF TypeOK
  <2>3. pc' \in [Thread -> {"run", "step", "ask", "wait", "stop?", "out"}]
    BY <1>0 DEF TypeOK
  <2>. QED BY <1>0, <2>1, <2>2, <2>3 DEF TypeOK, readVars, silenceVars
<1>3. GatesAreApart'
  BY <1>0, <1>1 DEF GateParts, GatesAreApart
<1>4. TokensAreAsked'
  BY <1>0, <1>1 DEF GateParts, TokensAreAsked, Told, readVars
<1>5. AutoInv'
  BY <1>0 DEF GateParts, AutoInv, TypeOK, Told, readVars
<1>6. LastLineInv'
  BY <1>0 DEF LastLineInv, Waits, TypeOK
<1>. QED BY <1>2, <1>3, <1>4, <1>5, <1>6 DEF GatesIInv

\* A thread tells of its gate and waits.
LEMMA TellStep ==
  ASSUME GatesIInv, NEW t \in Thread, pc[t] = "ask", ~auto, pc' = [pc EXCEPT ![t] = "wait"],
         Emit(GateLine(token[t])),
         UNCHANGED <<alive, step, token, taken, count, auto, readVars, answer, stopped, form,
                     silenceVars, watch>>
  PROVE  GatesIInv'
<1>. USE GatesFacts
<1>0. TypeOK /\ GateParts
  BY DEF GatesIInv, GateParts
<1>1. token[t] \in Token /\ token[t] < count
  BY <1>0 DEF TypeOK, GateParts, TokensAreAsked
<1>2. /\ pipe' \in Seq(Lines) /\ Len(pipe') <= MaxPipe
      /\ pipe' # <<>> /\ pipe'[Len(pipe')] = GateLine(token[t])
      /\ Told' = Told \cup {GateLine(token[t])}
  BY <1>0, <1>1, Emitted DEF readVars
<1>3. TypeOK'
  <2>1. \A u \in Thread : token'[u] # None <=> pc'[u] \in {"ask", "wait", "stop?"}
    BY <1>0 DEF TypeOK
  <2>2. pc' \in [Thread -> {"run", "step", "ask", "wait", "stop?", "out"}]
    BY <1>0 DEF TypeOK
  <2>. QED BY <1>0, <1>2, <2>1, <2>2 DEF TypeOK, readVars, silenceVars
<1>4. GatesAreApart'
  BY <1>0 DEF GateParts, GatesAreApart
<1>5. TokensAreAsked'
  BY <1>0, <1>1, <1>2, LinesAre DEF GateParts, TokensAreAsked
<1>6. AutoInv' /\ LastLineInv'
  BY <1>2 DEF AutoInv, LastLineInv
<1>. QED BY <1>3, <1>4, <1>5, <1>6 DEF GatesIInv

LEMMA GateSteps ==
  ASSUME GatesIInv, NEW t \in Thread, AtAGate(t)
  PROVE  GatesIInv'
<1>. USE GatesFacts
<1>0. TypeOK /\ GateParts
  BY DEF GatesIInv, GateParts
<1>1. ASSUME NEW from \in {"ask", "wait"}, NEW d \in Decision, Finish(t, from, d),
             answer' \in [Token -> Decision \cup {None}],
             UNCHANGED <<alive, step, count, auto, pipe, readVars, stopped, form, silenceVars,
                         watch>>
      PROVE  GatesIInv'
  <2>1. taken' \in [Token -> Decision \cup {None}]
    BY <1>0, <1>1 DEF Finish, TypeOK
  <2>2. \E p \in {"run", "out"} : pc' = [pc EXCEPT ![t] = p]
    BY <1>1 DEF Finish, Go
  <2>. QED BY <1>1, <2>1, <2>2, LeaveStep DEF Finish, Go
<1>2. token[t] \in Token \cup {None} /\ (pc[t] \in {"ask", "wait"} => token[t] \in Token)
  BY <1>0 DEF TypeOK
<1>3. CASE Open(t)
  <2>1. CASE /\ answer[token[t]] # None /\ Finish(t, "ask", answer[token[t]])
             /\ UNCHANGED <<pipe, answer>>
    <3>1. answer[token[t]] \in Decision /\ answer' \in [Token -> Decision \cup {None}]
      BY <1>0, <1>2, <1>3, <2>1 DEF TypeOK, Open
    <3>. QED BY <1>1, <1>3, <2>1, <3>1 DEF Open
  <2>2. ASSUME NEW d \in Decision, answer' = [answer EXCEPT ![token[t]] = d],
               Finish(t, "ask", d), UNCHANGED pipe
        PROVE  GatesIInv'
    <3>1. answer' \in [Token -> Decision \cup {None}]
      BY <1>0, <2>2 DEF TypeOK
    <3>. QED BY <1>1, <1>3, <2>2, <3>1 DEF Open
  <2>3. CASE /\ answer[token[t]] = None /\ ~auto
             /\ Go(t, "ask", "wait") /\ Emit(GateLine(token[t]))
             /\ UNCHANGED <<token, taken, answer>>
    BY <1>3, <2>3, TellStep DEF Open, Go
  <2>. QED BY <1>3, <2>1, <2>2, <2>3 DEF Open
<1>4. CASE Poll(t)
  <2>1. CASE answer[token[t]] # None /\ Finish(t, "wait", answer[token[t]])
    <3>1. answer[token[t]] \in Decision /\ answer' \in [Token -> Decision \cup {None}]
      BY <1>0, <1>2, <1>4, <2>1 DEF TypeOK, Poll
    <3>. QED BY <1>1, <1>4, <2>1, <3>1 DEF Poll
  <2>2. CASE Go(t, "wait", "stop?") /\ UNCHANGED <<taken, token>>
    <3>1. /\ UNCHANGED <<alive, step, token, taken, count, auto, pipe, readVars, answer, stopped,
                         form, silenceVars, watch>>
          /\ pc[t] = "wait" /\ pc' = [pc EXCEPT ![t] = "stop?"]
      BY <1>4, <2>2 DEF Poll, Go
    <3>2. TypeOK'
      BY <1>0, <3>1 DEF TypeOK, readVars, silenceVars
    <3>3. GatesAreApart' /\ TokensAreAsked' /\ AutoInv'
      BY <1>0, <3>1 DEF GateParts, GatesAreApart, TokensAreAsked, AutoInv, TypeOK, Told, readVars
    <3>4. LastLineInv'
      <4>1. \A u \in Thread : Waits(u)' => Waits(u)
        BY <1>0, <3>1 DEF Waits, TypeOK
      <4>. QED BY <1>0, <3>1, <4>1 DEF GateParts, LastLineInv, silenceVars
    <3>. QED BY <3>2, <3>3, <3>4 DEF GatesIInv
  <2>. QED BY <1>4, <2>1, <2>2 DEF Poll
<1>5. CASE PollStop(t)
  <2>1. CASE stopped
    <3>1. taken' \in [Token -> Decision \cup {None}] /\ answer' \in [Token -> Decision \cup {None}]
      BY <1>0, <1>5 DEF PollStop, TypeOK
    <3>. QED BY <1>5, <2>1, <3>1, LeaveStep DEF PollStop, Go
  <2>2. CASE ~stopped
    <3>1. /\ UNCHANGED <<alive, step, token, taken, count, auto, pipe, readVars, answer, stopped,
                         form, silenceVars, watch>>
          /\ pc[t] = "stop?" /\ pc' = [pc EXCEPT ![t] = "wait"]
      BY <1>0, <1>5, <2>2 DEF PollStop, Go, TypeOK
    <3>2. TypeOK'
      BY <1>0, <3>1 DEF TypeOK, readVars, silenceVars
    <3>3. GatesAreApart' /\ TokensAreAsked' /\ AutoInv'
      BY <1>0, <3>1 DEF GateParts, GatesAreApart, TokensAreAsked, AutoInv, TypeOK, Told, readVars
    <3>4. LastLineInv'
      <4>1. \A u \in Thread : Waits(u)' => Waits(u)
        BY <1>0, <3>1 DEF Waits, TypeOK
      <4>. QED BY <1>0, <3>1, <4>1 DEF GateParts, LastLineInv, silenceVars
    <3>. QED BY <3>2, <3>3, <3>4 DEF GatesIInv
  <2>. QED BY <2>1, <2>2
<1>. QED BY <1>3, <1>4, <1>5 DEF AtAGate


LEMMA NoteStep ==
  ASSUME GatesIInv, Note
  PROVE  GatesIInv'
<1>. USE GatesFacts
<1>0. TypeOK /\ GateParts
  BY DEF GatesIInv, GateParts
<1>1. /\ pipe # <<>> /\ hand = None /\ hand' = Head(pipe) /\ pipe' = Tail(pipe) /\ age' = 0
      /\ gateOpen' = (Head(pipe).t = "gate")
      /\ family' = IF Head(pipe).t = "step" THEN Head(pipe).name ELSE family
      /\ UNCHANGED <<alive, childVars, auto, asked, answer, stopped, form, watch>>
  BY DEF Note
<1>2. /\ Head(pipe) \in Lines /\ Tail(pipe) \in Seq(Lines) /\ Len(Tail(pipe)) <= MaxPipe
      /\ {Tail(pipe)[i] : i \in DOMAIN Tail(pipe)} \cup {Head(pipe)} = {pipe[i] : i \in DOMAIN pipe}
      /\ Tail(pipe) = <<>> => Head(pipe) = pipe[Len(pipe)]
      /\ Tail(pipe) # <<>> => Tail(pipe)[Len(Tail(pipe))] = pipe[Len(pipe)]
  BY <1>0, <1>1, Taken
<1>3. Told' \subseteq Told
  BY <1>1, <1>2 DEF Told
<1>4. TypeOK'
  <2>1. family' \in Family \cup {None} /\ gateOpen' \in BOOLEAN /\ age' \in 0 .. MaxAge
    BY <1>0, <1>1, <1>2, LinesAre DEF TypeOK
  <2>2. pipe' \in Seq(Lines) /\ Len(pipe') <= MaxPipe /\ hand' \in Lines \cup {None}
    BY <1>1, <1>2
  <2>. QED BY <1>0, <1>1, <2>1, <2>2 DEF TypeOK, childVars
<1>5. GatesAreApart'
  BY <1>0, <1>1 DEF GateParts, GatesAreApart, childVars
<1>6. TokensAreAsked'
  BY <1>0, <1>1, <1>3 DEF GateParts, TokensAreAsked, childVars
<1>7. AutoInv'
  BY <1>0, <1>1, <1>3 DEF GateParts, AutoInv, childVars
<1>8. LastLineInv'
  <2>. SUFFICES ASSUME \A t \in Thread : Waits(t)
                PROVE  IF pipe' = <<>> THEN gateOpen'
                       ELSE \E t \in Thread : pipe'[Len(pipe')] = GateLine(token[t])
    BY <1>1 DEF LastLineInv, Waits, childVars
  <2>1. PICK t \in Thread : pipe[Len(pipe)] = GateLine(token[t])
    BY <1>0, <1>1 DEF GateParts, LastLineInv
  <2>2. CASE pipe' = <<>>
    <3>1. Head(pipe) = GateLine(token[t])
      BY <1>1, <1>2, <2>1, <2>2
    <3>. QED BY <1>1, <2>2, <3>1, LinesAre
  <2>3. CASE pipe' # <<>>
    <3>1. pipe'[Len(pipe')] = GateLine(token[t])
      BY <1>1, <1>2, <2>1, <2>3
    <3>. QED BY <2>3, <3>1
  <2>. QED BY <2>2, <2>3
<1>. QED BY <1>4, <1>5, <1>6, <1>7, <1>8 DEF GatesIInv

LEMMA RecordStep ==
  ASSUME GatesIInv, Record
  PROVE  GatesIInv'
<1>. USE GatesFacts
<1>0. TypeOK /\ GateParts
  BY DEF GatesIInv, GateParts
<1>1. /\ hand # None /\ hand' = None
      /\ asked' = IF hand.t = "gate" THEN asked \cup {hand.token} ELSE asked
      /\ UNCHANGED <<alive, childVars, auto, pipe, answer, stopped, form, silenceVars, watch>>
  BY DEF Record
<1>2. hand \in Lines /\ hand \in Told
  BY <1>0, <1>1 DEF TypeOK, Told
<1>3. hand.t = "gate" => /\ hand.token \in Token /\ hand.token < count /\ ~auto
  BY <1>0, <1>2, LinesAre DEF GateParts, TokensAreAsked, AutoInv
<1>4. \A k \in Token : GateLine(k) \in Told' => GateLine(k) \in Told
  BY <1>1 DEF Told
<1>5. TypeOK'
  <2>1. count \in Nat /\ asked \subseteq 0 .. count - 1
    BY <1>0 DEF TypeOK
  <2>2. asked' \subseteq 0 .. count - 1
    <3>1. CASE hand.t = "gate"
      <4>1. hand.token \in 0 .. count - 1
        BY <1>3, <2>1, <3>1, LinesAre DEF Token
      <4>. QED BY <1>1, <2>1, <3>1, <4>1
    <3>2. CASE hand.t # "gate"
      BY <1>1, <2>1, <3>2
    <3>. QED BY <3>1, <3>2
  <2>. QED BY <1>0, <1>1, <2>2 DEF TypeOK, childVars, silenceVars
<1>6. GatesAreApart' /\ TokensAreAsked'
  BY <1>0, <1>1, <1>4 DEF GateParts, GatesAreApart, TokensAreAsked, childVars
<1>7. AutoInv'
  BY <1>0, <1>1, <1>3, <1>4 DEF GateParts, AutoInv, childVars
<1>8. LastLineInv'
  BY <1>0, <1>1 DEF GateParts, LastLineInv, Waits, childVars, silenceVars
<1>. QED BY <1>5, <1>6, <1>7, <1>8 DEF GatesIInv

\* What happens around the threads, the pipe and the records.
LEMMA OtherStep ==
  ASSUME GatesIInv,
         \/ Die \/ Check \/ Kill \/ Tick \/ Stop \/ Quiescent \/ UNCHANGED vars
         \/ \E u \in User : FindGate(u) \/ Submit(u)
  PROVE  GatesIInv'
<1>. USE GatesFacts
<1>0. TypeOK /\ GateParts
  BY DEF GatesIInv, GateParts
<1>1. /\ UNCHANGED <<childVars, auto, pipe, readVars, family, gateOpen>>
      /\ alive' = alive \/ alive' = FALSE
  BY <1>0 DEF Die, Check, Kill, Tick, Stop, Quiescent, FindGate, Submit, vars, silenceVars
<1>2. TypeOK'
  <2>1. CASE Die \/ Check \/ Kill \/ Tick \/ Stop \/ Quiescent \/ UNCHANGED vars
    <3>1. /\ alive' \in BOOLEAN /\ stopped' \in BOOLEAN /\ watch' \in {"sleep", "kill", "done"}
          /\ UNCHANGED <<answer, form>>
      BY <1>0, <2>1 DEF TypeOK, Die, Check, Kill, Tick, Stop, Quiescent, vars, silenceVars
    <3>2. age' \in 0 .. MaxAge
      BY <1>0, <2>1 DEF TypeOK, Die, Check, Kill, Tick, Stop, Quiescent, vars, silenceVars
    <3>. QED BY <1>0, <1>1, <3>1, <3>2 DEF TypeOK, childVars, readVars
  <2>2. ASSUME NEW u \in User, FindGate(u) \/ Submit(u)
        PROVE  TypeOK'
    <3>1. asked \subseteq Token
      BY <1>0 DEF TypeOK, Token
    <3>2. form' \in [User -> Token \cup {None}]
      <4>1. form \in [User -> Token \cup {None}]
        BY <1>0 DEF TypeOK
      <4>2. CASE FindGate(u)
        <5>1. PICK k \in Token : form' = [form EXCEPT ![u] = k]
          BY <3>1, <4>2 DEF FindGate, Pending
        <5>. QED BY <4>1, <5>1
      <4>3. CASE Submit(u)
        BY <4>1, <4>3 DEF Submit
      <4>. QED BY <2>2, <4>2, <4>3
    <3>3. answer' \in [Token -> Decision \cup {None}]
      BY <1>0, <2>2 DEF TypeOK, FindGate, Submit
    <3>4. UNCHANGED <<alive, stopped, silenceVars, watch>>
      BY <2>2 DEF FindGate, Submit
    <3>. QED BY <1>0, <1>1, <3>2, <3>3, <3>4 DEF TypeOK, childVars, readVars, silenceVars
  <2>. QED BY <2>1, <2>2
<1>3. GatesAreApart' /\ TokensAreAsked' /\ AutoInv'
  BY <1>0, <1>1 DEF GateParts, GatesAreApart, TokensAreAsked, AutoInv, Told, childVars, readVars
<1>4. LastLineInv'
  BY <1>0, <1>1 DEF GateParts, LastLineInv, Waits, childVars
<1>. QED BY <1>2, <1>3, <1>4 DEF GatesIInv

LEMMA GatesStep ==
  ASSUME GatesIInv, [Next]_vars
  PROVE  GatesIInv'
BY StepsOfThreads, AskStep, GateSteps, NoteStep, RecordStep, OtherStep DEF Next

LEMMA GatesBegin == Init => GatesIInv
<1>. SUFFICES ASSUME Init PROVE GatesIInv
  OBVIOUS
<1>. USE GatesFacts
<1>1. TypeOK
  <2>1. count = 0 /\ age = 0 /\ 0 \in 0 .. MaxGates /\ 0 \in 0 .. MaxAge /\ asked = {}
    BY DEF Init
  <2>2. pipe = <<>> /\ <<>> \in Seq(Lines) /\ Len(<<>>) = 0 /\ 0 <= MaxPipe
    BY DEF Init
  <2>3. \A t \in Thread : token[t] = None /\ pc[t] = "run"
    BY DEF Init
  <2>4. /\ pc \in [Thread -> {"run", "step", "ask", "wait", "stop?", "out"}]
        /\ step \in [Thread -> Family] /\ token \in [Thread -> Token \cup {None}]
        /\ taken \in [Token -> Decision \cup {None}] /\ answer \in [Token -> Decision \cup {None}]
        /\ form \in [User -> Token \cup {None}]
    BY DEF Init
  <2>5. /\ alive \in BOOLEAN /\ auto \in BOOLEAN /\ stopped \in BOOLEAN /\ gateOpen \in BOOLEAN
        /\ hand = None /\ family = None /\ watch = "sleep"
    BY DEF Init
  <2>. QED BY <2>1, <2>2, <2>3, <2>4, <2>5 DEF TypeOK
<1>2. Told = {None}
  BY DEF Init, Told
<1>3. TokensAreAsked /\ AutoInv /\ GatesAreApart
  BY <1>2 DEF Init, TokensAreAsked, AutoInv, GatesAreApart
<1>4. LastLineInv
  BY DEF Init, LastLineInv, Waits
<1>. QED BY <1>1, <1>3, <1>4 DEF GatesIInv

LEMMA GatesAlways == Spec => []GatesIInv
BY GatesBegin, GatesStep, PTL DEF Spec

-------------------------------------------------------------------------------
(***************************************************************************)
(* The theorems.                                                           *)
(***************************************************************************)

\* Threads that ask gates at one time never share an answer, and a thread has a token exactly
\* while it is at a gate.
THEOREM GatesAreSafe == Spec => []GateInv
<1>1. GatesIInv => GateInv
  BY DEF GatesIInv, GateInv
<1>. QED BY <1>1, GatesAlways, PTL

\* A gate is never timed out: the watchdog condemns no child all of whose threads are at gates
\* the supervisor knows of, however its threads, its reader and its watchdog take turns.
THEOREM GatesAreNotTimedOut == Spec => GateIsNeverTimedOut
<1>1. ASSUME GatesIInv, [Next]_vars
      PROVE  [watch = "sleep" /\ watch' = "kill" => \E t \in Thread : ~AtGate(t)]_vars
  <2>. SUFFICES ASSUME watch = "sleep", watch' = "kill", \A t \in Thread : AtGate(t)
                PROVE  FALSE
    OBVIOUS
  <2>1. Check
    BY <1>1 DEF Next, vars, Step, BeginStep, Heartbeat, EndStep, Ask, AtAGate, Open, Poll,
         PollStop, Die, Note, Record, Kill, Tick, FindGate, Submit, Stop, Quiescent
  <2>2. ~gateOpen
    BY <2>1 DEF Check, Overdue
  <2>3. \A t \in Thread : Waits(t) /\ \A i \in DOMAIN pipe : pipe[i] # GateLine(token[t])
    BY DEF AtGate, ToSet
  <2>4. pipe # <<>> => Len(pipe) \in DOMAIN pipe
    BY <1>1 DEF GatesIInv, TypeOK
  <2>. QED BY <1>1, <2>2, <2>3, <2>4 DEF GatesIInv, LastLineInv
<1>. QED BY <1>1, GatesAlways, PTL DEF Spec, GateIsNeverTimedOut

\* The decision on file is the one the workflow went on with, answers that were replayed and
\* automatic ones included, as long as answers are submitted one at a time.
THEOREM RecordsAreDecisions == (\A u, v \in User : u = v) => (Spec => []TheRecordIsTheDecision)
<1>. SUFFICES ASSUME \A u, v \in User : u = v PROVE Spec => []TheRecordIsTheDecision
  OBVIOUS
<1>. DEFINE Inv == FormsInv /\ TheRecordIsTheDecision
<1>1. Init => Inv
  BY DEF Init, FormsInv, TheRecordIsTheDecision
<1>2. ASSUME GatesIInv, Inv, [Next]_vars
      PROVE  Inv'
  <2>0. TypeOK /\ AutoInv
    BY <1>2 DEF GatesIInv
  <2>1. ASSUME NEW t \in Thread, Open(t) \/ Poll(t)
        PROVE  Inv'
    <3>1. \/ UNCHANGED <<taken, answer>>
          \/ \E d \in Decision :
               /\ taken' = [taken EXCEPT ![token[t]] = d]
               /\ \/ answer' = answer /\ answer[token[t]] = d
                  \/ auto /\ answer[token[t]] = None /\ answer' = [answer EXCEPT ![token[t]] = d]
      <4>1. pc[t] \in {"ask", "wait"} /\ token[t] \in Token
        BY <2>0, <2>1 DEF Open, Poll, TypeOK, Go, Finish
      <4>2. answer[token[t]] # None => answer[token[t]] \in Decision
        BY <2>0, <4>1 DEF TypeOK
      <4>. QED BY <2>1, <4>2 DEF Open, Poll, Finish
    <3>2. UNCHANGED <<form, asked, auto>>
      BY <2>1 DEF Open, Poll, readVars
    <3>3. FormsInv'
      BY <1>2, <2>0, <3>1, <3>2 DEF FormsInv, AutoInv, TypeOK
    <3>4. TheRecordIsTheDecision'
      BY <1>2, <2>0, <3>1, GatesFacts DEF TheRecordIsTheDecision, TypeOK
    <3>. QED BY <3>3, <3>4
  <2>2. ASSUME NEW u \in User, FindGate(u) \/ Submit(u)
        PROVE  Inv'
    <3>1. UNCHANGED <<taken, asked>>
      BY <2>2 DEF FindGate, Submit, childVars, readVars
    <3>2. CASE FindGate(u)
      BY <1>2, <2>0, <3>1, <3>2
         DEF FindGate, Pending, FormsInv, TheRecordIsTheDecision, TypeOK
    <3>3. CASE Submit(u)
      <4>1. form' = [v \in User |-> None]
        BY <2>0, <3>3 DEF Submit, TypeOK
      <4>2. form[u] # None /\ answer[form[u]] = None
        BY <1>2, <3>3 DEF Submit, FormsInv
      <4>3. TheRecordIsTheDecision'
        BY <1>2, <2>0, <3>1, <3>3, <4>2 DEF Submit, TheRecordIsTheDecision, TypeOK
      <4>. QED BY <4>1, <4>3 DEF FormsInv
    <3>. QED BY <2>2, <3>2, <3>3
  <2>3. CASE UNCHANGED <<taken, answer, form>> /\ asked \subseteq asked'
    BY <1>2, <2>3 DEF FormsInv, TheRecordIsTheDecision
  <2>4. \/ \E t \in Thread : Open(t) \/ Poll(t)
        \/ \E u \in User : FindGate(u) \/ Submit(u)
        \/ UNCHANGED <<taken, answer, form>> /\ asked \subseteq asked'
    BY <1>2 DEF Next, vars, Step, BeginStep, Heartbeat, EndStep, Ask, AtAGate,
         PollStop, Die, Note, Record, Check, Kill, Tick, Stop, Quiescent, childVars, readVars
  <2>. QED BY <2>1, <2>2, <2>3, <2>4
<1>3. Inv => TheRecordIsTheDecision
  OBVIOUS
<1>. HIDE DEF Inv
<1>. QED BY <1>1, <1>2, <1>3, GatesAlways, PTL DEF Spec
===============================================================================
