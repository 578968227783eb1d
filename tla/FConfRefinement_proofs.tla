----------------------- MODULE FConfRefinement_proofs ------------------------
(***************************************************************************)
(* FConfService implements Config, for any clients, keys, values and       *)
(* bounds: every step of a client or of the service is a step of the       *)
(* atomic map, or changes nothing that the map shows.                      *)
(***************************************************************************)
EXTENDS FConfService_proofs

-----------------------------------------------------------------------------
(* What a client is to Config.                                             *)

PhaseFn == [c \in Clients |-> Phase(c)]
ResultFn == [c \in Clients |-> Promised(c)]
GotFn == [c \in Clients |-> Outcome(ret[c])]

(* What a failed stub returns is the refusal of Config. *)
LEMMA Refused == Outcome(Failed) = C!Refused
BY OutcomeOf DEF Failed, RET_FAIL, C!Refused

(* The refinement mapping, in terms of the lemmas about streams. *)
LEMMA Mapped ==
    ASSUME NEW c \in Clients
    PROVE  /\ call[c] = NoCall => Phase(c) = "none"
           /\ call[c] # NoCall /\ sent[c] => Phase(c) = "called"
           /\ call[c] # NoCall /\ ~sent[c] /\ HasAnswer(down[c]) => Phase(c) = "done"
           /\ call[c] # NoCall /\ ~sent[c] /\ ~HasAnswer(down[c]) => Phase(c) = "lost"
           /\ HasAnswer(down[c]) => Promised(c) = Outcome(AnswerIn(down[c]))
           /\ ~HasAnswer(down[c]) => Promised(c) = C!Refused
BY Refused DEF Phase, Promised, Answered, HasAnswer, AnswerIn

(* The mapping after a step. *)
LEMMA MappedPrime ==
    ASSUME NEW c \in Clients
    PROVE  /\ call'[c] = NoCall => Phase(c)' = "none"
           /\ call'[c] # NoCall /\ sent'[c] => Phase(c)' = "called"
           /\ call'[c] # NoCall /\ ~sent'[c] /\ HasAnswer(down'[c]) => Phase(c)' = "done"
           /\ call'[c] # NoCall /\ ~sent'[c] /\ ~HasAnswer(down'[c]) => Phase(c)' = "lost"
           /\ HasAnswer(down'[c]) => Promised(c)' = Outcome(AnswerIn(down'[c]))
           /\ ~HasAnswer(down'[c]) => Promised(c)' = C!Refused
BY Refused DEF Phase, Promised, Answered, HasAnswer, AnswerIn

(* Nothing that Config sees of d has changed. *)
Same(d) ==
    /\ Phase(d)' = Phase(d)
    /\ Promised(d)' = Promised(d)
    /\ Outcome(ret[d])' = Outcome(ret[d])

(* A client that a step leaves alone looks the same to Config. *)
LEMMA SameIfKept ==
    ASSUME NEW d \in Clients,
           call'[d] = call[d], sent'[d] = sent[d], down'[d] = down[d], ret'[d] = ret[d]
    PROVE  Same(d)
BY DEF Same, Phase, Promised, Answered, HasAnswer, AnswerIn

(* It is enough that the answer in the stream is the same. *)
LEMMA SameIfAnswered ==
    ASSUME NEW d \in Clients,
           call'[d] = call[d], sent'[d] = sent[d], ret'[d] = ret[d],
           HasAnswer(down'[d]) <=> HasAnswer(down[d]),
           HasAnswer(down[d]) => AnswerIn(down'[d]) = AnswerIn(down[d])
    PROVE  Same(d)
<1>1. Phase(d)' = Phase(d)
  BY DEF Phase, Answered, HasAnswer
<1>2. Promised(d)' = Promised(d)
  BY Mapped, MappedPrime
<1> QED BY <1>1, <1>2 DEF Same

(* A step that no client and no key can tell changes nothing in Config. *)
LEMMA AllSame ==
    ASSUME \A d \in Clients : Same(d), call' = call, Mem' = Mem
    PROVE  UNCHANGED C!vars
<1>1. PhaseFn' = PhaseFn /\ ResultFn' = ResultFn /\ GotFn' = GotFn
  BY DEF PhaseFn, ResultFn, GotFn, Same
<1> QED BY <1>1 DEF C!vars, PhaseFn, ResultFn, GotFn

(* What only c has changed of the functions. *)
LEMMA OneChanged ==
    ASSUME NEW c \in Clients, \A d \in Clients \ {c} : Same(d)
    PROVE  /\ PhaseFn' = [PhaseFn EXCEPT ![c] = Phase(c)']
           /\ ResultFn' = [ResultFn EXCEPT ![c] = Promised(c)']
           /\ GotFn' = [GotFn EXCEPT ![c] = Outcome(ret[c])']
           /\ Phase(c)' = Phase(c) => PhaseFn' = PhaseFn
           /\ Promised(c)' = Promised(c) => ResultFn' = ResultFn
           /\ Outcome(ret[c])' = Outcome(ret[c]) => GotFn' = GotFn
BY DEF PhaseFn, ResultFn, GotFn, Same

(* The functions at one client. *)
LEMMA Applied ==
    ASSUME NEW c \in Clients
    PROVE  PhaseFn[c] = Phase(c) /\ ResultFn[c] = Promised(c) /\ GotFn[c] = Outcome(ret[c])
BY DEF PhaseFn, ResultFn, GotFn

(* What IInv says of the stream of c, for the map. *)
LEMMA NoAnswerYet ==
    ASSUME IInv, NEW c \in Clients, at[c] # "call" \/ sent[c]
    PROVE  Quiet(down[c]) /\ ~HasAnswer(down[c])
BY QuietFacts DEF IInv, StreamOK

(* A client without a call, as Config sees it. *)
LEMMA Idle ==
    ASSUME IInv, NEW c \in Clients
    PROVE  call[c] = NoCall <=> ~sent[c] /\ at[c] # "call"
BY DEF IInv, ControlOK

(* No answer is in an empty stream. *)
LEMMA NotAnswered == ~HasAnswer(<<>>)
BY DEF HasAnswer

-----------------------------------------------------------------------------
(* The steps of a client.                                                  *)

(* The map is kept with the tree. *)
LEMMA MemKept ==
    ASSUME tree' = tree
    PROVE  Mem' = Mem
BY DEF Mem

(* To Config a new connection is a caller that goes on. *)
LEMMA ConnectMaps ==
    ASSUME IInv, NEW c \in Clients, Connect(c)
    PROVE  C!GoOn(c)
<1>1. ASSUME NEW d \in Clients, d # c PROVE Same(d)
  BY <1>1, SameIfKept DEF Connect, IInv, TypeOK
<1>2. at[c] # "call" /\ ~sent[c] /\ call[c] = NoCall
  BY Idle DEF Connect, IInv, ControlOK
<1>3. call' = call /\ ret'[c] = Failed /\ down'[c] = <<>> /\ tree' = tree
  BY DEF Connect, IInv, TypeOK, service
<1>4. Phase(c) = "none" /\ Phase(c)' = Phase(c)
  BY <1>2, <1>3, Mapped, MappedPrime
<1>5. Promised(c)' = Promised(c)
  BY <1>2, <1>3, NoAnswerYet, NotAnswered, Mapped, MappedPrime
<1>6. Outcome(ret[c])' = C!Refused
  BY <1>3, Refused DEF Outcome
<1>7. /\ PhaseFn[c] = "none" /\ PhaseFn' = PhaseFn /\ ResultFn' = ResultFn
      /\ GotFn' = [GotFn EXCEPT ![c] = C!Refused]
  BY <1>1, <1>4, <1>5, <1>6, OneChanged, Applied
<1> QED BY <1>3, <1>7, MemKept DEF C!GoOn, PhaseFn, ResultFn, GotFn

(* So is one that goes back to its loop. *)
LEMMA NextPassMaps ==
    ASSUME IInv, NEW c \in Clients, NextPass(c)
    PROVE  C!GoOn(c)
<1>1. ASSUME NEW d \in Clients, d # c PROVE Same(d)
  BY <1>1, SameIfKept DEF NextPass, IInv, TypeOK
<1>2. at[c] # "call" /\ ~sent[c] /\ call[c] = NoCall
  BY Idle DEF NextPass, IInv, ControlOK
<1>3. call' = call /\ sent' = sent /\ ret'[c] = Failed /\ down' = down /\ tree' = tree
  BY DEF NextPass, IInv, TypeOK, service
<1>4. Phase(c) = "none" /\ Phase(c)' = Phase(c)
  BY <1>2, <1>3, Mapped, MappedPrime
<1>5. Promised(c)' = Promised(c)
  BY <1>2, <1>3, NoAnswerYet, Mapped, MappedPrime
<1>6. Outcome(ret[c])' = C!Refused
  BY <1>3, Refused DEF Outcome
<1>7. /\ PhaseFn[c] = "none" /\ PhaseFn' = PhaseFn /\ ResultFn' = ResultFn
      /\ GotFn' = [GotFn EXCEPT ![c] = C!Refused]
  BY <1>1, <1>4, <1>5, <1>6, OneChanged, Applied
<1> QED BY <1>3, <1>7, MemKept DEF C!GoOn, PhaseFn, ResultFn, GotFn

(* A request on its way is a call of Config. *)
LEMMA CallMaps ==
    ASSUME IInv, NEW c \in Clients, NEW r \in Requests, Call(c, r)
    PROVE  C!Invoke(c, r) \/ C!InvokeDead(c, r)
<1>1. ASSUME NEW d \in Clients, d # c PROVE Same(d)
  BY <1>1, SameIfKept DEF Call, IInv, TypeOK
<1>2. at[c] # "call" /\ ~sent[c] /\ call[c] = NoCall
  BY Idle DEF Call, IInv, ControlOK
<1>3. /\ call' = [call EXCEPT ![c] = r] /\ call'[c] = r /\ r # NoCall
      /\ sent'[c] = (conn[c] # "eof")
      /\ ret'[c] = Failed /\ down' = down /\ tree' = tree
  BY ClientsAssumption DEF Call, IInv, TypeOK, service
<1>4. Phase(c) = "none" /\ ~HasAnswer(down[c])
  BY <1>2, Mapped, NoAnswerYet
<1>5. Phase(c)' \in {"called", "lost"}
  BY <1>3, <1>4, MappedPrime
<1>6. Promised(c)' = Promised(c)
  BY <1>3, <1>4, Mapped, MappedPrime
<1>7. Outcome(ret[c])' = C!Refused
  BY <1>3, Refused DEF Outcome
<1>8. /\ PhaseFn[c] = "none" /\ ResultFn' = ResultFn
      /\ GotFn' = [GotFn EXCEPT ![c] = C!Refused]
      /\ PhaseFn' = [PhaseFn EXCEPT ![c] = "called"] \/ PhaseFn' = [PhaseFn EXCEPT ![c] = "lost"]
  BY <1>1, <1>4, <1>5, <1>6, <1>7, OneChanged, Applied
<1> QED BY <1>3, <1>8, MemKept DEF C!Invoke, C!InvokeDead, PhaseFn, ResultFn, GotFn

(* A push is a stutter, an answer the return of a call. *)
LEMMA ReceiveMaps ==
    ASSUME IInv, NEW c \in Clients, Receive(c)
    PROVE  C!Return(c) \/ UNCHANGED C!vars
<1> DEFINE s == down[c]
<1>1. s \in Seq(Frame) /\ s # <<>> /\ down'[c] = Tail(s) /\ at[c] = "call" /\ tree' = tree
  BY DEF Receive, IInv, TypeOK, service
<1>2. ASSUME NEW d \in Clients, d # c PROVE Same(d)
  BY <1>2, SameIfKept DEF Receive, IInv, TypeOK
<1>3. sent' = sent /\ StreamOK(c)
  BY DEF Receive, IInv
<1>4. CASE ~IsAnswer(Head(s))
  <2>1. call' = call /\ ret' = ret
    BY <1>4 DEF Receive, IsAnswer
  <2>2. /\ HasAnswer(Tail(s)) <=> HasAnswer(s)
        /\ HasAnswer(s) => AnswerIn(Tail(s)) = AnswerIn(s)
    <3>1. CASE Quiet(s)
      BY <1>1, <3>1, QuietFacts, TailFacts
    <3>2. CASE OneCall(s, call[c])
      BY <1>1, <1>4, <3>2, TailFacts
    <3> QED BY <1>3, <3>1, <3>2 DEF StreamOK
  <2>3. Same(c)
    BY <1>1, <1>3, <2>1, <2>2, SameIfAnswered
  <2> QED BY <1>1, <1>2, <2>1, <2>3, AllSame, MemKept
<1>5. CASE IsAnswer(Head(s))
  <2>1. call' = [call EXCEPT ![c] = NoCall] /\ call'[c] = NoCall /\ ret'[c] = Head(s)
    BY <1>5 DEF Receive, IsAnswer, IInv, TypeOK
  <2>2. ~Quiet(s)
    BY <1>1, <1>5, TailFacts DEF Quiet
  <2>3. ~sent[c] /\ OneCall(s, call[c])
    BY <1>3, <2>2 DEF StreamOK
  <2>4. Quiet(Tail(s)) /\ HasAnswer(s) /\ AnswerIn(s) = Head(s)
    BY <1>1, <1>5, <2>3, TailFacts
  <2>5. call[c] # NoCall
    BY <1>1, Idle
  <2>6. Phase(c) = "done" /\ Promised(c) = Outcome(Head(s))
    BY <2>3, <2>4, <2>5, Mapped
  <2>7. Phase(c)' = "none" /\ Promised(c)' = C!Refused
    BY <1>1, <2>1, <2>4, QuietFacts, MappedPrime
  <2>8. Outcome(ret[c])' = Promised(c)
    BY <2>1, <2>6 DEF Outcome
  <2>9. /\ PhaseFn[c] = "done" /\ PhaseFn' = [PhaseFn EXCEPT ![c] = "none"]
        /\ GotFn' = [GotFn EXCEPT ![c] = ResultFn[c]]
        /\ ResultFn' = [ResultFn EXCEPT ![c] = C!Refused]
    BY <1>2, <2>6, <2>7, <2>8, OneChanged, Applied
  <2> QED BY <1>1, <2>1, <2>9, MemKept DEF C!Return, PhaseFn, ResultFn, GotFn
<1> QED BY <1>4, <1>5

(* An end of file before the answer is a refusal. *)
LEMMA ReceiveEofMaps ==
    ASSUME IInv, NEW c \in Clients, ReceiveEof(c)
    PROVE  C!Fail(c)
<1>1. ASSUME NEW d \in Clients, d # c PROVE Same(d)
  BY <1>1, SameIfKept DEF ReceiveEof, IInv, TypeOK
<1>2. at[c] = "call" /\ down[c] = <<>> /\ ~sent[c] /\ ret[c] = Failed
  BY DEF ReceiveEof, IInv, ControlOK
<1>3. /\ call' = [call EXCEPT ![c] = NoCall] /\ call'[c] = NoCall
      /\ ret' = ret /\ down' = down /\ tree' = tree
  BY DEF ReceiveEof, IInv, TypeOK, service
<1>4. call[c] # NoCall
  BY <1>2, Idle
<1>5. Phase(c) = "lost" /\ Phase(c)' = "none"
  BY <1>2, <1>3, <1>4, NotAnswered, Mapped, MappedPrime
<1>6. Promised(c)' = Promised(c)
  BY <1>2, <1>3, NotAnswered, Mapped, MappedPrime
<1>7. Outcome(ret[c])' = C!Refused
  BY <1>2, <1>3, Refused DEF Outcome
<1>8. /\ PhaseFn[c] = "lost" /\ PhaseFn' = [PhaseFn EXCEPT ![c] = "none"]
      /\ ResultFn' = ResultFn
      /\ GotFn' = [GotFn EXCEPT ![c] = C!Refused]
  BY <1>1, <1>5, <1>6, <1>7, OneChanged, Applied
<1> QED BY <1>3, <1>8, MemKept DEF C!Fail, PhaseFn, ResultFn, GotFn

(* A request that arrives is a stutter. *)
LEMMA ReadMaps ==
    ASSUME IInv, NEW c \in Clients, Read(c)
    PROVE  UNCHANGED C!vars
<1>1. ASSUME NEW d \in Clients, d # c PROVE Same(d)
  BY <1>1, SameIfKept DEF Read, IInv, TypeOK
<1>2. /\ at[c] = "read" /\ down[c] # <<>> /\ down[c] \in Seq(Frame)
      /\ down'[c] = Tail(down[c])
      /\ call' = call /\ sent' = sent /\ ret' = ret /\ tree' = tree
  BY DEF Read, IInv, TypeOK, service
<1>3. Quiet(down[c])
  BY <1>2, NoAnswerYet
<1>4. ~HasAnswer(down[c]) /\ ~HasAnswer(down'[c])
  BY <1>2, <1>3, TailFacts, QuietFacts
<1>5. Same(c)
  BY <1>2, <1>4, SameIfAnswered
<1> QED BY <1>1, <1>2, <1>5, AllSame, MemKept

(* So is an end of file that the service reads. *)
LEMMA ReadEofMaps ==
    ASSUME IInv, NEW c \in Clients, ReadEof(c)
    PROVE  UNCHANGED C!vars
<1>1. \A d \in Clients : Same(d)
  BY SameIfKept DEF ReadEof
<1> QED BY <1>1, AllSame, MemKept DEF ReadEof, service

(* A client that ends forgets its call, unless the service will still read it. *)
LEMMA ExitMaps ==
    ASSUME IInv, NEW c \in Clients, Exit(c)
    PROVE  C!Forget(c) \/ UNCHANGED C!vars
<1>1. ASSUME NEW d \in Clients, d # c PROVE Same(d)
  BY <1>1, SameIfKept DEF Exit, IInv, TypeOK
<1>2. /\ at[c] # "off" /\ down'[c] = <<>> /\ ret'[c] = Failed /\ sent' = sent /\ tree' = tree
      /\ call \in [Clients -> Calls \cup {NoCall}]
  BY DEF Exit, IInv, TypeOK, service
<1>3. CASE sent[c]
  <2>1. call' = call
    BY <1>2, <1>3 DEF Exit
  <2>2. ret[c] = Failed
    BY <1>2, <1>3 DEF IInv, ControlOK
  <2>3. ~HasAnswer(down[c]) /\ ~HasAnswer(down'[c])
    BY <1>2, <1>3, NoAnswerYet, NotAnswered
  <2>4. Same(c)
    BY <1>2, <2>1, <2>2, <2>3, SameIfAnswered
  <2> QED BY <1>1, <1>2, <2>1, <2>4, AllSame, MemKept
<1>4. CASE ~sent[c]
  <2>1. call' = [call EXCEPT ![c] = NoCall] /\ call'[c] = NoCall
    BY <1>2, <1>4 DEF Exit
  <2>2. Phase(c)' = "none" /\ Promised(c)' = C!Refused
    BY <1>2, <2>1, NotAnswered, MappedPrime
  <2>3. Outcome(ret[c])' = C!Refused
    BY <1>2, Refused DEF Outcome
  <2>4. /\ PhaseFn' = [PhaseFn EXCEPT ![c] = "none"]
        /\ ResultFn' = [ResultFn EXCEPT ![c] = C!Refused]
        /\ GotFn' = [GotFn EXCEPT ![c] = C!Refused]
    BY <1>1, <2>2, <2>3, OneChanged
  <2> QED BY <1>2, <2>1, <2>4, MemKept DEF C!Forget, PhaseFn, ResultFn, GotFn
<1> QED BY <1>3, <1>4

(* An accept is a stutter. *)
LEMMA AcceptMaps ==
    ASSUME IInv, NEW c \in Clients, Accept(c) \/ Disconnect(c)
    PROVE  UNCHANGED C!vars
<1>1. \A d \in Clients : Same(d)
  BY SameIfKept DEF Accept, Disconnect
<1> QED BY <1>1, AllSame, MemKept DEF Accept, Disconnect

-----------------------------------------------------------------------------
(* The steps of the service.                                               *)

(* Serving a request is where its call takes effect. *)
LEMMA ServeMaps ==
    ASSUME IInv, NEW c \in Clients, Serve(c)
    PROVE  C!Commit(c) \/ C!CommitForgotten(c)
<1>1. PICK a : Served(c, a)
  BY ServeAnswers
<1>2. /\ conn[c] \in {"open", "half"} /\ sent[c] /\ sent'[c] = FALSE /\ ret' = ret
      /\ \A d \in Clients : d # c => call'[d] = call[d] /\ sent'[d] = sent[d]
  BY DEF Serve, IInv, TypeOK
<1>3. call[c] # NoCall /\ ~HasAnswer(down[c])
  BY <1>2, Idle, NoAnswerYet
<1>4. Phase(c) = "called" /\ Promised(c) = C!Refused
  BY <1>2, <1>3, Mapped
<1>5. C!Effect(call[c], Outcome(a)) /\ Outcome(a) \in C!Results
  <2>1. a \in Frame /\ IsAnswer(a) /\ C!Effect(call[c], Outcome(a))
    BY <1>1 DEF Served
  <2>2. a.value \in Values \cup {None}
    BY <2>1 DEF Frame, IsAnswer
  <2> QED BY <2>1, <2>2 DEF Outcome, C!Results
<1>6. ASSUME NEW d \in Clients \ {c} PROVE Same(d)
  <2>1. Extended(down[d], down'[d]) /\ StreamOK(d)
    BY <1>1 DEF Served, Delivered, IInv
  <2>2. /\ HasAnswer(down'[d]) <=> HasAnswer(down[d])
        /\ HasAnswer(down[d]) => AnswerIn(down'[d]) = AnswerIn(down[d])
    <3>1. CASE Quiet(down[d])
      BY <2>1, <3>1, QuietFacts DEF Extended
    <3>2. CASE OneCall(down[d], call[d])
      BY <2>1, <3>2 DEF Extended
    <3> QED BY <2>1, <3>1, <3>2 DEF StreamOK
  <2> QED BY <1>2, <2>2, SameIfAnswered
<1>7. Outcome(ret[c])' = Outcome(ret[c])
  BY <1>2 DEF Outcome
<1>8. CASE conn[c] = "open"
  <2>1. call' = call
    BY <1>8 DEF Serve
  <2>2. HasAnswer(down'[c]) /\ AnswerIn(down'[c]) = a
    BY <1>1, <1>8 DEF Served, Delivered
  <2>3. Phase(c)' = "done" /\ Promised(c)' = Outcome(a)
    BY <1>2, <1>3, <2>1, <2>2, MappedPrime
  <2>4. /\ PhaseFn[c] = "called" /\ PhaseFn' = [PhaseFn EXCEPT ![c] = "done"]
        /\ ResultFn' = [ResultFn EXCEPT ![c] = Outcome(a)]
        /\ GotFn' = GotFn
    BY <1>4, <1>6, <1>7, <2>3, OneChanged, Applied
  <2> QED BY <1>5, <2>1, <2>4 DEF C!Commit, PhaseFn, ResultFn, GotFn
<1>9. CASE conn[c] = "half"
  <2>1. call' = [call EXCEPT ![c] = NoCall] /\ call'[c] = NoCall
    BY <1>9 DEF Serve, IInv, TypeOK
  <2>2. down'[c] = down[c]
    BY <1>1, <1>9 DEF Served, Delivered
  <2>3. Phase(c)' = "none" /\ Promised(c)' = Promised(c)
    BY <1>3, <1>4, <2>1, <2>2, MappedPrime
  <2>4. /\ PhaseFn[c] = "called" /\ PhaseFn' = [PhaseFn EXCEPT ![c] = "none"]
        /\ ResultFn' = ResultFn /\ GotFn' = GotFn
    BY <1>4, <1>6, <1>7, <2>3, OneChanged, Applied
  <2> QED BY <1>5, <2>1, <2>4 DEF C!CommitForgotten, PhaseFn, ResultFn, GotFn
<1> QED BY <1>2, <1>8, <1>9

(* A save is a stutter: the map is in memory. *)
LEMMA SaveMaps ==
    ASSUME IInv, Save
    PROVE  UNCHANGED C!vars
<1>1. \A d \in Clients : Same(d)
  BY SameIfKept DEF Save, client
<1> QED BY <1>1, AllSame, MemKept DEF Save, client

(* The tree of a dead service stands for the empty map. *)
LEMMA EmptyMap == MapOf(EmptyTree) = [k \in Keys |-> None]
BY DEF MapOf, EmptyTree, Find

(* The death of the service loses the map and the calls in flight. *)
LEMMA DieMaps ==
    ASSUME IInv, Die
    PROVE  C!Crash
<1> DEFINE orphans == {c \in Clients : conn[c] = "half"}
           answered == {c \in Clients : Phase(c) = "done" /\ HasAnswer(down'[c])}
<1>1. Mem' = [k \in C!Keys |-> None]
  BY EmptyMap, MemPrimeIsMap, KeysOfConfig DEF Die
<1>2. call' = [c \in Clients |-> IF c \in orphans THEN NoCall ELSE call[c]]
  BY DEF Die
<1>3. ASSUME NEW c \in Clients
      PROVE  /\ Phase(c)' = IF c \in orphans \/ Phase(c) = "none" THEN "none"
                            ELSE IF c \in answered THEN "done" ELSE "lost"
             /\ Promised(c)' = IF c \in answered \ orphans THEN Promised(c) ELSE C!Refused
  <2>1. /\ call'[c] = IF conn[c] = "half" THEN NoCall ELSE call[c]
        /\ sent'[c] = FALSE
    BY DieFacts
  <2>2. PICK n \in Nat : n <= Len(down[c]) /\ down'[c] = SubSeq(down[c], 1, n)
    BY DieFacts
  <2>3. down[c] \in Seq(Frame) /\ ControlOK(c) /\ StreamOK(c)
    BY DEF IInv, TypeOK
  <2>4. HasAnswer(down'[c]) => HasAnswer(down[c]) /\ AnswerIn(down'[c]) = AnswerIn(down[c])
    <3>1. CASE Quiet(down[c])
      BY <2>2, <2>3, <3>1, PrefixFacts, QuietFacts
    <3>2. CASE OneCall(down[c], call[c])
      BY <2>2, <2>3, <3>2, PrefixFacts
    <3> QED BY <2>3, <3>1, <3>2 DEF StreamOK
  <2>5. HasAnswer(down[c]) => at[c] = "call" /\ ~sent[c] /\ call[c] # NoCall
    BY NoAnswerYet, Idle
  <2>6. conn[c] = "half" => ~HasAnswer(down[c])
    BY <2>3, NotAnswered DEF ControlOK
  <2>7. HasAnswer(down'[c]) => Phase(c) = "done"
    BY <2>4, <2>5, Mapped
  <2>8. Phase(c) = "none" => call[c] = NoCall
    BY Mapped
  <2>9. CASE HasAnswer(down'[c])
    <3>1. c \in answered \ orphans /\ call'[c] # NoCall
      BY <2>1, <2>4, <2>5, <2>6, <2>7, <2>9
    <3>2. Phase(c)' = "done" /\ Promised(c)' = Promised(c)
      BY <2>1, <2>4, <2>9, <3>1, Mapped, MappedPrime
    <3>3. c \notin orphans /\ Phase(c) # "none"
      BY <2>7, <2>9, <3>1
    <3> QED BY <3>1, <3>2, <3>3
  <2>10. CASE ~HasAnswer(down'[c])
    <3>1. c \notin answered /\ Promised(c)' = C!Refused
      BY <2>10, MappedPrime
    <3>2. CASE conn[c] = "half" \/ call[c] = NoCall
      <4>1. c \in orphans \/ Phase(c) = "none"
        BY <3>2, Mapped
      <4>2. Phase(c)' = "none"
        BY <2>1, <3>2, MappedPrime
      <4> QED BY <3>1, <4>1, <4>2
    <3>3. CASE conn[c] # "half" /\ call[c] # NoCall
      <4>1. c \notin orphans /\ Phase(c) # "none"
        BY <2>8, <3>3
      <4>2. Phase(c)' = "lost"
        BY <2>1, <2>10, <3>3, MappedPrime
      <4> QED BY <3>1, <4>1, <4>2
    <3> QED BY <3>2, <3>3
  <2> QED BY <2>9, <2>10
<1>4. \A c \in Clients : Outcome(ret[c])' = Outcome(ret[c])
  BY DEF Die, Outcome
<1>5. answered \in SUBSET {c \in Clients : PhaseFn[c] = "done"} /\ orphans \in SUBSET Clients
  BY Applied
<1> HIDE DEF orphans, answered
<1>6. PhaseFn' = [c \in Clients |->
                    IF c \in orphans \/ PhaseFn[c] = "none" THEN "none"
                    ELSE IF c \in answered THEN "done" ELSE "lost"]
  BY <1>3, Applied DEF PhaseFn
<1>7. ResultFn' = [c \in Clients |->
                    IF c \in answered \ orphans THEN ResultFn[c] ELSE C!Refused]
  BY <1>3, Applied DEF ResultFn
<1>8. GotFn' = GotFn
  BY <1>4 DEF GotFn
<1> QED BY <1>1, <1>2, <1>5, <1>6, <1>7, <1>8 DEF C!Crash, PhaseFn, ResultFn, GotFn

(* A restart is a stutter. *)
LEMMA StartMaps ==
    ASSUME IInv, Start
    PROVE  UNCHANGED C!vars
<1>1. \A d \in Clients : Same(d)
  BY SameIfKept DEF Start, client
<1>2. Mem' = Mem
  BY LoadFacts, EmptyMap, MemIsMap, MemPrimeIsMap DEF Start, IInv, ServiceOK
<1> QED BY <1>1, <1>2, AllSame DEF Start, client

(* Nothing changes for Config where nothing does. *)
LEMMA StutterMaps ==
    ASSUME IInv, UNCHANGED vars
    PROVE  UNCHANGED C!vars
<1>1. \A d \in Clients : Same(d)
  BY SameIfKept DEF vars, client
<1> QED BY <1>1, AllSame, MemKept DEF vars, service, client

(* The initial states map to initial states. *)
LEMMA InitMaps ==
    ASSUME Init
    PROVE  C!Init
<1>1. Mem = [k \in C!Keys |-> None]
  BY EmptyMap, MemIsMap, KeysOfConfig DEF Init
<1>2. ASSUME NEW c \in Clients
      PROVE  Phase(c) = "none" /\ Promised(c) = C!Refused /\ Outcome(ret[c]) = C!Refused
  <2>1. call[c] = NoCall /\ down[c] = <<>> /\ ret[c] = Failed
    BY DEF Init
  <2> QED BY <2>1, Mapped, NotAnswered, Refused
<1> QED BY <1>1, <1>2 DEF Init, C!Init

(***************************************************************************)
(* The calls of all the clients are atomic, for every number of clients,   *)
(* slots, frames and crashes.                                              *)
(***************************************************************************)
THEOREM FConfImplementsConfig == Spec => ImplementsConfig
<1>1. Init => C!Init
  BY InitMaps
<1>2. ASSUME IInv, [Next]_vars PROVE [C!Next]_(C!vars)
  <2>1. ASSUME NEW c \in Clients, Connect(c) \/ NextPass(c) PROVE C!Next
    BY <1>2, <2>1, ConnectMaps, NextPassMaps DEF C!Next
  <2>2. ASSUME NEW c \in Clients, NEW r \in Requests, Call(c, r) PROVE C!Next
    <3>1. r \in C!Calls
      BY ClientsAssumption, KeysOfConfig DEF Calls, C!Calls
    <3> QED BY <1>2, <2>2, <3>1, CallMaps DEF C!Next
  <2>3. ASSUME NEW c \in Clients, Receive(c) \/ ReceiveEof(c) PROVE [C!Next]_(C!vars)
    BY <1>2, <2>3, ReceiveMaps, ReceiveEofMaps DEF C!Next
  <2>4. ASSUME NEW c \in Clients, Exit(c) PROVE [C!Next]_(C!vars)
    BY <1>2, <2>4, ExitMaps DEF C!Next
  <2>5. ASSUME NEW c \in Clients, Serve(c) PROVE C!Next
    BY <1>2, <2>5, ServeMaps DEF C!Next
  <2>6. ASSUME NEW c \in Clients, Read(c) \/ ReadEof(c) \/ Accept(c) \/ Disconnect(c)
        PROVE  UNCHANGED C!vars
    BY <1>2, <2>6, ReadMaps, ReadEofMaps, AcceptMaps
  <2>7. ASSUME Save \/ Start \/ UNCHANGED vars PROVE UNCHANGED C!vars
    BY <1>2, <2>7, SaveMaps, StartMaps, StutterMaps
  <2>8. ASSUME Crash \/ CrashInSave PROVE C!Next
    BY <1>2, <2>8, DieMaps DEF Crash, CrashInSave, C!Next
  <2> QED BY <1>2, <2>1, <2>2, <2>3, <2>4, <2>5, <2>6, <2>7, <2>8 DEF Next
<1> QED BY <1>1, <1>2, Invariance, PTL DEF Spec, ImplementsConfig, C!Spec

(***************************************************************************)
(* The reason for the violation of SavedIsReloaded is not the instance: a  *)
(* start reads the files, and whatever was saved in them, no client finds  *)
(* a setting at its path, nor the root of one.                             *)
(***************************************************************************)
THEOREM NothingIsReloaded ==
    Spec => [][Start => Mem' = NoMap /\ \A f \in Files : ~Find(tree', <<f>>)]_vars
<1>1. IInv /\ [Next]_vars =>
        [Start => Mem' = NoMap /\ \A f \in Files : ~Find(tree', <<f>>)]_vars
  <2> SUFFICES ASSUME IInv, Start
               PROVE  Mem' = NoMap /\ \A f \in Files : ~Find(tree', <<f>>)
    OBVIOUS
  <2>1. DiskOK(disk) /\ tree' = Load(disk)
    BY DEF IInv, ServiceOK, Start
  <2> QED BY <2>1, LoadFacts, MemPrimeIsMap DEF NoMap
<1> QED BY <1>1, Invariance, PTL DEF Spec

=============================================================================
