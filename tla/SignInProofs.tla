---------------------------- MODULE SignInProofs ----------------------------
(***************************************************************************)
(* Proofs about sign-in: the mutex of the bridge protects its channels, a  *)
(* challenge is answered once, no token is left behind, and a page gets in *)
(* by the answer to its own challenge (OneSignIn).                         *)
(***************************************************************************)
EXTENDS SignIn, TLAPS

-----------------------------------------------------------------------------
(* Types.                                                                  *)

\* The initial state has the right types.
LEMMA TypeInit == Init => TypeOK
  BY SignInAssumption DEF Init, TypeOK

\* Every step keeps the types.
LEMMA TypeStep == TypeOK /\ [Next]_vars => TypeOK'
<1>. SUFFICES ASSUME TypeOK, [Next]_vars PROVE TypeOK'
  OBVIOUS
<1>. USE SignInAssumption
<1>1. ASSUME NEW c \in Challenge, serverInitiated(c)
      PROVE  TypeOK'
  BY <1>1 DEF TypeOK, serverInitiated, RegisterSession
<1>2. ASSUME NEW c \in Challenge, ExpireSession(c)
      PROVE  TypeOK'
  BY <1>2 DEF TypeOK, ExpireSession, MuFree
<1>3. ASSUME NEW s \in Call, RefuseCall(s)
      PROVE  TypeOK'
  BY <1>3 DEF TypeOK, RefuseCall
<1>4. ASSUME NEW s \in Call, BadSolution(s)
      PROVE  TypeOK'
  BY <1>4 DEF TypeOK, BadSolution
<1>5. ASSUME NEW s \in Call, GoodSolution(s)
      PROVE  TypeOK'
  BY <1>5 DEF TypeOK, GoodSolution
<1>6. ASSUME NEW s \in Call, sendAndClose(s)
      PROVE  TypeOK'
  BY <1>6 DEF TypeOK, sendAndClose, AfterSignal, MuFree
<1>7. ASSUME NEW s \in Call, NEW p \in Page, Hand(s, p)
      PROVE  TypeOK'
  BY <1>7 DEF TypeOK, Hand
<1>8. ASSUME NEW s \in Call, SendTimeout(s)
      PROVE  TypeOK'
  BY <1>8 DEF TypeOK, SendTimeout
<1>9. ASSUME NEW s \in Call, Finalize(s)
      PROVE  TypeOK'
  BY <1>9 DEF TypeOK, Finalize, AfterSignal
<1>10. ASSUME NEW s \in Call, RemoveToken(s)
      PROVE  TypeOK'
  BY <1>10 DEF TypeOK, RemoveToken
<1>11. ASSUME NEW m \in Member, InvalidateAllSolutions(m)
      PROVE  TypeOK'
  BY <1>11 DEF TypeOK, InvalidateAllSolutions
<1>12. ASSUME NEW p \in Page, eventSource(p)
      PROVE  TypeOK'
  BY <1>12 DEF TypeOK, eventSource, GetEventChannel
<1>13. ASSUME NEW p \in Page, ReadClosed(p)
      PROVE  TypeOK'
  BY <1>13 DEF TypeOK, ReadClosed
<1>14. ASSUME NEW p \in Page, CloseRequest(p)
      PROVE  TypeOK'
  BY <1>14 DEF TypeOK, CloseRequest
<1>15. ASSUME NEW p \in Page, finalizeCookie(p)
      PROVE  TypeOK'
  BY <1>15 DEF TypeOK, finalizeCookie
<1>16. ASSUME NEW p \in Page, Logout(p)
      PROVE  TypeOK'
  BY <1>16 DEF TypeOK, Logout
<1>17. ASSUME UNCHANGED vars
      PROVE  TypeOK'
  BY <1>17 DEF TypeOK, vars
<1>. QED
  BY <1>1, <1>2, <1>3, <1>4, <1>5, <1>6, <1>7, <1>8, <1>9, <1>10,
     <1>11, <1>12, <1>13, <1>14, <1>15, <1>16, <1>17
  DEF Next, CallStep, Over

\* The state of the bridge, the calls, the table and the pages keeps its
\* types, and the mutex is held only by a call that is signalling.
THEOREM TypeCorrect == Spec => []TypeOK
  BY TypeInit, TypeStep, PTL DEF Spec

-----------------------------------------------------------------------------
(***************************************************************************)
(* The mutex.  A call that is sending or closing is the one that holds it, *)
(* so there is one such call, and nobody else changes the map meanwhile.   *)
(* An entry of the map has an open channel: the channel is closed and the  *)
(* entry taken out in one critical section, and a challenge that had a     *)
(* session never gets another one.                                         *)
(***************************************************************************)
Locked ==
    /\ \A s \in Call : stage[s] \in {"sending", "close"} =>
           mu = s /\ ChallengeOf[s] \in sessions
    /\ sessions \cap closed = {}
    /\ closed \subseteq issued

\* Nobody holds the mutex at first.
LEMMA LockedInit == Init => Locked
  BY DEF Init, Locked

\* Every step keeps the mutex and the channels in order.
LEMMA LockedStep == TypeOK /\ Locked /\ [Next]_vars => Locked'
<1>. SUFFICES ASSUME TypeOK, Locked, [Next]_vars PROVE Locked'
  OBVIOUS
<1>. USE SignInAssumption
<1>1. ASSUME NEW c \in Challenge, serverInitiated(c)
      PROVE  Locked'
  BY <1>1 DEF TypeOK, Locked, serverInitiated, RegisterSession, MuFree
<1>2. ASSUME NEW c \in Challenge, ExpireSession(c)
      PROVE  Locked'
  BY <1>2 DEF TypeOK, Locked, ExpireSession, MuFree
<1>3. ASSUME NEW s \in Call, RefuseCall(s)
      PROVE  Locked'
  BY <1>3 DEF TypeOK, Locked, RefuseCall
<1>4. ASSUME NEW s \in Call, BadSolution(s)
      PROVE  Locked'
  BY <1>4 DEF TypeOK, Locked, BadSolution
<1>5. ASSUME NEW s \in Call, GoodSolution(s)
      PROVE  Locked'
  BY <1>5 DEF TypeOK, Locked, GoodSolution
<1>6. ASSUME NEW s \in Call, sendAndClose(s)
      PROVE  Locked'
  BY <1>6 DEF TypeOK, Locked, sendAndClose, AfterSignal, MuFree
<1>7. ASSUME NEW s \in Call, NEW p \in Page, Hand(s, p)
      PROVE  Locked'
  BY <1>7 DEF TypeOK, Locked, Hand
<1>8. ASSUME NEW s \in Call, SendTimeout(s)
      PROVE  Locked'
  BY <1>8 DEF TypeOK, Locked, SendTimeout
<1>9. ASSUME NEW s \in Call, Finalize(s)
      PROVE  Locked'
  BY <1>9 DEF TypeOK, Locked, Finalize, AfterSignal
<1>10. ASSUME NEW s \in Call, RemoveToken(s)
      PROVE  Locked'
  BY <1>10 DEF TypeOK, Locked, RemoveToken
<1>11. ASSUME NEW m \in Member, InvalidateAllSolutions(m)
      PROVE  Locked'
  BY <1>11 DEF TypeOK, Locked, InvalidateAllSolutions
<1>12. ASSUME NEW p \in Page, eventSource(p)
      PROVE  Locked'
  BY <1>12 DEF TypeOK, Locked, eventSource, GetEventChannel
<1>13. ASSUME NEW p \in Page, ReadClosed(p)
      PROVE  Locked'
  BY <1>13 DEF TypeOK, Locked, ReadClosed
<1>14. ASSUME NEW p \in Page, CloseRequest(p)
      PROVE  Locked'
  BY <1>14 DEF TypeOK, Locked, CloseRequest
<1>15. ASSUME NEW p \in Page, finalizeCookie(p)
      PROVE  Locked'
  BY <1>15 DEF TypeOK, Locked, finalizeCookie
<1>16. ASSUME NEW p \in Page, Logout(p)
      PROVE  Locked'
  BY <1>16 DEF TypeOK, Locked, Logout
<1>17. ASSUME UNCHANGED vars
      PROVE  Locked'
  BY <1>17 DEF TypeOK, Locked, vars
<1>. QED
  BY <1>1, <1>2, <1>3, <1>4, <1>5, <1>6, <1>7, <1>8, <1>9, <1>10,
     <1>11, <1>12, <1>13, <1>14, <1>15, <1>16, <1>17
  DEF Next, CallStep, Over

\* sendAndClose: no call sends on a closed channel or closes one twice.
THEOREM ChannelsOpen == Spec => []SendsOnOpenChannel
<1>1. TypeOK /\ Locked => SendsOnOpenChannel
  BY DEF TypeOK, Locked, SendsOnOpenChannel
<1>. QED
  BY <1>1, TypeCorrect, LockedInit, LockedStep, PTL DEF Spec

-----------------------------------------------------------------------------
(***************************************************************************)
(* Answers.  A call whose event was taken has yet to close its channel, or *)
(* its channel is closed; a page that was told something waits no more.    *)
(***************************************************************************)
Answered ==
    /\ \A s \in Call : told[s] # NoPage =>
           /\ stage[s] = "close" \/ ChallengeOf[s] \in closed
           /\ stage[s] \in {"close", "undo", "done"}
           /\ ChallengeOf[told[s]] = ChallengeOf[s]
           /\ page[told[s]] \notin {"new", "waiting"}
    /\ AnsweredOnce

\* Nobody was told anything at first.
LEMMA AnsweredInit == Init => Answered
  BY DEF Init, Answered, AnsweredOnce

\* Every step keeps the answers unique.
LEMMA AnsweredStep ==
    TypeOK /\ Locked /\ Answered /\ [Next]_vars => Answered'
<1>. SUFFICES ASSUME TypeOK, Locked, Answered, [Next]_vars PROVE Answered'
  OBVIOUS
<1>. USE SignInAssumption
<1>1. ASSUME NEW c \in Challenge, serverInitiated(c)
      PROVE  Answered'
  BY <1>1 DEF TypeOK, Answered, AnsweredOnce, serverInitiated, RegisterSession
<1>2. ASSUME NEW c \in Challenge, ExpireSession(c)
      PROVE  Answered'
  BY <1>2 DEF TypeOK, Answered, AnsweredOnce, ExpireSession
<1>3. ASSUME NEW s \in Call, RefuseCall(s)
      PROVE  Answered'
  BY <1>3 DEF TypeOK, Answered, AnsweredOnce, RefuseCall
<1>4. ASSUME NEW s \in Call, BadSolution(s)
      PROVE  Answered'
  BY <1>4 DEF TypeOK, Answered, AnsweredOnce, BadSolution
<1>5. ASSUME NEW s \in Call, GoodSolution(s)
      PROVE  Answered'
  BY <1>5 DEF TypeOK, Answered, AnsweredOnce, GoodSolution
<1>6. ASSUME NEW s \in Call, sendAndClose(s)
      PROVE  Answered'
  BY <1>6 DEF TypeOK, Answered, AnsweredOnce, sendAndClose, AfterSignal, MuFree
<1>7. ASSUME NEW s \in Call, NEW p \in Page, Hand(s, p)
      PROVE  Answered'
  BY <1>7 DEF TypeOK, Answered, AnsweredOnce, Hand, Locked
<1>8. ASSUME NEW s \in Call, SendTimeout(s)
      PROVE  Answered'
  BY <1>8 DEF TypeOK, Answered, AnsweredOnce, SendTimeout
<1>9. ASSUME NEW s \in Call, Finalize(s)
      PROVE  Answered'
  BY <1>9 DEF TypeOK, Answered, AnsweredOnce, Finalize, AfterSignal
<1>10. ASSUME NEW s \in Call, RemoveToken(s)
      PROVE  Answered'
  BY <1>10 DEF TypeOK, Answered, AnsweredOnce, RemoveToken
<1>11. ASSUME NEW m \in Member, InvalidateAllSolutions(m)
      PROVE  Answered'
  BY <1>11 DEF TypeOK, Answered, AnsweredOnce, InvalidateAllSolutions
<1>12. ASSUME NEW p \in Page, eventSource(p)
      PROVE  Answered'
  BY <1>12 DEF TypeOK, Answered, AnsweredOnce, eventSource, GetEventChannel
<1>13. ASSUME NEW p \in Page, ReadClosed(p)
      PROVE  Answered'
  BY <1>13 DEF TypeOK, Answered, AnsweredOnce, ReadClosed
<1>14. ASSUME NEW p \in Page, CloseRequest(p)
      PROVE  Answered'
  BY <1>14 DEF TypeOK, Answered, AnsweredOnce, CloseRequest
<1>15. ASSUME NEW p \in Page, finalizeCookie(p)
      PROVE  Answered'
  BY <1>15 DEF TypeOK, Answered, AnsweredOnce, finalizeCookie
<1>16. ASSUME NEW p \in Page, Logout(p)
      PROVE  Answered'
  BY <1>16 DEF TypeOK, Answered, AnsweredOnce, Logout
<1>17. ASSUME UNCHANGED vars
      PROVE  Answered'
  BY <1>17 DEF TypeOK, Answered, AnsweredOnce, vars
<1>. QED
  BY <1>1, <1>2, <1>3, <1>4, <1>5, <1>6, <1>7, <1>8, <1>9, <1>10,
     <1>11, <1>12, <1>13, <1>14, <1>15, <1>16, <1>17
  DEF Next, CallStep, Over

\* Of the calls that solve a challenge one is heard, by one page.
THEOREM OneAnswer == Spec => []AnsweredOnce
<1>1. Answered => AnsweredOnce
  BY DEF Answered
<1>. QED
  BY <1>1, TypeCorrect, LockedInit, LockedStep, AnsweredInit, AnsweredStep, PTL
     DEF Spec

-----------------------------------------------------------------------------
(***************************************************************************)
(* Tokens.  Only a call that worked has a token, and the way back of such  *)
(* a call leads past RemoveToken unless a page took its event.             *)
(***************************************************************************)
Accounted ==
    /\ TokensAccounted
    /\ \A s \in tokens : worked[s]

\* There are no tokens at first.
LEMMA AccountedInit == Init => Accounted
  BY DEF Init, Accounted, TokensAccounted

\* Every step accounts for the tokens.
LEMMA AccountedStep == TypeOK /\ Accounted /\ [Next]_vars => Accounted'
<1>. SUFFICES ASSUME TypeOK, Accounted, [Next]_vars PROVE Accounted'
  OBVIOUS
<1>. USE SignInAssumption
<1>1. ASSUME NEW c \in Challenge, serverInitiated(c)
      PROVE  Accounted'
  BY <1>1 DEF TypeOK, Accounted, TokensAccounted, serverInitiated, RegisterSession
<1>2. ASSUME NEW c \in Challenge, ExpireSession(c)
      PROVE  Accounted'
  BY <1>2 DEF TypeOK, Accounted, TokensAccounted, ExpireSession
<1>3. ASSUME NEW s \in Call, RefuseCall(s)
      PROVE  Accounted'
  BY <1>3 DEF TypeOK, Accounted, TokensAccounted, RefuseCall
<1>4. ASSUME NEW s \in Call, BadSolution(s)
      PROVE  Accounted'
  BY <1>4 DEF TypeOK, Accounted, TokensAccounted, BadSolution
<1>5. ASSUME NEW s \in Call, GoodSolution(s)
      PROVE  Accounted'
  BY <1>5 DEF TypeOK, Accounted, TokensAccounted, GoodSolution
<1>6. ASSUME NEW s \in Call, sendAndClose(s)
      PROVE  Accounted'
  BY <1>6 DEF TypeOK, Accounted, TokensAccounted, sendAndClose, AfterSignal
<1>7. ASSUME NEW s \in Call, NEW p \in Page, Hand(s, p)
      PROVE  Accounted'
  BY <1>7 DEF TypeOK, Accounted, TokensAccounted, Hand
<1>8. ASSUME NEW s \in Call, SendTimeout(s)
      PROVE  Accounted'
  BY <1>8 DEF TypeOK, Accounted, TokensAccounted, SendTimeout
<1>9. ASSUME NEW s \in Call, Finalize(s)
      PROVE  Accounted'
  BY <1>9 DEF TypeOK, Accounted, TokensAccounted, Finalize, AfterSignal
<1>10. ASSUME NEW s \in Call, RemoveToken(s)
      PROVE  Accounted'
  BY <1>10 DEF TypeOK, Accounted, TokensAccounted, RemoveToken
<1>11. ASSUME NEW m \in Member, InvalidateAllSolutions(m)
      PROVE  Accounted'
  BY <1>11 DEF TypeOK, Accounted, TokensAccounted, InvalidateAllSolutions
<1>12. ASSUME NEW p \in Page, eventSource(p)
      PROVE  Accounted'
  BY <1>12 DEF TypeOK, Accounted, TokensAccounted, eventSource, GetEventChannel
<1>13. ASSUME NEW p \in Page, ReadClosed(p)
      PROVE  Accounted'
  BY <1>13 DEF TypeOK, Accounted, TokensAccounted, ReadClosed
<1>14. ASSUME NEW p \in Page, CloseRequest(p)
      PROVE  Accounted'
  BY <1>14 DEF TypeOK, Accounted, TokensAccounted, CloseRequest
<1>15. ASSUME NEW p \in Page, finalizeCookie(p)
      PROVE  Accounted'
  BY <1>15 DEF TypeOK, Accounted, TokensAccounted, finalizeCookie
<1>16. ASSUME NEW p \in Page, Logout(p)
      PROVE  Accounted'
  BY <1>16 DEF TypeOK, Accounted, TokensAccounted, Logout
<1>17. ASSUME UNCHANGED vars
      PROVE  Accounted'
  BY <1>17 DEF TypeOK, Accounted, TokensAccounted, vars
<1>. QED
  BY <1>1, <1>2, <1>3, <1>4, <1>5, <1>6, <1>7, <1>8, <1>9, <1>10,
     <1>11, <1>12, <1>13, <1>14, <1>15, <1>16, <1>17
  DEF Next, CallStep, Over

\* When a call has returned, a token no page was told of is not in the table,
\* unless removing it failed.
THEOREM TokensAreAccounted == Spec => []TokensAccounted
<1>1. Accounted => TokensAccounted
  BY DEF Accounted
<1>. QED
  BY <1>1, TypeCorrect, AccountedInit, AccountedStep, PTL DEF Spec

-----------------------------------------------------------------------------
(***************************************************************************)
(* Sign-in, without its inner life (OneSignIn).  A page that was told of a *)
(* success, or is in, was told by a call, and a call that removes its      *)
(* token was heard by nobody.                                              *)
(***************************************************************************)
Heard ==
    /\ \A s \in Call : stage[s] = "undo" => told[s] = NoPage
    /\ \A p \in Page : page[p] \in {"success", "in"} => \E s \in Call : told[s] = p

\* Nobody was told of a success at first.
LEMMA HeardInit == Init => Heard
  BY DEF Init, Heard

\* Every step keeps it so.
LEMMA HeardStep == TypeOK /\ Answered /\ Heard /\ [Next]_vars => Heard'
<1>. SUFFICES ASSUME TypeOK, Answered, Heard, [Next]_vars PROVE Heard'
  OBVIOUS
<1>. USE SignInAssumption DEF TypeOK, Heard
<1>1. ASSUME NEW c \in Challenge, serverInitiated(c) \/ ExpireSession(c) PROVE Heard'
  BY <1>1 DEF serverInitiated, RegisterSession, ExpireSession
<1>2. ASSUME NEW s \in Call, RefuseCall(s) \/ BadSolution(s) \/ GoodSolution(s) PROVE Heard'
  BY <1>2 DEF RefuseCall, BadSolution, GoodSolution
<1>3. ASSUME NEW s \in Call, sendAndClose(s) \/ Finalize(s) PROVE Heard'
  BY <1>3 DEF sendAndClose, Finalize, AfterSignal
<1>4. ASSUME NEW s \in Call, NEW p \in Page, Hand(s, p) PROVE Heard'
  <2>1. told[s] = NoPage
    BY <1>4 DEF Hand, Answered
  <2>2. \A q \in Page : (\E u \in Call : told[u] = q) => \E u \in Call : told'[u] = q
    BY <1>4, <2>1 DEF Hand
  <2>3. told'[s] = p /\ \A q \in Page : q # p => page'[q] = page[q]
    BY <1>4 DEF Hand
  <2>4. \A u \in Call : stage'[u] = "undo" => u # s /\ told'[u] = told[u] /\ stage'[u] = stage[u]
    BY <1>4 DEF Hand
  <2>. QED
    BY <2>2, <2>3, <2>4
<1>5. ASSUME NEW s \in Call, SendTimeout(s) \/ RemoveToken(s) PROVE Heard'
  BY <1>5 DEF SendTimeout, RemoveToken
<1>6. ASSUME NEW m \in Member, InvalidateAllSolutions(m) PROVE Heard'
  BY <1>6 DEF InvalidateAllSolutions
<1>7. ASSUME NEW p \in Page, eventSource(p) \/ ReadClosed(p) \/ CloseRequest(p) PROVE Heard'
  BY <1>7 DEF eventSource, ReadClosed, CloseRequest
<1>8. ASSUME NEW p \in Page, finalizeCookie(p) \/ Logout(p) PROVE Heard'
  BY <1>8 DEF finalizeCookie, Logout
<1>9. CASE UNCHANGED vars
  BY <1>9 DEF vars
<1>. QED
  BY <1>1, <1>2, <1>3, <1>4, <1>5, <1>6, <1>7, <1>8, <1>9 DEF Next, CallStep, Over

\* The answer to a challenge is that of the call whose event a page took.
LEMMA AnswerIs ==
    AnsweredOnce =>
        \A s \in Call : told[s] # NoPage =>
            AnswerTo(ChallengeOf[s]) =
                [page |-> told[s], member |-> MemberOf[s], good |-> s \in tokens]
<1>. SUFFICES ASSUME AnsweredOnce, NEW s \in Call, told[s] # NoPage
              PROVE  AnswerTo(ChallengeOf[s]) =
                        [page |-> told[s], member |-> MemberOf[s], good |-> s \in tokens]
  OBVIOUS
<1>1. Answering(ChallengeOf[s]) = {s}
  BY DEF Answering, AnsweredOnce
<1>. QED
  BY <1>1 DEF AnswerTo

\* A challenge nobody was heard on is unanswered.
LEMMA NoAnswer ==
    \A c \in Challenge :
        (\A s \in Call : told[s] # NoPage => ChallengeOf[s] # c) => AnswerTo(c) = Unheard
  BY DEF AnswerTo, Answering

\* The call that a page was told by is the one whose token it has.
LEMMA TokenIs ==
    ASSUME TypeOK, Answered, NEW s \in Call, NEW p \in Page, told[s] = p
    PROVE  TokenOf(p) = s /\ ChallengeOf[s] = ChallengeOf[p]
  BY SignInAssumption DEF TypeOK, Answered, AnsweredOnce, TokenOf

\* An answer that is good no more is the same answer otherwise.
LEMMA WipedAnswer ==
    ASSUME NEW c \in Challenge, NEW s \in Call, NEW p,
           AnswerTo(c) = [page |-> p, member |-> MemberOf[s], good |-> s \in tokens]
    PROVE  [AnswerTo(c) EXCEPT !.good = FALSE] =
               [page |-> p, member |-> MemberOf[s], good |-> FALSE]
<1>. DEFINE a == AnswerTo(c)
            m == MemberOf[s]
            was == s \in tokens
            is == FALSE
<1>1. a = [page |-> p, member |-> m, good |-> was]
  OBVIOUS
<1>. HIDE DEF a, m, was, is
<1>2. [a EXCEPT !.good = is] = [page |-> p, member |-> m, good |-> is]
  BY <1>1
<1>. QED
  BY <1>2 DEF a, m, is

\* A step that leaves alone who was told, tells nobody who was not, and takes
\* no token of a call that was heard, changes no answer.
LEMMA SameAnswers ==
    ASSUME AnsweredOnce, told' = told,
           \A s \in Call : told[s] # NoPage => (s \in tokens <=> s \in tokens')
    PROVE  \A c \in Challenge : AnswerTo(c)' = AnswerTo(c)
<1>. SUFFICES ASSUME NEW c \in Challenge PROVE AnswerTo(c)' = AnswerTo(c)
  OBVIOUS
<1>1. Answering(c)' = Answering(c)
  BY DEF Answering
<1>2. CASE Answering(c) = {}
  BY <1>1, <1>2 DEF AnswerTo, Unheard
<1>3. CASE Answering(c) # {}
  <2>1. PICK s \in Call : told[s] # NoPage /\ ChallengeOf[s] = c
    BY <1>3 DEF Answering
  <2>2. Answering(c) = {s}
    BY <2>1 DEF Answering, AnsweredOnce
  <2>. QED
    BY <1>1, <2>1, <2>2 DEF AnswerTo
<1>. QED
  BY <1>2, <1>3

\* The event of a call is the answer to its challenge, which had none.
LEMMA HandAnswers ==
    ASSUME TypeOK, Locked, Answered, AnsweredOnce',
           NEW s \in Call, NEW p \in Page, Hand(s, p)
    PROVE  OneTime!Answer(p, MemberOf[s], s \in tokens)
<1>. USE SignInAssumption
<1>. DEFINE c == ChallengeOf[p]
<1>1. c = ChallengeOf[s] /\ c \in Challenge /\ s \in Call /\ told' = [told EXCEPT ![s] = p]
      /\ tokens' = tokens /\ told[s] = NoPage
  BY DEF Hand, Answered
<1>2. \A u \in Call : told[u] # NoPage => ChallengeOf[u] # c
  BY <1>1 DEF TypeOK, Hand, Locked, Answered
<1>3. AnswerTo(c) = Unheard
  BY <1>1, <1>2, NoAnswer
<1>4. told'[s] = p /\ p # NoPage
  BY <1>1 DEF TypeOK
<1>5. AnswerTo(c)' = [page |-> p, member |-> MemberOf[s], good |-> s \in tokens]
  <2>1. Answering(c)' = {s}
    BY <1>1, <1>4 DEF Answering, AnsweredOnce
  <2>. QED
    BY <1>1, <1>4, <2>1 DEF AnswerTo
<1>6. ASSUME NEW d \in Challenge, d # c PROVE AnswerTo(d)' = AnswerTo(d)
  <2>1. \A u \in Call : ChallengeOf[u] = d => told'[u] = told[u]
    BY <1>1, <1>6 DEF TypeOK
  <2>2. Answering(d)' = Answering(d)
    BY <2>1 DEF Answering
  <2>3. CASE Answering(d) = {}
    BY <2>2, <2>3 DEF AnswerTo, Unheard
  <2>4. CASE Answering(d) # {}
    <3>1. PICK u \in Call : told[u] # NoPage /\ ChallengeOf[u] = d
      BY <2>4 DEF Answering
    <3>2. Answering(d) = {u}
      BY <3>1 DEF Answering, AnsweredOnce, Answered
    <3>. QED
      BY <1>1, <2>1, <2>2, <3>1, <3>2 DEF AnswerTo
  <2>. QED
    BY <2>3, <2>4
<1>7. \A q \in Page : VisitOf(q)' = VisitOf(q)
  BY DEF TypeOK, Hand, VisitOf
<1>. QED
  BY <1>1, <1>3, <1>5, <1>6, <1>7 DEF OneTime!Answer

\* What the pages, calls and members do is a step of the sign-in, or none.
LEMMA SignInStep ==
    TypeOK /\ Locked /\ Answered /\ Answered' /\ Accounted /\ Heard /\ [Next]_vars
        => [OneTime!SignInNext]_OneTime!signInVars
<1>. SUFFICES ASSUME TypeOK, Locked, Answered, Answered', Accounted, Heard, [Next]_vars
              PROVE  [OneTime!SignInNext]_OneTime!signInVars
  OBVIOUS
<1>. USE SignInAssumption
<1>. DEFINE AnswersStay == \A c \in Challenge : AnswerTo(c)' = AnswerTo(c)
            VisitsStay == \A p \in Page : VisitOf(p)' = VisitOf(p)
<1>a. AnsweredOnce /\ AnsweredOnce'
  BY DEF Answered
<1>b. told' = told /\ tokens' = tokens => AnswersStay
  BY <1>a, SameAnswers
<1>c. page' = page => VisitsStay
  BY DEF VisitOf
<1>d. AnswersStay /\ VisitsStay => UNCHANGED OneTime!signInVars
  BY DEF OneTime!signInVars
<1>1. ASSUME NEW c \in Challenge, serverInitiated(c) \/ ExpireSession(c)
      PROVE  AnswersStay /\ VisitsStay
  BY <1>1, <1>b, <1>c DEF serverInitiated, RegisterSession, ExpireSession
<1>2. ASSUME NEW s \in Call, RefuseCall(s) \/ BadSolution(s)
      PROVE  AnswersStay /\ VisitsStay
  BY <1>2, <1>b, <1>c DEF RefuseCall, BadSolution
<1>3. ASSUME NEW s \in Call, GoodSolution(s)
      PROVE  AnswersStay /\ VisitsStay
  <2>1. told' = told /\ tokens' = tokens \union {s} /\ page' = page /\ told[s] = NoPage
    BY <1>3 DEF GoodSolution, Answered
  <2>. QED
    BY <2>1, <1>a, <1>c, SameAnswers
<1>4. ASSUME NEW s \in Call, sendAndClose(s) \/ SendTimeout(s) \/ Finalize(s)
      PROVE  AnswersStay /\ VisitsStay
  BY <1>4, <1>b, <1>c DEF sendAndClose, SendTimeout, Finalize
<1>5. ASSUME NEW s \in Call, RemoveToken(s)
      PROVE  AnswersStay /\ VisitsStay
  <2>1. told' = told /\ page' = page /\ told[s] = NoPage
    BY <1>5 DEF RemoveToken, Heard
  <2>2. tokens' = tokens \/ tokens' = tokens \ {s}
    BY <1>5 DEF RemoveToken
  <2>. QED
    BY <2>1, <2>2, <1>a, <1>c, SameAnswers
<1>6. ASSUME NEW s \in Call, NEW p \in Page, Hand(s, p)
      PROVE  OneTime!SignInNext
  <2>1. OneTime!Answer(p, MemberOf[s], s \in tokens)
    BY <1>6, <1>a, HandAnswers
  <2>2. MemberOf[s] \in Member /\ (s \in tokens) \in BOOLEAN
    OBVIOUS
  <2>. QED
    BY <2>1, <2>2, Zenon DEF OneTime!SignInNext
<1>7. ASSUME NEW m \in Member, InvalidateAllSolutions(m)
      PROVE  OneTime!SignInNext
  <2>1. told' = told /\ tokens' = {s \in tokens : MemberOf[s] # m} /\ page' = page
    BY <1>7 DEF InvalidateAllSolutions
  <2>2. \A c \in Challenge : Answering(c)' = Answering(c)
    BY <2>1 DEF Answering
  <2>3. ASSUME NEW c \in Challenge
        PROVE  AnswerTo(c)' = IF AnswerTo(c) # Unheard /\ AnswerTo(c).member = m
                              THEN [AnswerTo(c) EXCEPT !.good = FALSE] ELSE AnswerTo(c)
    <3>1. CASE Answering(c) = {}
      BY <2>2, <3>1 DEF AnswerTo, Unheard
    <3>2. CASE Answering(c) # {}
      <4>1. PICK s \in Call : told[s] # NoPage /\ ChallengeOf[s] = c
        BY <3>2 DEF Answering
      <4>2. AnswerTo(c) = [page |-> told[s], member |-> MemberOf[s], good |-> s \in tokens]
        BY <4>1, <1>a, AnswerIs
      <4>3. Answering(c) = {s}
        BY <4>1, <1>a DEF Answering, AnsweredOnce
      <4>4. AnswerTo(c)' = [page |-> told[s], member |-> MemberOf[s], good |-> s \in tokens']
        BY <2>1, <2>2, <4>3 DEF AnswerTo
      <4>5. AnswerTo(c) # Unheard
        BY <4>1, <4>2 DEF Unheard
      <4>6. CASE MemberOf[s] = m
        <5>1. (s \in tokens') = FALSE
          BY <4>6, <2>1
        <5>2. AnswerTo(c)' = [page |-> told[s], member |-> MemberOf[s], good |-> FALSE]
          BY <4>4, <5>1, Zenon
        <5>3. [AnswerTo(c) EXCEPT !.good = FALSE] =
                  [page |-> told[s], member |-> MemberOf[s], good |-> FALSE]
          BY <4>2, WipedAnswer
        <5>. QED
          BY <4>2, <4>5, <4>6, <5>2, <5>3
      <4>7. CASE MemberOf[s] # m
        <5>1. (s \in tokens') = (s \in tokens)
          BY <4>7, <2>1
        <5>2. AnswerTo(c)' = AnswerTo(c)
          BY <4>2, <4>4, <5>1, Zenon
        <5>. QED
          BY <4>2, <4>7, <5>2
      <4>. QED
        BY <4>6, <4>7
    <3>. QED
      BY <3>1, <3>2
  <2>4. OneTime!TakeBack(m)
    BY <2>1, <2>3, <1>c DEF OneTime!TakeBack
  <2>. QED
    BY <2>4 DEF OneTime!SignInNext
<1>8. ASSUME NEW p \in Page, eventSource(p) \/ ReadClosed(p) \/ CloseRequest(p)
      PROVE  OneTime!SignInNext \/ (AnswersStay /\ VisitsStay)
  <2>1. told' = told /\ tokens' = tokens /\ VisitOf(p) = "out"
    BY <1>8 DEF eventSource, ReadClosed, CloseRequest, VisitOf
  <2>2. \A q \in Page : q # p => VisitOf(q)' = VisitOf(q)
    BY <1>8 DEF eventSource, ReadClosed, CloseRequest, VisitOf, TypeOK
  <2>3. VisitOf(p)' \in {"out", "over"}
    BY <1>8 DEF eventSource, ReadClosed, CloseRequest, VisitOf, TypeOK, GetEventChannel
  <2>4. CASE VisitOf(p)' = "over"
    BY <2>1, <2>2, <2>4, <1>b DEF OneTime!SignInNext, OneTime!GoAway
  <2>. QED
    BY <2>1, <2>2, <2>3, <2>4, <1>b
<1>9. ASSUME NEW p \in Page, finalizeCookie(p)
      PROVE  OneTime!SignInNext
  <2>1. told' = told /\ tokens' = tokens /\ VisitOf(p) = "out" /\ page[p] = "success"
    BY <1>9 DEF finalizeCookie, VisitOf
  <2>2. \A q \in Page : q # p => VisitOf(q)' = VisitOf(q)
    BY <1>9 DEF finalizeCookie, VisitOf, TypeOK
  <2>3. PICK s \in Call : told[s] = p
    BY <2>1 DEF Heard
  <2>4. TokenOf(p) = s /\ ChallengeOf[s] = ChallengeOf[p] /\ told[s] # NoPage
    BY <2>3, TokenIs
  <2>5. AnswerTo(ChallengeOf[p]) =
            [page |-> p, member |-> MemberOf[s], good |-> s \in tokens]
    BY <2>3, <2>4, <1>a, AnswerIs
  <2>6. AnswerTo(ChallengeOf[p]) # Unheard
    BY <2>5 DEF Unheard
  <2>7. CASE s \in tokens
    <3>1. VisitOf(p)' = "in"
      BY <2>4, <2>7, <1>9 DEF finalizeCookie, VisitOf, TypeOK
    <3>2. AnswerTo(ChallengeOf[p]).page = p /\ AnswerTo(ChallengeOf[p]).good
      <4>1. (s \in tokens) = TRUE
        BY <2>7
      <4>2. AnswerTo(ChallengeOf[p]) = [page |-> p, member |-> MemberOf[s], good |-> TRUE]
        BY <2>5, <4>1, Zenon
      <4>. QED
        BY <4>2
    <3>3. OneTime!Enter(p)
      BY <2>1, <2>2, <2>6, <3>1, <3>2, <1>b DEF OneTime!Enter
    <3>. QED
      BY <3>3 DEF OneTime!SignInNext
  <2>8. CASE s \notin tokens
    <3>1. VisitOf(p)' = "over"
      BY <2>4, <2>8, <1>9 DEF finalizeCookie, VisitOf, TypeOK
    <3>. QED
      BY <2>1, <2>2, <3>1, <1>b DEF OneTime!SignInNext, OneTime!GoAway
  <2>. QED
    BY <2>7, <2>8
<1>10. ASSUME NEW p \in Page, Logout(p)
       PROVE  OneTime!SignInNext
  <2>1. told' = told /\ tokens' = tokens \ {TokenOf(p)} /\ page[p] = "in"
    BY <1>10 DEF Logout
  <2>2. VisitOf(p) = "in" /\ VisitOf(p)' = "over"
    BY <1>10 DEF Logout, VisitOf, TypeOK
  <2>3. \A q \in Page : q # p => VisitOf(q)' = VisitOf(q)
    BY <1>10 DEF Logout, VisitOf, TypeOK
  <2>4. PICK s \in Call : told[s] = p
    BY <2>1 DEF Heard
  <2>5. TokenOf(p) = s /\ ChallengeOf[s] = ChallengeOf[p] /\ told[s] # NoPage
    BY <2>4, TokenIs
  <2>6. AnswerTo(ChallengeOf[p]) =
            [page |-> p, member |-> MemberOf[s], good |-> s \in tokens]
    BY <2>4, <2>5, <1>a, AnswerIs
  <2>7. Answering(ChallengeOf[p]) = {s}
    BY <2>5, <1>a DEF Answering, AnsweredOnce
  <2>8. \A c \in Challenge : Answering(c)' = Answering(c)
    BY <2>1 DEF Answering
  <2>9. AnswerTo(ChallengeOf[p])' =
            [page |-> p, member |-> MemberOf[s], good |-> FALSE]
    <3>1. AnswerTo(ChallengeOf[p])' =
              [page |-> p, member |-> MemberOf[s], good |-> s \in tokens']
      BY <2>1, <2>4, <2>7, <2>8 DEF AnswerTo
    <3>2. (s \in tokens') = FALSE
      BY <2>1, <2>5
    <3>. QED
      BY <3>1, <3>2, Zenon
  <2>10. ASSUME NEW c \in Challenge, c # ChallengeOf[p] PROVE AnswerTo(c)' = AnswerTo(c)
    <3>1. CASE Answering(c) = {}
      BY <2>8, <3>1 DEF AnswerTo, Unheard
    <3>2. CASE Answering(c) # {}
      <4>1. PICK u \in Call : told[u] # NoPage /\ ChallengeOf[u] = c
        BY <3>2 DEF Answering
      <4>2. Answering(c) = {u} /\ u # s
        BY <4>1, <2>5, <2>10, <1>a DEF Answering, AnsweredOnce
      <4>. QED
        BY <2>1, <2>5, <2>8, <4>2 DEF AnswerTo
    <3>. QED
      BY <3>1, <3>2
  <2>11. OneTime!SignOut(p)
    <3>1. [AnswerTo(ChallengeOf[p]) EXCEPT !.good = FALSE] = AnswerTo(ChallengeOf[p])'
      <4>1. [AnswerTo(ChallengeOf[p]) EXCEPT !.good = FALSE] =
                [page |-> p, member |-> MemberOf[s], good |-> FALSE]
        BY <2>4, <2>6, WipedAnswer
      <4>. QED
        BY <2>9, <4>1
    <3>. QED
      BY <2>2, <2>3, <2>10, <3>1 DEF OneTime!SignOut
  <2>. QED
    BY <2>11 DEF OneTime!SignInNext
<1>11. CASE UNCHANGED vars
  BY <1>11, <1>b, <1>c, <1>d DEF vars
<1>. QED
  BY <1>d, <1>1, <1>2, <1>3, <1>4, <1>5, <1>6, <1>7, <1>8, <1>9, <1>10, <1>11
     DEF Next, CallStep, Over

\* The sign-in begins with no answers and nobody in.
LEMMA SignInBegins == Init => OneTime!SignInInit
<1>. SUFFICES ASSUME Init PROVE OneTime!SignInInit
  OBVIOUS
<1>1. \A c \in Challenge : AnswerTo(c) = Unheard
  BY SignInAssumption DEF Init, AnswerTo, Answering
<1>2. \A p \in Page : VisitOf(p) = "out"
  BY DEF Init, VisitOf
<1>. QED
  BY <1>1, <1>2 DEF OneTime!SignInInit

\* A page gets in by the one answer to its challenge, while that is good.
THEOREM ImplementsOneSignIn == Spec => SignsInOnce
  BY TypeCorrect, LockedInit, LockedStep, AnsweredInit, AnsweredStep,
     AccountedInit, AccountedStep, HeardInit, HeardStep, SignInBegins, SignInStep, PTL
     DEF Spec, SignsInOnce, OneTime!SignInSpec

=============================================================================
