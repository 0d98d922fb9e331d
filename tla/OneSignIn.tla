----------------------------- MODULE OneSignIn -----------------------------
(***************************************************************************)
(* What sign-in with SSB promises (web/handlers/auth, signinwithssb): a    *)
(* challenge is answered for one page, which opened with that challenge;   *)
(* only that page gets in, as the member who answered, and only as long as *)
(* the answer was not taken back; what was taken back stays so.            *)
(***************************************************************************)
CONSTANTS Challenge, Page, Member,
          ChallengeOf,   \* ChallengeOf[p]: the challenge page p was opened with
          Unanswered     \* nobody answered the challenge for a page

VARIABLES answer,        \* answer[c]: page, member, and whether it is good still
          visit          \* visit[p]: "out", "in", "over"

signInVars == <<answer, visit>>

SignInInit ==
    /\ answer = [c \in Challenge |-> Unanswered]
    /\ visit = [p \in Page |-> "out"]

\* A member answers the challenge of p, well or not.
Answer(p, m, good) ==
    /\ answer[ChallengeOf[p]] = Unanswered
    /\ answer' = [answer EXCEPT
                     ![ChallengeOf[p]] = [page |-> p, member |-> m, good |-> good]]
    /\ UNCHANGED visit

Enter(p) ==
    /\ visit[p] = "out"
    /\ answer[ChallengeOf[p]] # Unanswered
    /\ answer[ChallengeOf[p]].page = p
    /\ answer[ChallengeOf[p]].good
    /\ visit' = [visit EXCEPT ![p] = "in"]
    /\ UNCHANGED answer

GoAway(p) ==
    /\ visit[p] = "out"
    /\ visit' = [visit EXCEPT ![p] = "over"]
    /\ UNCHANGED answer

SignOut(p) ==
    /\ visit[p] = "in"
    /\ visit' = [visit EXCEPT ![p] = "over"]
    /\ answer' = [answer EXCEPT ![ChallengeOf[p]].good = FALSE]

\* A member takes back all of its answers.
TakeBack(m) ==
    /\ answer' = [c \in Challenge |->
                     IF answer[c] # Unanswered /\ answer[c].member = m
                     THEN [answer[c] EXCEPT !.good = FALSE] ELSE answer[c]]
    /\ UNCHANGED visit

SignInNext ==
    \/ \E p \in Page : \/ \E m \in Member, good \in BOOLEAN : Answer(p, m, good)
                       \/ Enter(p) \/ GoAway(p) \/ SignOut(p)
    \/ \E m \in Member : TakeBack(m)

SignInSpec == SignInInit /\ [][SignInNext]_signInVars
=============================================================================
