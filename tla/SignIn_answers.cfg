SPECIFICATION FairSpec
CONSTANTS
    c1 = c1
    c2 = c2
    alf = alf
    bre = bre
    sol1 = sol1
    sol2 = sol2
    page1 = page1
    page2 = page2
    page3 = page3
    NoPage = NoPage
    Free = Free
    Challenge = {c1, c2}
    Call = {sol1, sol2}
    Page = {page1, page2, page3}
    Member = {alf, bre}
    ChallengeOf <- MCChallengeOf
    MemberOf <- MCMemberOf
INVARIANTS
    TypeOK
    SendsOnOpenChannel
    AnsweredOnce
    TokensAccounted
PROPERTIES
    SignsInOnce
    SolutionsAnswered
    ListenersReleased
