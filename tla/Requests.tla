------------------------------ MODULE Requests ------------------------------
(***************************************************************************)
(* The requests that use the database: the web pages of web/handlers and   *)
(* web/handlers/admin, the alias calls over muxrpc, and the decision about *)
(* a new connection.  Several run at once.  A handler makes one query at a *)
(* time; between two of them anything can happen, unless both belong to    *)
(* one transaction, and any query may fail.  What a handler writes to the  *)
(* browser is left out but for its outcome.                                *)
(***************************************************************************)
EXTENDS RoomDB

CONSTANTS
    Requests,     \* the requests of a behaviour
    ValidNames,   \* names that keep the rules for aliases
    Agenda        \* what is in the database at first, what is asked of it, and how
                  \* often the server may crash

VARIABLES
    form,       \* request -> what it asks for
    run,        \* request -> how far its handler got, and what it remembers
    seen,       \* the databases there have been (history)
    boot,       \* statements of cleanup to go before the server is up again
    crashes     \* how many crashes are still to come (bound)

vars == <<db, form, run, seen, boot, crashes>>

(* Handlers that anybody may call, and calls over muxrpc, which know the   *)
(* public key of the connection.                                           *)
Signing == {"login/alias", "login/cid"}
SignInPages == {"login", "finalizeCookie", "logout"} \cup Signing
Public == SignInPages \cup {"consume", "createOpenMode", "facade", "join-fallback", "landing",
                            "resolve", "set-language", "notice/list", "notice/show"}
OverMuxrpc == {"alias.register", "alias.revoke", "alias.list", "admission", "invalidate",
               "members.list", "metadata", "whoami", "ping"}
InDashboard == {"dashboard", "members/add", "members/change-role", "members/remove",
          "members/reset-link", "denied/add", "denied/remove", "invites/create",
          "invites/revoke", "invites/revoke/confirm", "settings/set-privacy",
          "settings/set-language", "aliases/revoke", "aliases/revoke/confirm",
          "notice/translation/add", "notice/save", "notice/edit", "notice/translation/draft",
          "members", "member", "members/remove/confirm", "denied", "denied/remove/confirm",
          "invites", "settings"}
(* insert-user is a program of its own, which uses the same database. *)
Ops == Public \cup OverMuxrpc \cup InDashboard
         \cup {"changePassword", "changePasswordForm", "insert-user"}

(* owner is the public key the cookies were handed out to, or the one of   *)
(* the connection.  password is the member id in the cookie of the         *)
(* fallback sign-in, token the one of the sign-in with SSB; 0 is none.     *)
(* feed is whom it is about; of a registration, who signed it.             *)
Form == [op: Ops, owner: Feeds, password: Nat, token: Nat, id: Nat, feed: Feeds,
         name: Names, role: Roles, mode: Modes, language: Languages,
         secret: Secrets, pin: Pins]

(* What there is at first fits together, and requests are such as the     *)
(* browser and muxrpc can carry.                                           *)
ASSUME AgendaAssumption ==
    \A a \in Agenda : Sound(a.db) /\ a.form \in [Requests -> Form] /\ a.crashes \in Nat

(* A cookie was handed out to its owner, by this database.                 *)
ASSUME CookiesAssumption ==
    \A a \in Agenda : \A f \in {a.form[i] : i \in Requests} :
        /\ f.password <= a.db.last["members"]
        /\ \A m \in FindMember(a.db, f.password) : m.feed = f.owner
        /\ f.token <= a.db.last["sessions"]
        /\ \A s \in SessionsWithToken(a.db, f.token) : \A m \in FindMember(a.db, s.member) :
               m.feed = f.owner

Ended == {"done", "refused", "failed", "panicked"}
Stages == Ended \cup {"arrived", "token", "member", "ready", "granted", "found",
                      "asked", "second", "open"}

(* who and role: the member the request acts as (0: nobody), as it was     *)
(* read.  row and of: the row a query found, and the member it belongs to. *)
(* client: the key of the member who asks, or is to solve a challenge.     *)
(* dirty: somebody else wrote since the transaction began.  blind: a query *)
(* of HasFeed failed.                                                      *)
Run == [at: Stages, who: Nat, role: Roles, row: Nat, of: Nat, client: SUBSET Feeds,
        dirty: BOOLEAN, blind: BOOLEAN]

(* A handler at some stage that remembers nothing. *)
Fresh(stage) == [at |-> stage, who |-> 0, role |-> "member", row |-> 0, of |-> 0,
                 client |-> {}, dirty |-> FALSE, blind |-> FALSE]

TypeOK ==
    /\ db \in Database
    /\ form \in [Requests -> Form]
    /\ run \in [Requests -> Run]
    /\ \A d \in seen : d \in Database
    /\ boot \in 0..3
    /\ crashes \in Nat

Init ==
    /\ \E a \in Agenda : db = a.db /\ form = a.form /\ crashes = a.crashes
    /\ run = [i \in Requests |->
                Fresh(IF form[i].op \in Public \cup OverMuxrpc \cup {"insert-user"}
                      THEN "ready" ELSE "arrived")]
    /\ seen = {db}
    /\ boot = 0

-----------------------------------------------------------------------------
(* The steps handlers are made of. *)

At(i, stage) == run[i].at = stage
Asks(i, op) == form[i].op = op

Forgets == {"refused", "failed"}
Moved(i, stage) == IF stage \in Forgets THEN Fresh(stage) ELSE [run[i] EXCEPT !.at = stage]

Goto(i, stage) == run' = [run EXCEPT ![i] = Moved(i, stage)] /\ UNCHANGED <<db, seen>>

(* Another page answers, or this one is refused. *)
Permit(i, ok) == At(i, "ready") /\ Goto(i, IF ok THEN "granted" ELSE "refused")

(* A query for one row, and the member it belongs to. *)
Find(i, stage, found, next) ==
    /\ At(i, stage)
    /\ \/ \E r \in found : run' = [run EXCEPT ![i].at = next, ![i].row = r.row, ![i].of = r.of]
       \/ found = {} /\ run' = [run EXCEPT ![i] = Fresh("failed")]
    /\ UNCHANGED <<db, seen>>

(* The second query of qm.Load: the row's member is gone when somebody     *)
(* deleted it in between, and the nil pointer is used all the same.        *)
LoadMemberOf(i, next) ==
    /\ At(i, "found")
    /\ Goto(i, IF LoadMember(db, run[i].of) = {} THEN "panicked" ELSE next)
LoadCreatorOf(i, next) ==
    /\ At(i, "found")
    /\ Goto(i, IF LoadCreatedByMember(db, run[i].of) = {} THEN "panicked" ELSE next)

(* The database is written, and the id of a new row is kept; the           *)
(* transactions that are open notice.                                      *)
WriteRow(i, stage, d, row) ==
    /\ db' = d
    /\ seen' = seen \cup {d}
    /\ run' = [j \in Requests |->
                  IF j = i THEN [run[j] EXCEPT !.at = stage, !.row = row, !.dirty = FALSE]
                  ELSE [run[j] EXCEPT !.dirty = @ \/ run[j].at = "open"]]

Write(i, stage, d) == WriteRow(i, stage, d, run[i].row)

(* One statement, which is a transaction by itself. *)
Exec(i, stage, method, next) ==
    /\ At(i, stage)
    /\ \/ method.may /\ Write(i, next, method.then)
       \/ ~method.may /\ Goto(i, "failed")

Begin(i, stage, method) ==
    /\ At(i, stage)
    /\ Goto(i, IF method.may THEN "open" ELSE "failed")

(* Mutant: the writes do not use the transaction. *)
CommitAnyway(i, method) == At(i, "open") /\ Write(i, "done", method.then)

(* A transaction whose reads are outdated does not commit. *)
Commit(i, method) == At(i, "open") /\ ~run[i].dirty /\ Write(i, "done", method.then)

Transact(i, stage, method) == Begin(i, stage, method) \/ Commit(i, method)

(* A row is looked up and then deleted by its id, outside a transaction. *)
LookUpAndDelete(i, stage, method) ==
    Begin(i, stage, method) \/ (At(i, "open") /\ Write(i, "done", method.then))

-----------------------------------------------------------------------------
(* Who is asking: the cookie of the fallback sign-in, then the one of the  *)
(* sign-in with SSB, which wins.  A member id or token nobody has, and a   *)
(* query that fails, leave the request to an anonymous visitor; in the     *)
(* case of the password without a look at the other cookie.                *)

Become(i, m, stage) ==
    run' = [run EXCEPT ![i].at = stage, ![i].who = m.id, ![i].role = m.role,
                       ![i].client = {m.feed}]

ReadPasswordCookie(i) ==
    /\ At(i, "arrived")
    /\ IF form[i].password = 0 THEN run' = [run EXCEPT ![i].at = "token"]
       ELSE \/ \E m \in GetByID(db, form[i].password) : Become(i, m, "token")
            \/ run' = [run EXCEPT ![i].at = "ready"]
    /\ UNCHANGED <<db, seen>>

ReadTokenCookie(i) ==
    /\ At(i, "token")
    /\ \/ \E member \in CheckToken(db, form[i].token) :
              run' = [run EXCEPT ![i].at = "member", ![i].of = member]
       \/ run' = [run EXCEPT ![i].at = "ready"]
    /\ UNCHANGED <<db, seen>>

ReadTokenMember(i) ==
    /\ At(i, "member")
    /\ \/ \E m \in GetByID(db, run[i].of) : Become(i, m, "ready")
       \/ run' = [run EXCEPT ![i].at = "ready"]
    /\ UNCHANGED <<db, seen>>

(* What a role may do under a mode.  The mode is read at the check, the    *)
(* role when the request came in.                                          *)
Elevated == {"moderator", "admin"}

AllowedActions(action, mode, role) ==
    CASE action = "invite" -> mode \in {"open", "community"} \/ role \in Elevated
      [] action \in {"change-denied-keys", "change-notice"} ->
            mode = "community" \/ role \in Elevated
      [] action = "remove-member" -> role \in Elevated

CheckAllowed(i, action) ==
    run[i].who # 0 /\ AllowedActions(action, GetPrivacyMode(db), run[i].role)

AuthenticateFromContext(i) == run[i].who # 0
IsAdmin(i) == run[i].who # 0 /\ run[i].role = "admin"

-----------------------------------------------------------------------------
(* The dashboard: members. *)

add(i) ==
    /\ Asks(i, "members/add")
    /\ \/ Permit(i, AuthenticateFromContext(i))
       \/ Exec(i, "granted", AddMember(db, form[i].feed, "member"), "done")

changeRole(i) ==
    /\ Asks(i, "members/change-role")
    /\ \/ Permit(i, IsAdmin(i))
       \/ Transact(i, "granted", SetRole(db, form[i].id, form[i].role))

remove(i) ==
    /\ Asks(i, "members/remove")
    /\ \/ Permit(i, CheckAllowed(i, "remove-member"))
       \/ LookUpAndDelete(i, "granted", RemoveID(db, form[i].id))

createPasswordResetToken(i) ==
    /\ Asks(i, "members/reset-link")
    /\ \/ Permit(i, IsAdmin(i))
       \/ Exec(i, "granted", CreateResetToken(db, run[i].who, form[i].id), "done")

(* Denied keys. *)

deny(i) ==
    /\ Asks(i, "denied/add")
    /\ \/ Permit(i, CheckAllowed(i, "change-denied-keys"))
       \/ Exec(i, "granted", AddDenied(db, form[i].feed), "done")

undeny(i) ==
    /\ Asks(i, "denied/remove")
    /\ \/ Permit(i, CheckAllowed(i, "change-denied-keys"))
       \/ LookUpAndDelete(i, "granted", RemoveDenied(db, form[i].id))

(* Invites.  A row that belongs to a member is described by both ids. *)

OfInvites(rows) == {[row |-> r.id, of |-> r.creator] : r \in rows}
OfAliases(rows) == {[row |-> r.id, of |-> r.member] : r \in rows}

createInvite(i) ==
    /\ Asks(i, "invites/create")
    /\ \/ Permit(i, CheckAllowed(i, "invite"))
       \/ Exec(i, "granted", CreateInvite(db, run[i].who), "done")

revokeInvite(i) ==
    /\ Asks(i, "invites/revoke")
    /\ \/ Permit(i, CheckAllowed(i, "invite"))
       \/ Transact(i, "granted", RevokeInvite(db, form[i].id))

revokeInviteConfirm(i) ==
    /\ Asks(i, "invites/revoke/confirm")
    /\ \/ Permit(i, AuthenticateFromContext(i))
       \/ Find(i, "granted", OfInvites(InviteByToken(db, form[i].id)), "found")
       \/ LoadCreatorOf(i, "done")

(* Settings. *)

setPrivacy(i) ==
    /\ Asks(i, "settings/set-privacy")
    /\ \/ Permit(i, IsAdmin(i))
       \/ Transact(i, "granted", SetPrivacyMode(db, form[i].mode))

setLanguage(i) ==
    /\ Asks(i, "settings/set-language")
    /\ \/ Permit(i, IsAdmin(i))
       \/ Transact(i, "granted", SetDefaultLanguage(db, form[i].language))

(* Aliases: Resolve, the check that it is one's own or that one is an      *)
(* administrator, and Revoke, which looks the alias up once more by its    *)
(* name and deletes the row it found.                                      *)

RevokeByName(i, stage) ==
    \/ Find(i, stage, OfAliases(AliasesNamed(db, form[i].name)), "open")
    \/ At(i, "open") /\ Write(i, "done", RevokeAlias(db, run[i].row).then)

(* Mutant: every member may revoke an alias. *)
RevokeAnyAlias(i) ==
    /\ Asks(i, "aliases/revoke")
    /\ \/ Permit(i, AuthenticateFromContext(i))
       \/ Find(i, "granted", OfAliases(AliasesNamed(db, form[i].name)), "found")
       \/ LoadMemberOf(i, "second")
       \/ RevokeByName(i, "second")

revokeAlias(i) ==
    /\ Asks(i, "aliases/revoke")
    /\ \/ Permit(i, AuthenticateFromContext(i))
       \/ Find(i, "granted", OfAliases(AliasesNamed(db, form[i].name)), "found")
       \/ LoadMemberOf(i, IF \/ \E m \in FindMember(db, run[i].of) : m.feed \in run[i].client
                             \/ IsAdmin(i)
                          THEN "second" ELSE "refused")
       \/ RevokeByName(i, "second")

revokeAliasConfirm(i) ==
    /\ Asks(i, "aliases/revoke/confirm")
    /\ \/ Permit(i, AuthenticateFromContext(i))
       \/ Find(i, "granted", OfAliases({a \in db.aliases : a.id = form[i].id}), "found")
       \/ LoadMemberOf(i, "done")

(* Notices: a translation is saved, and then pinned. *)

addTranslation(i) ==
    /\ Asks(i, "notice/translation/add")
    /\ \/ Permit(i, CheckAllowed(i, "change-notice"))
       \/ /\ At(i, "granted")
          /\ WriteRow(i, "second", SaveNew(db, form[i].language).then, NextId(db, "notices"))
       \/ Exec(i, "second", PinNotice(db, form[i].pin, run[i].row), "done")

saveNotice(i) ==
    /\ Asks(i, "notice/save")
    /\ \/ Permit(i, CheckAllowed(i, "change-notice"))
       \/ /\ form[i].id # 0
          /\ Exec(i, "granted", SaveNotice(db, form[i].id, form[i].language), "done")
       \/ form[i].id = 0 /\ Exec(i, "granted", SaveNew(db, form[i].language), "done")

-----------------------------------------------------------------------------
(* Pages that only show what is there: some name a row, which must exist.  *)

Show(i, ok, found) ==
    \/ Permit(i, ok)
    \/ At(i, "granted") /\ Goto(i, IF found THEN "done" ELSE "failed")

(* The list of the room, or none after ten seconds; the rest is counted. *)
overview(i) == Asks(i, "dashboard") /\ Show(i, AuthenticateFromContext(i), TRUE)
overviewMembers(i) == Asks(i, "members") /\ Show(i, AuthenticateFromContext(i), TRUE)
details(i) ==
    Asks(i, "member") /\ Show(i, AuthenticateFromContext(i), GetByID(db, form[i].id) # {})
removeConfirm(i) ==
    /\ Asks(i, "members/remove/confirm")
    /\ Show(i, AuthenticateFromContext(i), GetByID(db, form[i].id) # {})
overviewDenied(i) == Asks(i, "denied") /\ Show(i, AuthenticateFromContext(i), TRUE)
undenyConfirm(i) ==
    /\ Asks(i, "denied/remove/confirm")
    /\ Show(i, AuthenticateFromContext(i), GetDenied(db, form[i].id) # {})
(* A creator that is gone would be a nil pointer here, too. *)
overviewInvites(i) ==
    /\ Asks(i, "invites")
    /\ \/ Permit(i, AuthenticateFromContext(i))
       \/ /\ At(i, "granted")
          /\ Goto(i, IF \E e \in ListInvites(db) : e.creator = {} THEN "panicked" ELSE "done")
overviewSettings(i) == Asks(i, "settings") /\ Show(i, AuthenticateFromContext(i), TRUE)
edit(i) ==
    /\ Asks(i, "notice/edit")
    /\ Show(i, CheckAllowed(i, "change-notice"), GetNotice(db, form[i].id) # {})
draftTranslation(i) ==
    Asks(i, "notice/translation/draft") /\ Show(i, CheckAllowed(i, "change-notice"), TRUE)
changePasswordForm(i) ==
    /\ Asks(i, "changePasswordForm")
    /\ Show(i, run[i].who # 0 \/ form[i].id # 0, TRUE)
(* The cookie of the language is nobody's identity. *)
setCookieLanguage(i) == Asks(i, "set-language") /\ Show(i, TRUE, TRUE)
listNotices(i) == Asks(i, "notice/list") /\ Show(i, TRUE, TRUE)
showNotice(i) ==
    Asks(i, "notice/show") /\ Show(i, TRUE, GetNotice(db, form[i].id) # {})

-----------------------------------------------------------------------------
(* Pages for everybody. *)

landing(i) ==
    /\ Asks(i, "landing")
    /\ At(i, "ready")
    /\ Goto(i, IF Cardinality(PinnedIn(db, form[i].pin, form[i].language)) = 1
               THEN "done" ELSE "failed")

(* The pages about an invite: GetByToken reads the invite, then who made it. *)
GetByToken(i) ==
    \/ Find(i, "ready", OfInvites(InviteByToken(db, form[i].id)), "found")
    \/ LoadCreatorOf(i, "done")

facade(i) == Asks(i, "facade") /\ GetByToken(i)
presentFacadeFallback(i) == Asks(i, "join-fallback") /\ GetByToken(i)

(* HasFeed also says no when its query fails. *)
PassDenied(i, stage, feed, next) ==
    /\ At(i, stage)
    /\ \/ Goto(i, IF HasFeed(db, feed) THEN "refused" ELSE next)
       \/ run' = [run EXCEPT ![i].at = next, ![i].blind = TRUE] /\ UNCHANGED <<db, seen>>

(* Mutant: only the invite is checked. *)
consumeUnchecked(i) ==
    /\ Asks(i, "consume")
    /\ \/ At(i, "ready") /\ Goto(i, "granted")
       \/ Transact(i, "granted", Consume(db, form[i].id, form[i].feed))

consume(i) ==
    /\ Asks(i, "consume")
    /\ \/ PassDenied(i, "ready", form[i].feed, "granted")
       \/ Transact(i, "granted", Consume(db, form[i].id, form[i].feed))

(* The transaction reads the mode and some administrator, and inserts.     *)
OpenCreators(d) == {m \in Ids(d.members) : CreateOpenInvite(d, m).may}

createOpenMode(i) ==
    /\ Asks(i, "createOpenMode")
    /\ \/ Find(i, "ready", {[row |-> run[i].row, of |-> m] : m \in OpenCreators(db)}, "open")
       \/ Commit(i, CreateOpenInvite(db, run[i].of))

resolve(i) ==
    /\ Asks(i, "resolve")
    /\ \/ Permit(i, GetPrivacyMode(db) # "restricted")
       \/ Find(i, "granted", OfAliases(AliasesNamed(db, form[i].name)), "found")
       \/ LoadMemberOf(i, "done")

changePassword(i) ==
    /\ Asks(i, "changePassword")
    /\ \/ Permit(i, run[i].who = 0 \/ form[i].id = 0)
       \/ /\ form[i].id = 0
          /\ Transact(i, "granted", SetPassword(db, run[i].who, form[i].secret))
       \/ /\ form[i].id # 0
          /\ Transact(i, "granted", SetPasswordWithToken(db, form[i].id, form[i].secret))

-----------------------------------------------------------------------------
(* Sign-in. *)

(* With a password: who the login is, and then that member's password. *)
login(i) ==
    /\ Asks(i, "login")
    /\ \/ Find(i, "ready", {[row |-> 0, of |-> m] : m \in LoginOf(db, form[i].name, form[i].feed)},
               "second")
       \/ /\ At(i, "second")
          /\ run' = IF PasswordFits(db, run[i].of, form[i].secret)
                    THEN [run EXCEPT ![i].at = "done", ![i].who = run[i].of]
                    ELSE [run EXCEPT ![i] = Fresh("refused")]
          /\ UNCHANGED <<db, seen>>

(* DecideMethod: the client is the one of the address, or the owner of the *)
(* alias in it; an alias nobody has leads to the other way to sign in.     *)
DecideMethod(i) ==
    \/ /\ Asks(i, "login/cid") /\ At(i, "ready")
       /\ run' = IF GetByFeed(db, form[i].owner) # {}
                 THEN [run EXCEPT ![i].at = "second", ![i].client = {form[i].owner}]
                 ELSE [run EXCEPT ![i] = Fresh("refused")]
       /\ UNCHANGED <<db, seen>>
    \/ Asks(i, "login/alias") /\ Find(i, "ready", OfAliases(AliasesNamed(db, form[i].name)), "found")
    \/ /\ Asks(i, "login/alias") /\ At(i, "found")
       /\ run' = [run EXCEPT ![i].client = {m.feed : m \in FindMember(db, run[i].of)},
                             ![i].at = IF FindMember(db, run[i].of) = {} THEN "panicked" ELSE "second"]
       /\ UNCHANGED <<db, seen>>

(* clientInitiated: the member is looked up, its client is asked for a     *)
(* solution, for a minute, and then a token is made for the member found.  *)
clientInitiated(i) ==
    /\ form[i].op \in Signing
    /\ \/ Find(i, "second", {[row |-> 0, of |-> m.id] : m \in {n \in db.members : n.feed \in run[i].client}},
               "asked")
       \/ At(i, "asked") /\ Goto(i, "granted")
       \/ Transact(i, "granted", CreateToken(db, run[i].of))

finalizeCookie(i) ==
    /\ Asks(i, "finalizeCookie")
    /\ At(i, "ready")
    /\ Goto(i, IF CheckToken(db, form[i].token) # {} THEN "done" ELSE "refused")

Logout(i) ==
    /\ Asks(i, "logout")
    /\ Exec(i, "ready", RemoveToken(db, form[i].token), "done")

(* Over muxrpc: all tokens of the peer's member are wiped. *)
invalidateAllSolutions(i) ==
    /\ Asks(i, "invalidate")
    /\ \/ Find(i, "ready", {[row |-> 0, of |-> m.id] : m \in GetByFeed(db, form[i].owner)},
               "second")
       \/ Exec(i, "second", WipeTokens(db, run[i].of), "done")

-----------------------------------------------------------------------------
(* Aliases over muxrpc, and new connections. *)

IsValid(name) == name \in ValidNames

(* The registration is signed by whose connection it comes over. *)
Verify(i) == form[i].feed = form[i].owner

RegisterCall(i) ==
    /\ Asks(i, "alias.register")
    /\ \/ Permit(i, IsValid(form[i].name) /\ Verify(i))
       \/ Transact(i, "granted", Register(db, form[i].name, form[i].owner))

RevokeCall(i) ==
    /\ Asks(i, "alias.revoke")
    /\ \/ Find(i, "ready", OfAliases(AliasesNamed(db, form[i].name)), "found")
       \/ LoadMemberOf(i, IF \E m \in FindMember(db, run[i].of) : m.feed = form[i].owner
                          THEN "second" ELSE "refused")
       \/ RevokeByName(i, "second")

(* All aliases are read, and then their members; one entry stands for them. *)
ListAliases(i) ==
    \/ Find(i, "ready", OfAliases(db.aliases), "found")
    \/ db.aliases = {} /\ At(i, "ready") /\ Goto(i, "done")
    \/ LoadMemberOf(i, "done")
ListCall(i) == Asks(i, "alias.list") /\ ListAliases(i)

(* The members are listed for members, and in an open room for everybody.  *)
members(i) ==
    /\ Asks(i, "members.list")
    /\ \/ /\ At(i, "ready")
          /\ Goto(i, IF GetPrivacyMode(db) = "open" THEN "granted" ELSE "asked")
       \/ /\ At(i, "asked")
          /\ Goto(i, IF GetByFeed(db, form[i].owner) # {} THEN "granted" ELSE "refused")
       \/ At(i, "granted") /\ Goto(i, "done")

metadata(i) == Asks(i, "metadata") /\ Show(i, TRUE, TRUE)
whoami(i) == Asks(i, "whoami") /\ Show(i, TRUE, TRUE)

(* Every ping is answered, until the peer ends the stream. *)
actualPingPong(i) == At(i, "granted") /\ Goto(i, "done")
Ping(i) == Asks(i, "ping") /\ (Permit(i, TRUE) \/ actualPingPong(i))

(* mkHandler: the mode, in a restricted room the membership, and then the  *)
(* denied keys, each by a query of its own.                                *)
mkHandler(i) ==
    /\ Asks(i, "admission")
    /\ \/ /\ At(i, "ready")
          /\ Goto(i, IF GetPrivacyMode(db) = "restricted" THEN "asked" ELSE "granted")
       \/ /\ At(i, "asked")
          /\ Goto(i, IF GetByFeed(db, form[i].owner) # {} THEN "granted" ELSE "refused")
       \/ PassDenied(i, "granted", form[i].owner, "done")

-----------------------------------------------------------------------------
(* The program insert-user: it opens the database, which cleans it up, adds *)
(* a member and sets its password.  It may be stopped between these.       *)

insertUser(i) ==
    /\ Asks(i, "insert-user")
    /\ \/ At(i, "ready") /\ Write(i, "asked", DeleteOldSessions(db))
       \/ At(i, "asked") /\ Write(i, "found", DeleteUsedInvites(db))
       \/ At(i, "found") /\ Write(i, "granted", DeleteUsedResets(db))
       \/ LET method == AddMember(db, form[i].feed, form[i].role) IN
          /\ At(i, "granted")
          /\ IF method.may THEN WriteRow(i, "second", method.then, NextId(db, "members"))
                            ELSE Goto(i, "failed")
       \/ Transact(i, "second", SetPassword(db, run[i].row, form[i].secret))

-----------------------------------------------------------------------------
(* A query, or the client that is asked, fails. *)
Fail(i) ==
    /\ run[i].at \in {"ready", "granted", "found", "asked", "second", "open"}
    /\ Goto(i, "failed")

(* Check looks at the member it read although the query failed. *)
CheckPanics(i) == Asks(i, "login") /\ At(i, "ready") /\ Goto(i, "panicked")

Authenticate(i) == ReadPasswordCookie(i) \/ ReadTokenCookie(i) \/ ReadTokenMember(i)

Dashboard(i) ==
    \/ add(i) \/ changeRole(i) \/ remove(i) \/ createPasswordResetToken(i)
    \/ deny(i) \/ undeny(i)
    \/ createInvite(i) \/ revokeInvite(i) \/ revokeInviteConfirm(i)
    \/ setPrivacy(i) \/ setLanguage(i)
    \/ revokeAlias(i) \/ revokeAliasConfirm(i)
    \/ addTranslation(i) \/ saveNotice(i)

ReadOnly(i) ==
    \/ overview(i) \/ setCookieLanguage(i)
    \/ overviewMembers(i) \/ details(i) \/ removeConfirm(i)
    \/ overviewDenied(i) \/ undenyConfirm(i)
    \/ overviewInvites(i) \/ overviewSettings(i)
    \/ edit(i) \/ draftTranslation(i) \/ listNotices(i) \/ showNotice(i)
    \/ changePasswordForm(i)

Pages(i) ==
    \/ landing(i) \/ facade(i) \/ presentFacadeFallback(i) \/ consume(i) \/ createOpenMode(i)
    \/ resolve(i) \/ changePassword(i)
    \/ login(i) \/ DecideMethod(i) \/ clientInitiated(i) \/ finalizeCookie(i) \/ Logout(i)

Calls(i) ==
    \/ RegisterCall(i) \/ RevokeCall(i) \/ ListCall(i) \/ invalidateAllSolutions(i)
    \/ mkHandler(i) \/ members(i) \/ metadata(i) \/ whoami(i) \/ Ping(i)

(* Over HTTP a panic ends the request, over muxrpc it ends the server. *)
Up == boot = 0 /\ ~\E i \in Requests : At(i, "panicked") /\ form[i].op \in OverMuxrpc

Handle(i) ==
    /\ Up /\ ~Asks(i, "insert-user")
    /\ \/ Authenticate(i) \/ Dashboard(i) \/ ReadOnly(i) \/ Pages(i) \/ Calls(i)
       \/ CheckPanics(i) \/ Fail(i)
    /\ UNCHANGED <<form, boot, crashes>>

(* Another process, which does not need the server. *)
Command(i) ==
    /\ Asks(i, "insert-user")
    /\ insertUser(i) \/ Fail(i)
    /\ UNCHANGED <<form, boot, crashes>>

-----------------------------------------------------------------------------
(* Time passes for a token. *)
Age ==
    /\ \E s \in db.sessions : s.age # "old" /\ db' = Older(db, s.id)
    /\ UNCHANGED <<form, run, seen, boot, crashes>>

Cleaned(d) ==
    /\ db' = d
    /\ run' = [j \in Requests |-> [run[j] EXCEPT !.dirty = @ \/ run[j].at = "open"]]
    /\ seen' = seen \cup {d}

(* Every five days, in a transaction of its own. *)
Tick ==
    /\ Up
    /\ CleanUp(db) # db
    /\ Cleaned(CleanUp(db))
    /\ UNCHANGED <<form, boot, crashes>>

(* The server stops at any moment and is started again: what had not been  *)
(* committed is undone.  Open cleans up before anybody is served, one      *)
(* statement after the other.                                              *)
Crash ==
    /\ boot = 0 /\ crashes > 0
    /\ run' = [i \in Requests |-> IF run[i].at \in Ended \/ Asks(i, "insert-user") THEN run[i]
                                  ELSE Fresh("failed")]
    /\ boot' = 3
    /\ crashes' = crashes - 1
    /\ UNCHANGED <<db, form, seen>>

Open ==
    /\ boot > 0
    /\ Cleaned(CASE boot = 3 -> DeleteOldSessions(db)
                 [] boot = 2 -> DeleteUsedInvites(db)
                 [] boot = 1 -> DeleteUsedResets(db))
    /\ boot' = boot - 1
    /\ UNCHANGED <<form, crashes>>

Next == (\E i \in Requests : Handle(i) \/ Command(i)) \/ Age \/ Tick \/ Crash \/ Open

(* The ticker of Open runs for ever, and Open itself finishes. *)
Spec == Init /\ [][Next]_vars /\ WF_vars(Tick) /\ WF_vars(Open)

-----------------------------------------------------------------------------
Done(i, op) == Asks(i, op) /\ At(i, "done")

(* Taken apart into queries, with failures, crashes and other requests in  *)
(* between, the services still do what RoomDB says, each in one step:      *)
(* transact isolates a method's reads from everybody else's writes.        *)
DatabaseSteps == DBSpec

(* A cookie acts as the member it was handed out to, or as nobody: the     *)
(* member may have been removed and others added since, but an id or a     *)
(* token never comes to mean somebody else.  The same holds for the member *)
(* whose client is asked to sign in: it is who is signed in then.          *)
ActsAsItself ==
    \A i \in Requests : \A d \in seen :
        /\ run[i].who # 0 /\ ~Asks(i, "login") =>
              \A m \in FindMember(d, run[i].who) : m.feed = form[i].owner
        /\ form[i].op \in Signing /\ run[i].at \in {"asked", "granted", "open", "done"} =>
              \A m \in FindMember(d, run[i].of) : m.feed \in run[i].client

(* An invite lets in one request, and a reset link sets one password, even *)
(* when two use it at the same time (Consume, SetPasswordWithToken).       *)
TokensUsedOnce ==
    \A i, j \in Requests :
        i # j /\ form[i].id = form[j].id /\ form[i].id # 0 =>
            /\ ~(Done(i, "consume") /\ Done(j, "consume"))
            /\ ~(Done(i, "changePassword") /\ Done(j, "changePassword"))

(* Changing roles never leaves the room without an administrator, though   *)
(* each administrator may change the other's at the same time (SetRole).   *)
RoleChangeKeepsAdmin ==
    [][ MembersWithRole(db, "admin") # {} /\ MembersWithRole(db', "admin") = {}
            => \E m \in db.members : FindMember(db', m.id) = {} ]_vars

(* Nobody joins or connects whose key was denied all the while, unless a   *)
(* query of HasFeed failed; and a connection to a room that was restricted *)
(* all the while is a member's, as is the list of the members of a room    *)
(* that was not open (consume, mkHandler, members).                        *)
AdmissionJustified ==
    \A i \in Requests :
        /\ Done(i, "consume") /\ ~run[i].blind => \E d \in seen : ~HasFeed(d, form[i].feed)
        /\ Done(i, "admission") =>
              /\ run[i].blind \/ \E d \in seen : ~HasFeed(d, form[i].owner)
              /\ \E d \in seen : \/ GetPrivacyMode(d) # "restricted"
                                 \/ GetByFeed(d, form[i].owner) # {}
        /\ Done(i, "members.list") =>
              \E d \in seen : GetPrivacyMode(d) = "open" \/ GetByFeed(d, form[i].owner) # {}

(* An alias goes with its member, or because a request revoked the name    *)
(* whose sender owned that name at some time, or was an administrator.     *)
(* More is not so: the name may have changed hands between the check and   *)
(* the deletion (aliases.go revoke, handler.go Revoke).                    *)
AliasRevokedByOwner ==
    [][ \A a \in db.aliases \ db'.aliases :
          \/ FindMember(db', a.member) = {}
          \/ \E i \in Requests :
                /\ form[i].op \in {"aliases/revoke", "alias.revoke"}
                /\ form[i].name = a.name /\ run'[i].at = "done"
                /\ \/ run[i].role = "admin" /\ run[i].who # 0
                   \/ \E d \in seen : \E b \in AliasesNamed(d, a.name) :
                         b.signer = form[i].owner ]_vars

(* A password is set by the member it belongs to, by whoever holds a reset *)
(* link that was made for that member (changePassword), or by insert-user  *)
(* for the member it has added, and none other that got its id since.      *)
PasswordSetByOwner ==
    [][ \A p \in db'.passwords \ db.passwords :
          \E i \in Requests :
             /\ form[i].op \in {"changePassword", "insert-user"} /\ run'[i].at = "done"
             /\ \/ Asks(i, "insert-user") /\ \E m \in FindMember(db, p.member) : m.feed = form[i].feed
                \/ form[i].id = 0 /\ \E m \in FindMember(db, p.member) : m.feed = form[i].owner
                \/ \E t \in ActiveResets(db) : t.id = form[i].id /\ t.member = p.member ]_vars

(* Died: a call over muxrpc panicked, and the server with it. *)
Died == \E i \in Requests : At(i, "panicked") /\ form[i].op \in OverMuxrpc

(* A sign-in token from before yesterday is deleted at last, by the ticker *)
(* or when the server is started again; CheckToken does not do it.         *)
OldTokensGo ==
    \A id \in 1..2 :
        (\E s \in SessionsWithToken(db, id) : s.age = "old")
            ~> (SessionsWithToken(db, id) = {} \/ Died)

(* What the comments in the code promise and the code does not.            *)

(* interface.go says a room without an administrator is crippled, and that *)
(* the last one must not go; RemoveID does not look.                       *)
NotCrippled == MembersWithRole(db, "admin") # {}

(* Resolve returns all the relevant information for that alias or an error *)
(* if it doesn't exist, says aliases.go; a panic is neither.               *)
ResolveReturns ==
    \A i \in Requests :
        form[i].op \in {"resolve", "login/alias", "aliases/revoke", "alias.revoke"} => ~At(i, "panicked")
=============================================================================
