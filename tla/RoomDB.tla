------------------------------- MODULE RoomDB -------------------------------
(***************************************************************************)
(* What the database promises its users: the services of package           *)
(* roomdb/sqlite, each as one step on the whole database.  A method is an  *)
(* operator that takes the database and the arguments and yields a record: *)
(* whether the method may succeed there, and the database it leaves.       *)
(* Requests takes the same methods apart into the queries they make.       *)
(***************************************************************************)
EXTENDS Tables

VARIABLE db

(* Methods that only read: what they find. *)

GetByID(d, id) == FindMember(d, id)
GetByFeed(d, feed) == MembersWithFeed(d, feed)
HasFeed(d, feed) == DeniedWithFeed(d, feed) # {}
GetPrivacyMode(d) == FindConfig(d).mode
GetDenied(d, id) == FindDeniedKey(d, id)
GetNotice(d, id) == FindNotice(d, id)
InviteByToken(d, id) == {i \in ActiveInvites(d) : i.id = id}

(* Both queries of this one belong to a transaction. *)
ListInvites(d) ==
    {[id |-> i.id, creator |-> LoadCreatedByMember(d, i.creator)] : i \in ActiveInvites(d)}

(* CheckToken: a token older than the timeout is deleted, but the method   *)
(* returns an error from the same transaction, which undoes the deletion.  *)
CheckToken(d, id) ==
    {s.member : s \in {t \in SessionsWithToken(d, id) : t.age = "young"}}

(* Check: the login is an alias if there is one of that name, or else a    *)
(* public key.                                                             *)
LoginOf(d, name, feed) ==
    IF AliasesNamed(d, name) # {} THEN {a.member : a \in AliasesNamed(d, name)}
                                  ELSE {m.id : m \in MembersWithFeed(d, feed)}
PasswordFits(d, member, secret) == \E p \in PasswordOf(d, member) : p.secret = secret

(* Get: the one notice in that language. *)
PinnedIn(d, pin, language) == {n \in LoadNotices(d, pin) : n.language = language}

-----------------------------------------------------------------------------
(* Members. *)

AddMember(d, feed, role) ==
    [may |-> MembersWithFeed(d, feed) = {}, then |-> InsertMember(d, feed, role)]

RemoveID(d, id) == [may |-> FindMember(d, id) # {}, then |-> DeleteMember(d, id)]

(* Mutant: the member itself is counted among the administrators. *)
SetRoleCountsAll(d, id, role) ==
    [may |-> FindMember(d, id) # {} /\ MembersWithRole(d, "admin") # {},
     then |-> UpdateMember(d, id, role)]

SetRole(d, id, role) ==
    [may |-> /\ FindMember(d, id) # {}
             /\ \E m \in MembersWithRole(d, "admin") : m.id # id,
     then |-> UpdateMember(d, id, role)]

(* Invites.  Creator 0 stands for -1: somebody on the open web, for whom   *)
(* the invite is put down to some administrator.                           *)

CreateInvite(d, creator) ==
    [may |-> FindMember(d, creator) # {}, then |-> InsertInvite(d, creator)]

CreateOpenInvite(d, creator) ==
    [may |-> /\ GetPrivacyMode(d) = "open"
             /\ creator \in {m.id : m \in MembersWithRole(d, "admin")},
     then |-> InsertInvite(d, creator)]

(* Mutant: the invite stays active. *)
ConsumeKeeps(d, id, feed) ==
    [may |-> InviteByToken(d, id) # {},
     then |-> IF MembersWithFeed(d, feed) = {} THEN InsertMember(d, feed, "member") ELSE d]

(* The invite is spent on somebody who is a member already, too. *)
Consume(d, id, feed) ==
    [may |-> InviteByToken(d, id) # {},
     then |-> UpdateInvite(IF MembersWithFeed(d, feed) = {}
                           THEN InsertMember(d, feed, "member") ELSE d, id, "used")]

RevokeInvite(d, id) ==
    [may |-> InviteByToken(d, id) # {}, then |-> UpdateInvite(d, id, "used")]

(* Aliases. *)

Register(d, name, feed) ==
    LET may == MembersWithFeed(d, feed) # {} /\ AliasesNamed(d, name) = {} IN
    [may |-> may,
     then |-> IF may THEN InsertAlias(d, name, (CHOOSE m \in d.members : m.feed = feed).id, feed)
                     ELSE d]

RevokeAlias(d, id) ==
    [may |-> \E a \in d.aliases : a.id = id, then |-> DeleteAlias(d, id)]

(* Passwords. *)

Upsert(d, member, secret) ==
    IF PasswordOf(d, member) = {} THEN InsertPassword(d, member, secret)
                                  ELSE UpdatePassword(d, member, secret)

SetPassword(d, member, secret) ==
    [may |-> FindMember(d, member) # {}, then |-> Upsert(d, member, secret)]

ActiveReset(d, id) == {t \in ActiveResets(d) : t.id = id}

(* Mutant: the password of the administrator who made the token is set. *)
SetPasswordOfCreator(d, id, secret) ==
    LET may == ActiveReset(d, id) # {} IN
    [may |-> may,
     then |-> IF may THEN LET t == CHOOSE t \in ActiveReset(d, id) : TRUE IN
                          UpdateReset(Upsert(d, t.creator, secret), id, "used")
                     ELSE d]

SetPasswordWithToken(d, id, secret) ==
    LET may == ActiveReset(d, id) # {} IN
    [may |-> may,
     then |-> IF may THEN LET t == CHOOSE t \in ActiveReset(d, id) : TRUE IN
                          UpdateReset(Upsert(d, t.member, secret), id, "used")
                     ELSE d]

CreateResetToken(d, creator, member) ==
    [may |-> FindMember(d, creator) # {} /\ FindMember(d, member) # {},
     then |-> InsertReset(d, creator, member)]

(* Sign-in tokens. *)

CreateToken(d, member) ==
    [may |-> FindMember(d, member) # {}, then |-> InsertSession(d, member)]

RemoveToken(d, id) == [may |-> TRUE, then |-> DeleteSession(d, id)]
WipeTokens(d, member) == [may |-> TRUE, then |-> DeleteSessionsOf(d, member)]

(* Denied keys. *)

AddDenied(d, feed) ==
    [may |-> ~HasFeed(d, feed), then |-> InsertDeniedKey(d, feed)]

RemoveDenied(d, id) ==
    [may |-> FindDeniedKey(d, id) # {}, then |-> DeleteDeniedKey(d, id)]

(* Notices. *)

SaveNew(d, language) == [may |-> TRUE, then |-> InsertNotice(d, language)]
(* An update of a row that is not there says nothing. *)
SaveNotice(d, id, language) == [may |-> TRUE, then |-> UpdateNotice(d, id, language)]

RemoveNotice(d, id) ==
    [may |-> FindNotice(d, id) # {} /\ \A p \in d.pinned : p.notice # id,
     then |-> DeleteNotice(d, id)]

PinNotice(d, pin, id) ==
    [may |-> FindNotice(d, id) # {} /\ [pin |-> pin, notice |-> id] \notin d.pinned,
     then |-> AddNotices(d, pin, id)]

(* Configuration.  Both methods write the whole row they have read. *)

SetPrivacyMode(d, mode) ==
    [may |-> TRUE, then |-> UpdateConfig(d, [FindConfig(d) EXCEPT !.mode = mode])]
SetDefaultLanguage(d, language) ==
    [may |-> TRUE, then |-> UpdateConfig(d, [FindConfig(d) EXCEPT !.language = language])]

(* What cleanup does, in a transaction every five days and without one     *)
(* when the database is opened.                                            *)
CleanUp(d) == DeleteUsedResets(DeleteUsedInvites(DeleteOldSessions(d)))

(* The clock, seen from the table of tokens. *)
Older(d, id) ==
    [d EXCEPT !.sessions =
        {IF s.id # id THEN s
         ELSE [s EXCEPT !.age = IF @ = "young" THEN "expired" ELSE "old"] : s \in @}]

-----------------------------------------------------------------------------
(* Every service call is one step, or none when it returns an error.  The  *)
(* removals find a row and delete it by its id.                            *)

Does(method) == method.may /\ db' = method.then

Ids(rows) == {r.id : r \in rows}

MembersChange ==
    \/ \E feed \in Feeds, role \in Roles : Does(AddMember(db, feed, role))
    \/ \E id \in Ids(db.members) : Does(RemoveID(db, id))
    \/ \E id \in Ids(db.members), role \in Roles : Does(SetRole(db, id, role))

InvitesChange ==
    \/ \E id \in Ids(db.members) : Does(CreateInvite(db, id)) \/ Does(CreateOpenInvite(db, id))
    \/ \E id \in Ids(db.invites) : Does(RevokeInvite(db, id))
    \/ \E id \in Ids(db.invites), feed \in Feeds : Does(Consume(db, id, feed))

AliasesChange ==
    \/ \E name \in Names, feed \in Feeds : Does(Register(db, name, feed))
    \/ \E id \in Ids(db.aliases) : Does(RevokeAlias(db, id))

PasswordsChange ==
    \/ \E id \in Ids(db.members), secret \in Secrets : Does(SetPassword(db, id, secret))
    \/ \E id \in Ids(db.resets), secret \in Secrets : Does(SetPasswordWithToken(db, id, secret))
    \/ \E creator, id \in Ids(db.members) : Does(CreateResetToken(db, creator, id))

SessionsChange ==
    \/ \E id \in Ids(db.members) : Does(CreateToken(db, id)) \/ Does(WipeTokens(db, id))
    \/ \E id \in Ids(db.sessions) : Does(RemoveToken(db, id)) \/ db' = Older(db, id)

DeniedChange ==
    \/ \E feed \in Feeds : Does(AddDenied(db, feed))
    \/ \E id \in Ids(db.denied) : Does(RemoveDenied(db, id))

NoticesChange ==
    \/ \E language \in Languages : Does(SaveNew(db, language))
    \/ \E id \in Ids(db.notices), language \in Languages : Does(SaveNotice(db, id, language))
    \/ \E id \in Ids(db.notices), pin \in Pins : Does(PinNotice(db, pin, id))
    \/ \E id \in Ids(db.notices) : Does(RemoveNotice(db, id))

ConfigChange ==
    \/ \E mode \in Modes : Does(SetPrivacyMode(db, mode))
    \/ \E language \in Languages : Does(SetDefaultLanguage(db, language))

DBNext ==
    \/ MembersChange \/ InvitesChange \/ AliasesChange \/ PasswordsChange
    \/ SessionsChange \/ DeniedChange \/ NoticesChange \/ ConfigChange
    \/ db' = DeleteOldSessions(db) \/ db' = DeleteUsedInvites(db)
    \/ db' = DeleteUsedResets(db) \/ db' = CleanUp(db)

-----------------------------------------------------------------------------
(* What the schema promises: ids are unique and were handed out, keys are  *)
(* unique, and what is referred to exists.                                 *)

IdsUnique(rows, last) ==
    /\ \A r \in rows : r.id \in 1..last
    /\ \A r, s \in rows : r.id = s.id => r = s

KeysUnique(d) ==
    /\ \A m, n \in d.members : m.feed = n.feed => m = n
    /\ \A a, b \in d.aliases : a.name = b.name => a = b
    /\ \A p, q \in d.passwords : p.member = q.member => p = q
    /\ \A j, k \in d.denied : j.feed = k.feed => j = k

AllIdsUnique(d) ==
    /\ IdsUnique(d.members, d.last["members"])
    /\ IdsUnique(d.aliases, d.last["aliases"])
    /\ IdsUnique(d.invites, d.last["invites"])
    /\ IdsUnique(d.passwords, d.last["passwords"])
    /\ IdsUnique(d.resets, d.last["resets"])
    /\ IdsUnique(d.sessions, d.last["sessions"])
    /\ IdsUnique(d.denied, d.last["denied"])
    /\ IdsUnique(d.notices, d.last["notices"])

Refers(id, rows) == \E r \in rows : r.id = id

KeysExist(d) ==
    /\ \A a \in d.aliases : \E m \in d.members : m.id = a.member /\ m.feed = a.signer
    /\ \A i \in d.invites : Refers(i.creator, d.members)
    /\ \A p \in d.passwords : Refers(p.member, d.members)
    /\ \A t \in d.resets : Refers(t.creator, d.members) /\ Refers(t.member, d.members)
    /\ \A s \in d.sessions : Refers(s.member, d.members)
    /\ \A p \in d.pinned : Refers(p.notice, d.notices)

Sound(d) == d \in Database /\ KeysUnique(d) /\ AllIdsUnique(d) /\ KeysExist(d)

(* The rows fit together: an id, a feed, an alias and a denied key stand   *)
(* once, whatever is owned has its owner, and an alias belongs to the      *)
(* member whose key signed for it, after removals, re-admissions and all.  *)
Integrity == Sound(db)

DBSpec == Integrity /\ [][DBNext]_db
=============================================================================
