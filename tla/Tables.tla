------------------------------- MODULE Tables -------------------------------
(***************************************************************************)
(* The database: its rows, and what the generated functions of             *)
(* roomdb/sqlite/models do to them under the schema of                     *)
(* roomdb/sqlite/migrations.  Ids count up and are never handed out again  *)
(* (AUTOINCREMENT), keys are unique, foreign keys exist, and what refers   *)
(* to a member goes with the member (ON DELETE CASCADE).  A table is a set *)
(* of rows; an operator takes the database d and yields rows or the next   *)
(* database.  A random token is named by the id of its row, because a      *)
(* collision is retried.                                                   *)
(***************************************************************************)
EXTENDS Naturals, FiniteSets

CONSTANTS
    Feeds,       \* public keys
    Names,       \* aliases
    Secrets,     \* passwords
    Languages,   \* of notices and of the configuration
    Pins         \* the places on the site a notice can be pinned to

Roles == {"member", "moderator", "admin"}
Modes == {"open", "community", "restricted"}
States == {"active", "used"}          \* of an invite or a reset token

(* The age of a sign-in token: younger than sessionTimeout, older, and     *)
(* from before yesterday, which is what cleanup asks for.                  *)
Ages == {"young", "expired", "old"}

MemberRow   == [id: Nat, feed: Feeds, role: Roles]
AliasRow    == [id: Nat, name: Names, member: Nat, signer: Feeds]
InviteRow   == [id: Nat, creator: Nat, state: States]
PasswordRow == [id: Nat, member: Nat, secret: Secrets]
ResetRow    == [id: Nat, creator: Nat, member: Nat, state: States]
SessionRow  == [id: Nat, member: Nat, age: Ages]
DeniedRow   == [id: Nat, feed: Feeds]
NoticeRow   == [id: Nat, language: Languages]
PinRow      == [pin: Pins, notice: Nat]
ConfigRow   == [mode: Modes, language: Languages]

TableNames == {"members", "aliases", "invites", "passwords", "resets",
               "sessions", "denied", "notices"}

Database ==
    [members: SUBSET MemberRow, aliases: SUBSET AliasRow, invites: SUBSET InviteRow,
     passwords: SUBSET PasswordRow, resets: SUBSET ResetRow,
     sessions: SUBSET SessionRow, denied: SUBSET DeniedRow,
     notices: SUBSET NoticeRow, pinned: SUBSET PinRow,
     config: ConfigRow, last: [TableNames -> Nat]]

NextId(d, table) == d.last[table] + 1

-----------------------------------------------------------------------------
(* Members. *)

FindMember(d, id) == {m \in d.members : m.id = id}
MembersWithFeed(d, feed) == {m \in d.members : m.feed = feed}
MembersWithRole(d, role) == {m \in d.members : m.role = role}

(* Mutant: the lowest free id is taken, as without AUTOINCREMENT. *)
InsertMemberAnywhere(d, feed, role) ==
    LET free == CHOOSE n \in 1..NextId(d, "members") :
                    /\ FindMember(d, n) = {}
                    /\ \A k \in 1..(n - 1) : FindMember(d, k) # {}
    IN [d EXCEPT !.members = @ \cup {[id |-> free, feed |-> feed, role |-> role]},
                 !.last["members"] = IF free > @ THEN free ELSE @]

InsertMember(d, feed, role) ==
    [d EXCEPT !.members = @ \cup {[id |-> NextId(d, "members"), feed |-> feed, role |-> role]},
              !.last["members"] = @ + 1]

UpdateMember(d, id, role) ==
    [d EXCEPT !.members = {IF m.id = id THEN [m EXCEPT !.role = role] ELSE m : m \in @}]

MemberAliases(d, id) == {a \in d.aliases : a.member = id}

(* Mutant: the relations are not followed. *)
DeleteMemberOnly(d, id) == [d EXCEPT !.members = {m \in @ : m.id # id}]

DeleteMember(d, id) ==
    [d EXCEPT !.members   = {m \in @ : m.id # id},
              !.aliases   = @ \ MemberAliases(d, id),
              !.invites   = {i \in @ : i.creator # id},
              !.passwords = {p \in @ : p.member # id},
              !.resets    = {t \in @ : t.creator # id /\ t.member # id},
              !.sessions  = {s \in @ : s.member # id}]

(* Aliases. *)

AliasesNamed(d, name) == {a \in d.aliases : a.name = name}
(* The owner of an alias, and below of an invite: the query that follows *)
(* the first one.                                                          *)
LoadMember(d, id) == FindMember(d, id)

InsertAlias(d, name, member, signer) ==
    [d EXCEPT !.aliases = @ \cup {[id |-> NextId(d, "aliases"), name |-> name,
                                   member |-> member, signer |-> signer]},
              !.last["aliases"] = @ + 1]

DeleteAlias(d, id) == [d EXCEPT !.aliases = {a \in @ : a.id # id}]

(* Invites. *)

ActiveInvites(d) == {i \in d.invites : i.state = "active"}
LoadCreatedByMember(d, id) == FindMember(d, id)

InsertInvite(d, creator) ==
    [d EXCEPT !.invites = @ \cup {[id |-> NextId(d, "invites"), creator |-> creator,
                                   state |-> "active"]},
              !.last["invites"] = @ + 1]

UpdateInvite(d, id, state) ==
    [d EXCEPT !.invites = {IF i.id = id THEN [i EXCEPT !.state = state] ELSE i : i \in @}]

DeleteUsedInvites(d) == [d EXCEPT !.invites = {i \in @ : i.state = "active"}]

(* Passwords of the fallback sign-in. *)

PasswordOf(d, member) == {p \in d.passwords : p.member = member}

InsertPassword(d, member, secret) ==
    [d EXCEPT !.passwords = @ \cup {[id |-> NextId(d, "passwords"), member |-> member,
                                     secret |-> secret]},
              !.last["passwords"] = @ + 1]

UpdatePassword(d, member, secret) ==
    [d EXCEPT !.passwords =
        {IF p.member = member THEN [p EXCEPT !.secret = secret] ELSE p : p \in @}]

(* Tokens that allow one to choose a new password. *)

ActiveResets(d) == {t \in d.resets : t.state = "active"}

InsertReset(d, creator, member) ==
    [d EXCEPT !.resets = @ \cup {[id |-> NextId(d, "resets"), creator |-> creator,
                                  member |-> member, state |-> "active"]},
              !.last["resets"] = @ + 1]

UpdateReset(d, id, state) ==
    [d EXCEPT !.resets = {IF t.id = id THEN [t EXCEPT !.state = state] ELSE t : t \in @}]

DeleteUsedResets(d) == [d EXCEPT !.resets = {t \in @ : t.state = "active"}]

(* Tokens of the sign-in with SSB. *)

SessionsWithToken(d, id) == {s \in d.sessions : s.id = id}

InsertSession(d, member) ==
    [d EXCEPT !.sessions = @ \cup {[id |-> NextId(d, "sessions"), member |-> member,
                                    age |-> "young"]},
              !.last["sessions"] = @ + 1]

DeleteSession(d, id) == [d EXCEPT !.sessions = {s \in @ : s.id # id}]
DeleteSessionsOf(d, member) == [d EXCEPT !.sessions = {s \in @ : s.member # member}]
(* Mutant: what is younger goes. *)
DeleteYoungSessions(d) == [d EXCEPT !.sessions = {s \in @ : s.age = "old"}]

DeleteOldSessions(d) == [d EXCEPT !.sessions = {s \in @ : s.age # "old"}]

(* Denied keys.  They are not related to the members. *)

FindDeniedKey(d, id) == {k \in d.denied : k.id = id}
DeniedWithFeed(d, feed) == {k \in d.denied : k.feed = feed}

InsertDeniedKey(d, feed) ==
    [d EXCEPT !.denied = @ \cup {[id |-> NextId(d, "denied"), feed |-> feed]},
              !.last["denied"] = @ + 1]

DeleteDeniedKey(d, id) == [d EXCEPT !.denied = {k \in @ : k.id # id}]

(* Notices, and where they are pinned.  A pinned one is not deleted, for   *)
(* this relation does not cascade.                                         *)

FindNotice(d, id) == {n \in d.notices : n.id = id}
PinsNamed(d, pin) == {p \in d.pinned : p.pin = pin}
LoadNotices(d, pin) == {n \in d.notices : \E p \in PinsNamed(d, pin) : p.notice = n.id}

InsertNotice(d, language) ==
    [d EXCEPT !.notices = @ \cup {[id |-> NextId(d, "notices"), language |-> language]},
              !.last["notices"] = @ + 1]

UpdateNotice(d, id, language) ==
    [d EXCEPT !.notices =
        {IF n.id = id THEN [n EXCEPT !.language = language] ELSE n : n \in @}]

DeleteNotice(d, id) == [d EXCEPT !.notices = {n \in @ : n.id # id}]

AddNotices(d, pin, id) == [d EXCEPT !.pinned = @ \cup {[pin |-> pin, notice |-> id]}]

(* The one row of the configuration. *)

FindConfig(d) == d.config
UpdateConfig(d, config) == [d EXCEPT !.config = config]
=============================================================================
