---------------------------- MODULE RoomDBProofs ----------------------------
(***************************************************************************)
(* Proofs about the database: for any number of rows, every service call   *)
(* keeps the promise of the schema.  First what inserting, updating and    *)
(* deleting rows does to it, one table at a time, then the services, which *)
(* are made of these.                                                      *)
(***************************************************************************)
EXTENDS RoomDB, TLAPS

(* The next id of a table, which is not given again, is a number after the last one. *)
LEMMA LastTypes ==
    ASSUME NEW d \in Database, NEW t \in TableNames
    PROVE  /\ d.last[t] \in Nat
           /\ NextId(d, t) = d.last[t] + 1 /\ NextId(d, t) \in Nat
           /\ [d.last EXCEPT ![t] = @ + 1] \in [TableNames -> Nat]
BY DEF Database, NextId

(* The ids of a database, table by table. *)
LEMMA IdsByTable ==
    ASSUME NEW d
    PROVE  AllIdsUnique(d) <=> \A t \in TableNames : IdsUnique(d[t], d.last[t])
BY DEF AllIdsUnique, TableNames

(* The next id is a new one. *)
LEMMA InsertedIds ==
    ASSUME NEW d \in Database, AllIdsUnique(d), NEW e, NEW t \in TableNames,
           NEW row, row.id = NextId(d, t), e[t] = d[t] \cup {row},
           \A u \in TableNames \ {t} : e[u] = d[u],
           e.last = [d.last EXCEPT ![t] = @ + 1]
    PROVE  AllIdsUnique(e)
<1>1. \A u \in TableNames : d.last[u] \in Nat
  BY LastTypes
<1>2. \A u \in TableNames : IdsUnique(d[u], d.last[u])
  BY IdsByTable
<1>3. e.last[t] = d.last[t] + 1 /\ \A u \in TableNames \ {t} : e.last[u] = d.last[u]
  BY DEF Database
<1>4. IdsUnique(e[t], e.last[t])
  <2>1. row.id = d.last[t] + 1
    BY LastTypes
  <2>. QED
    BY <1>1, <1>2, <1>3, <2>1 DEF IdsUnique
<1>5. \A u \in TableNames : IdsUnique(e[u], e.last[u])
  BY <1>2, <1>3, <1>4
<1>. QED
  BY <1>5, IdsByTable

(* Rows that are left have their ids. *)
LEMMA FewerIds ==
    ASSUME NEW d, AllIdsUnique(d), NEW e, e.last = d.last,
           \A t \in TableNames : e[t] \subseteq d[t]
    PROVE  AllIdsUnique(e)
<1>1. \A t \in TableNames : IdsUnique(e[t], e.last[t])
  BY IdsByTable DEF IdsUnique
<1>. QED
  BY <1>1, IdsByTable

(* So do rows that are changed but for their ids. *)
LEMMA UpdatedIds ==
    ASSUME NEW d, AllIdsUnique(d), NEW e, NEW t \in TableNames, e.last = d.last,
           \A u \in TableNames \ {t} : e[u] = d[u],
           \A r \in e[t] : \E s \in d[t] : s.id = r.id,
           \A r, s \in e[t] : r.id = s.id => r = s
    PROVE  AllIdsUnique(e)
<1>1. \A u \in TableNames : IdsUnique(e[u], e.last[u])
  BY IdsByTable DEF IdsUnique
<1>. QED
  BY <1>1, IdsByTable

(* Whatever is deleted, if nothing is left that referred to it. *)
LEMMA FewerRows ==
    ASSUME NEW d, Sound(d), NEW e, e \in Database, KeysExist(e), e.last = d.last,
           e.members \subseteq d.members, e.aliases \subseteq d.aliases,
           e.invites \subseteq d.invites, e.passwords \subseteq d.passwords,
           e.resets \subseteq d.resets, e.sessions \subseteq d.sessions,
           e.denied \subseteq d.denied, e.notices \subseteq d.notices
    PROVE  Sound(e)
<1>1. \A t \in TableNames : e[t] \subseteq d[t]
  BY DEF TableNames
<1>2. AllIdsUnique(e)
  BY <1>1, FewerIds DEF Sound
<1>3. KeysUnique(e)
  BY DEF Sound, KeysUnique
<1>. QED
  BY <1>2, <1>3 DEF Sound
-----------------------------------------------------------------------------
(* Inserting a row, if the key is free and what it refers to exists.       *)

(* A member with a new key. *)
LEMMA InsertMemberSound ==
    ASSUME NEW d, Sound(d), NEW feed \in Feeds, NEW role \in Roles,
           MembersWithFeed(d, feed) = {}
    PROVE  Sound(InsertMember(d, feed, role))
<1>. DEFINE row == [id |-> NextId(d, "members"), feed |-> feed, role |-> role]
            e == InsertMember(d, feed, role)
<1>0. /\ d \in Database /\ KeysUnique(d) /\ AllIdsUnique(d) /\ KeysExist(d)
      /\ "members" \in TableNames
  BY DEF Sound, TableNames
<1>1. /\ e.members = d.members \cup {row}
      /\ e.aliases = d.aliases /\ e.invites = d.invites /\ e.passwords = d.passwords
      /\ e.resets = d.resets /\ e.sessions = d.sessions /\ e.denied = d.denied
      /\ e.notices = d.notices /\ e.pinned = d.pinned /\ e.config = d.config
      /\ e.last = [d.last EXCEPT !["members"] = @ + 1]
  BY <1>0 DEF InsertMember, Database
<1>2. row \in MemberRow
  BY <1>0, LastTypes DEF MemberRow
<1>3. e \in Database
  <2>1. d.members \cup {row} \in SUBSET MemberRow
    BY <1>0, <1>2 DEF Database
  <2>2. [d.last EXCEPT !["members"] = @ + 1] \in [TableNames -> Nat]
    BY <1>0, LastTypes
  <2>3. e = [d EXCEPT !.members = d.members \cup {row},
                      !.last = [d.last EXCEPT !["members"] = @ + 1]]
    BY <1>0 DEF InsertMember
  <2>. HIDE DEF row, e
  <2>. QED
    BY <1>0, <2>1, <2>2, <2>3 DEF Database
<1>4. AllIdsUnique(e)
  <2>1. row.id = NextId(d, "members") /\ e["members"] = d["members"] \cup {row}
    BY <1>1
  <2>2. \A u \in TableNames \ {"members"} : e[u] = d[u]
    BY <1>1 DEF TableNames
  <2>. HIDE DEF row, e
  <2>. QED
    BY <1>0, <1>1, <2>1, <2>2, InsertedIds
<1>5. KeysUnique(e)
  BY <1>0, <1>1 DEF KeysUnique, MembersWithFeed
<1>6. KeysExist(e)
  BY <1>0, <1>1 DEF KeysExist, Refers
<1>. QED
  BY <1>3, <1>4, <1>5, <1>6 DEF Sound

(* A new alias of a member, signed with its key. *)
LEMMA InsertAliasSound ==
    ASSUME NEW d, Sound(d), NEW name \in Names, NEW m \in d.members,
           AliasesNamed(d, name) = {}
    PROVE  Sound(InsertAlias(d, name, m.id, m.feed))
<1>. DEFINE row == [id |-> NextId(d, "aliases"), name |-> name, member |-> m.id, signer |-> m.feed]
            e == InsertAlias(d, name, m.id, m.feed)
<1>0. /\ d \in Database /\ KeysUnique(d) /\ AllIdsUnique(d) /\ KeysExist(d)
      /\ "aliases" \in TableNames
  BY DEF Sound, TableNames
<1>1. /\ e.aliases = d.aliases \cup {row}
      /\ e.members = d.members /\ e.invites = d.invites /\ e.passwords = d.passwords
      /\ e.resets = d.resets /\ e.sessions = d.sessions /\ e.denied = d.denied
      /\ e.notices = d.notices /\ e.pinned = d.pinned /\ e.config = d.config
      /\ e.last = [d.last EXCEPT !["aliases"] = @ + 1]
  BY <1>0 DEF InsertAlias, Database
<1>2. row \in AliasRow
  BY <1>0, LastTypes DEF AliasRow, Database, MemberRow
<1>3. e \in Database
  <2>1. d.aliases \cup {row} \in SUBSET AliasRow
    BY <1>0, <1>2 DEF Database
  <2>2. [d.last EXCEPT !["aliases"] = @ + 1] \in [TableNames -> Nat]
    BY <1>0, LastTypes
  <2>3. e = [d EXCEPT !.aliases = d.aliases \cup {row},
                      !.last = [d.last EXCEPT !["aliases"] = @ + 1]]
    BY <1>0 DEF InsertAlias
  <2>. HIDE DEF row, e
  <2>. QED
    BY <1>0, <2>1, <2>2, <2>3 DEF Database
<1>4. AllIdsUnique(e)
  <2>1. row.id = NextId(d, "aliases") /\ e["aliases"] = d["aliases"] \cup {row}
    BY <1>1
  <2>2. \A u \in TableNames \ {"aliases"} : e[u] = d[u]
    BY <1>1 DEF TableNames
  <2>. HIDE DEF row, e
  <2>. QED
    BY <1>0, <1>1, <2>1, <2>2, InsertedIds
<1>5. KeysUnique(e)
  BY <1>0, <1>1 DEF KeysUnique, AliasesNamed
<1>6. KeysExist(e)
  BY <1>0, <1>1 DEF KeysExist, Refers
<1>. QED
  BY <1>3, <1>4, <1>5, <1>6 DEF Sound

(* An invite somebody made. *)
LEMMA InsertInviteSound ==
    ASSUME NEW d, Sound(d), NEW m \in d.members
    PROVE  Sound(InsertInvite(d, m.id))
<1>. DEFINE row == [id |-> NextId(d, "invites"), creator |-> m.id, state |-> "active"]
            e == InsertInvite(d, m.id)
<1>0. /\ d \in Database /\ KeysUnique(d) /\ AllIdsUnique(d) /\ KeysExist(d)
      /\ "invites" \in TableNames
  BY DEF Sound, TableNames
<1>1. /\ e.invites = d.invites \cup {row}
      /\ e.members = d.members /\ e.aliases = d.aliases /\ e.passwords = d.passwords
      /\ e.resets = d.resets /\ e.sessions = d.sessions /\ e.denied = d.denied
      /\ e.notices = d.notices /\ e.pinned = d.pinned /\ e.config = d.config
      /\ e.last = [d.last EXCEPT !["invites"] = @ + 1]
  BY <1>0 DEF InsertInvite, Database
<1>2. row \in InviteRow
  BY <1>0, LastTypes DEF InviteRow, States, Database, MemberRow
<1>3. e \in Database
  <2>1. d.invites \cup {row} \in SUBSET InviteRow
    BY <1>0, <1>2 DEF Database
  <2>2. [d.last EXCEPT !["invites"] = @ + 1] \in [TableNames -> Nat]
    BY <1>0, LastTypes
  <2>3. e = [d EXCEPT !.invites = d.invites \cup {row},
                      !.last = [d.last EXCEPT !["invites"] = @ + 1]]
    BY <1>0 DEF InsertInvite
  <2>. HIDE DEF row, e
  <2>. QED
    BY <1>0, <2>1, <2>2, <2>3 DEF Database
<1>4. AllIdsUnique(e)
  <2>1. row.id = NextId(d, "invites") /\ e["invites"] = d["invites"] \cup {row}
    BY <1>1
  <2>2. \A u \in TableNames \ {"invites"} : e[u] = d[u]
    BY <1>1 DEF TableNames
  <2>. HIDE DEF row, e
  <2>. QED
    BY <1>0, <1>1, <2>1, <2>2, InsertedIds
<1>5. KeysUnique(e)
  BY <1>0, <1>1 DEF KeysUnique
<1>6. KeysExist(e)
  BY <1>0, <1>1 DEF KeysExist, Refers
<1>. QED
  BY <1>3, <1>4, <1>5, <1>6 DEF Sound

(* The first password of a member. *)
LEMMA InsertPasswordSound ==
    ASSUME NEW d, Sound(d), NEW m \in d.members, NEW secret \in Secrets,
           PasswordOf(d, m.id) = {}
    PROVE  Sound(InsertPassword(d, m.id, secret))
<1>. DEFINE row == [id |-> NextId(d, "passwords"), member |-> m.id, secret |-> secret]
            e == InsertPassword(d, m.id, secret)
<1>0. /\ d \in Database /\ KeysUnique(d) /\ AllIdsUnique(d) /\ KeysExist(d)
      /\ "passwords" \in TableNames
  BY DEF Sound, TableNames
<1>1. /\ e.passwords = d.passwords \cup {row}
      /\ e.members = d.members /\ e.aliases = d.aliases /\ e.invites = d.invites
      /\ e.resets = d.resets /\ e.sessions = d.sessions /\ e.denied = d.denied
      /\ e.notices = d.notices /\ e.pinned = d.pinned /\ e.config = d.config
      /\ e.last = [d.last EXCEPT !["passwords"] = @ + 1]
  BY <1>0 DEF InsertPassword, Database
<1>2. row \in PasswordRow
  BY <1>0, LastTypes DEF PasswordRow, Database, MemberRow
<1>3. e \in Database
  <2>1. d.passwords \cup {row} \in SUBSET PasswordRow
    BY <1>0, <1>2 DEF Database
  <2>2. [d.last EXCEPT !["passwords"] = @ + 1] \in [TableNames -> Nat]
    BY <1>0, LastTypes
  <2>3. e = [d EXCEPT !.passwords = d.passwords \cup {row},
                      !.last = [d.last EXCEPT !["passwords"] = @ + 1]]
    BY <1>0 DEF InsertPassword
  <2>. HIDE DEF row, e
  <2>. QED
    BY <1>0, <2>1, <2>2, <2>3 DEF Database
<1>4. AllIdsUnique(e)
  <2>1. row.id = NextId(d, "passwords") /\ e["passwords"] = d["passwords"] \cup {row}
    BY <1>1
  <2>2. \A u \in TableNames \ {"passwords"} : e[u] = d[u]
    BY <1>1 DEF TableNames
  <2>. HIDE DEF row, e
  <2>. QED
    BY <1>0, <1>1, <2>1, <2>2, InsertedIds
<1>5. KeysUnique(e)
  BY <1>0, <1>1 DEF KeysUnique, PasswordOf
<1>6. KeysExist(e)
  BY <1>0, <1>1 DEF KeysExist, Refers
<1>. QED
  BY <1>3, <1>4, <1>5, <1>6 DEF Sound

(* A reset token one member made for another. *)
LEMMA InsertResetSound ==
    ASSUME NEW d, Sound(d), NEW c \in d.members, NEW m \in d.members
    PROVE  Sound(InsertReset(d, c.id, m.id))
<1>. DEFINE row == [id |-> NextId(d, "resets"), creator |-> c.id, member |-> m.id,
                    state |-> "active"]
            e == InsertReset(d, c.id, m.id)
<1>0. /\ d \in Database /\ KeysUnique(d) /\ AllIdsUnique(d) /\ KeysExist(d)
      /\ "resets" \in TableNames
  BY DEF Sound, TableNames
<1>1. /\ e.resets = d.resets \cup {row}
      /\ e.members = d.members /\ e.aliases = d.aliases /\ e.invites = d.invites
      /\ e.passwords = d.passwords /\ e.sessions = d.sessions /\ e.denied = d.denied
      /\ e.notices = d.notices /\ e.pinned = d.pinned /\ e.config = d.config
      /\ e.last = [d.last EXCEPT !["resets"] = @ + 1]
  BY <1>0 DEF InsertReset, Database
<1>2. row \in ResetRow
  BY <1>0, LastTypes DEF ResetRow, States, Database, MemberRow
<1>3. e \in Database
  <2>1. d.resets \cup {row} \in SUBSET ResetRow
    BY <1>0, <1>2 DEF Database
  <2>2. [d.last EXCEPT !["resets"] = @ + 1] \in [TableNames -> Nat]
    BY <1>0, LastTypes
  <2>3. e = [d EXCEPT !.resets = d.resets \cup {row},
                      !.last = [d.last EXCEPT !["resets"] = @ + 1]]
    BY <1>0 DEF InsertReset
  <2>. HIDE DEF row, e
  <2>. QED
    BY <1>0, <2>1, <2>2, <2>3 DEF Database
<1>4. AllIdsUnique(e)
  <2>1. row.id = NextId(d, "resets") /\ e["resets"] = d["resets"] \cup {row}
    BY <1>1
  <2>2. \A u \in TableNames \ {"resets"} : e[u] = d[u]
    BY <1>1 DEF TableNames
  <2>. HIDE DEF row, e
  <2>. QED
    BY <1>0, <1>1, <2>1, <2>2, InsertedIds
<1>5. KeysUnique(e)
  BY <1>0, <1>1 DEF KeysUnique
<1>6. KeysExist(e)
  BY <1>0, <1>1 DEF KeysExist, Refers
<1>. QED
  BY <1>3, <1>4, <1>5, <1>6 DEF Sound

(* A sign-in token of a member. *)
LEMMA InsertSessionSound ==
    ASSUME NEW d, Sound(d), NEW m \in d.members
    PROVE  Sound(InsertSession(d, m.id))
<1>. DEFINE row == [id |-> NextId(d, "sessions"), member |-> m.id, age |-> "young"]
            e == InsertSession(d, m.id)
<1>0. /\ d \in Database /\ KeysUnique(d) /\ AllIdsUnique(d) /\ KeysExist(d)
      /\ "sessions" \in TableNames
  BY DEF Sound, TableNames
<1>1. /\ e.sessions = d.sessions \cup {row}
      /\ e.members = d.members /\ e.aliases = d.aliases /\ e.invites = d.invites
      /\ e.passwords = d.passwords /\ e.resets = d.resets /\ e.denied = d.denied
      /\ e.notices = d.notices /\ e.pinned = d.pinned /\ e.config = d.config
      /\ e.last = [d.last EXCEPT !["sessions"] = @ + 1]
  BY <1>0 DEF InsertSession, Database
<1>2. row \in SessionRow
  BY <1>0, LastTypes DEF SessionRow, Ages, Database, MemberRow
<1>3. e \in Database
  <2>1. d.sessions \cup {row} \in SUBSET SessionRow
    BY <1>0, <1>2 DEF Database
  <2>2. [d.last EXCEPT !["sessions"] = @ + 1] \in [TableNames -> Nat]
    BY <1>0, LastTypes
  <2>3. e = [d EXCEPT !.sessions = d.sessions \cup {row},
                      !.last = [d.last EXCEPT !["sessions"] = @ + 1]]
    BY <1>0 DEF InsertSession
  <2>. HIDE DEF row, e
  <2>. QED
    BY <1>0, <2>1, <2>2, <2>3 DEF Database
<1>4. AllIdsUnique(e)
  <2>1. row.id = NextId(d, "sessions") /\ e["sessions"] = d["sessions"] \cup {row}
    BY <1>1
  <2>2. \A u \in TableNames \ {"sessions"} : e[u] = d[u]
    BY <1>1 DEF TableNames
  <2>. HIDE DEF row, e
  <2>. QED
    BY <1>0, <1>1, <2>1, <2>2, InsertedIds
<1>5. KeysUnique(e)
  BY <1>0, <1>1 DEF KeysUnique
<1>6. KeysExist(e)
  BY <1>0, <1>1 DEF KeysExist, Refers
<1>. QED
  BY <1>3, <1>4, <1>5, <1>6 DEF Sound

(* A denied key. *)
LEMMA InsertDeniedSound ==
    ASSUME NEW d, Sound(d), NEW feed \in Feeds, ~HasFeed(d, feed)
    PROVE  Sound(InsertDeniedKey(d, feed))
<1>. DEFINE row == [id |-> NextId(d, "denied"), feed |-> feed]
            e == InsertDeniedKey(d, feed)
<1>0. /\ d \in Database /\ KeysUnique(d) /\ AllIdsUnique(d) /\ KeysExist(d)
      /\ "denied" \in TableNames
  BY DEF Sound, TableNames
<1>1. /\ e.denied = d.denied \cup {row}
      /\ e.members = d.members /\ e.aliases = d.aliases /\ e.invites = d.invites
      /\ e.passwords = d.passwords /\ e.resets = d.resets /\ e.sessions = d.sessions
      /\ e.notices = d.notices /\ e.pinned = d.pinned /\ e.config = d.config
      /\ e.last = [d.last EXCEPT !["denied"] = @ + 1]
  BY <1>0 DEF InsertDeniedKey, Database
<1>2. row \in DeniedRow
  BY <1>0, LastTypes DEF DeniedRow
<1>3. e \in Database
  <2>1. d.denied \cup {row} \in SUBSET DeniedRow
    BY <1>0, <1>2 DEF Database
  <2>2. [d.last EXCEPT !["denied"] = @ + 1] \in [TableNames -> Nat]
    BY <1>0, LastTypes
  <2>3. e = [d EXCEPT !.denied = d.denied \cup {row},
                      !.last = [d.last EXCEPT !["denied"] = @ + 1]]
    BY <1>0 DEF InsertDeniedKey
  <2>. HIDE DEF row, e
  <2>. QED
    BY <1>0, <2>1, <2>2, <2>3 DEF Database
<1>4. AllIdsUnique(e)
  <2>1. row.id = NextId(d, "denied") /\ e["denied"] = d["denied"] \cup {row}
    BY <1>1
  <2>2. \A u \in TableNames \ {"denied"} : e[u] = d[u]
    BY <1>1 DEF TableNames
  <2>. HIDE DEF row, e
  <2>. QED
    BY <1>0, <1>1, <2>1, <2>2, InsertedIds
<1>5. KeysUnique(e)
  BY <1>0, <1>1 DEF KeysUnique, HasFeed, DeniedWithFeed
<1>6. KeysExist(e)
  BY <1>0, <1>1 DEF KeysExist, Refers
<1>. QED
  BY <1>3, <1>4, <1>5, <1>6 DEF Sound

(* A notice. *)
LEMMA InsertNoticeSound ==
    ASSUME NEW d, Sound(d), NEW language \in Languages
    PROVE  Sound(InsertNotice(d, language))
<1>. DEFINE row == [id |-> NextId(d, "notices"), language |-> language]
            e == InsertNotice(d, language)
<1>0. /\ d \in Database /\ KeysUnique(d) /\ AllIdsUnique(d) /\ KeysExist(d)
      /\ "notices" \in TableNames
  BY DEF Sound, TableNames
<1>1. /\ e.notices = d.notices \cup {row}
      /\ e.members = d.members /\ e.aliases = d.aliases /\ e.invites = d.invites
      /\ e.passwords = d.passwords /\ e.resets = d.resets /\ e.sessions = d.sessions
      /\ e.denied = d.denied /\ e.pinned = d.pinned /\ e.config = d.config
      /\ e.last = [d.last EXCEPT !["notices"] = @ + 1]
  BY <1>0 DEF InsertNotice, Database
<1>2. row \in NoticeRow
  BY <1>0, LastTypes DEF NoticeRow
<1>3. e \in Database
  <2>1. d.notices \cup {row} \in SUBSET NoticeRow
    BY <1>0, <1>2 DEF Database
  <2>2. [d.last EXCEPT !["notices"] = @ + 1] \in [TableNames -> Nat]
    BY <1>0, LastTypes
  <2>3. e = [d EXCEPT !.notices = d.notices \cup {row},
                      !.last = [d.last EXCEPT !["notices"] = @ + 1]]
    BY <1>0 DEF InsertNotice
  <2>. HIDE DEF row, e
  <2>. QED
    BY <1>0, <2>1, <2>2, <2>3 DEF Database
<1>4. AllIdsUnique(e)
  <2>1. row.id = NextId(d, "notices") /\ e["notices"] = d["notices"] \cup {row}
    BY <1>1
  <2>2. \A u \in TableNames \ {"notices"} : e[u] = d[u]
    BY <1>1 DEF TableNames
  <2>. HIDE DEF row, e
  <2>. QED
    BY <1>0, <1>1, <2>1, <2>2, InsertedIds
<1>5. KeysUnique(e)
  BY <1>0, <1>1 DEF KeysUnique
<1>6. KeysExist(e)
  BY <1>0, <1>1 DEF KeysExist, Refers
<1>. QED
  BY <1>3, <1>4, <1>5, <1>6 DEF Sound
-----------------------------------------------------------------------------
(* Updating rows: neither ids nor what is referred to changes.             *)

(* A member gets another role. *)
LEMMA UpdateMemberSound ==
    ASSUME NEW d, Sound(d), NEW id, NEW role \in Roles
    PROVE  Sound(UpdateMember(d, id, role))
<1>. DEFINE e == UpdateMember(d, id, role)
            F(m) == IF m.id = id THEN [m EXCEPT !.role = role] ELSE m
<1>0. d \in Database /\ KeysUnique(d) /\ AllIdsUnique(d) /\ KeysExist(d)
  BY DEF Sound
<1>1. \A m \in d.members : F(m) \in MemberRow /\ F(m).id = m.id
  BY <1>0 DEF Database, MemberRow
<1>2. \A m \in d.members : F(m).id = m.id /\ F(m).feed = m.feed
  BY <1>0 DEF Database, MemberRow
<1>3. /\ e.members = {F(m) : m \in d.members}
      /\ e.aliases = d.aliases /\ e.invites = d.invites /\ e.passwords = d.passwords
      /\ e.resets = d.resets /\ e.sessions = d.sessions /\ e.denied = d.denied
      /\ e.notices = d.notices /\ e.pinned = d.pinned /\ e.config = d.config
      /\ e.last = d.last
  BY <1>0 DEF UpdateMember, Database
<1>4. e \in Database
  <2>1. {F(m) : m \in d.members} \in SUBSET MemberRow
    BY <1>1
  <2>2. e = [d EXCEPT !.members = {F(m) : m \in d.members}]
    BY DEF UpdateMember
  <2>. HIDE DEF F, e
  <2>. QED
    BY <1>0, <2>1, <2>2 DEF Database
<1>. HIDE DEF F, e
<1>5. AllIdsUnique(e)
  <2>1. \A u \in TableNames \ {"members"} : e[u] = d[u]
    BY <1>3 DEF TableNames
  <2>2. \A r, s \in d.members : r.id = s.id => r = s
    BY <1>0 DEF AllIdsUnique, IdsUnique
  <2>3. /\ \A r \in e["members"] : \E s \in d["members"] : s.id = r.id
        /\ \A r, s \in e["members"] : r.id = s.id => r = s
    BY <1>1, <1>3, <2>2
  <2>. QED
    BY <1>0, <1>3, <2>1, <2>3, UpdatedIds DEF TableNames
<1>6. KeysUnique(e)
  <2>1. \A m, n \in e.members : m.feed = n.feed => m = n
    BY <1>0, <1>2, <1>3 DEF KeysUnique
  <2>. QED
    BY <1>0, <1>3, <2>1 DEF KeysUnique
<1>7. KeysExist(e)
  <2>1. \A m \in d.members : \E n \in e.members : n.id = m.id /\ n.feed = m.feed
    BY <1>2, <1>3
  <2>2. \A k : Refers(k, d.members) => Refers(k, e.members)
    BY <2>1 DEF Refers
  <2>3. \A a \in e.aliases : \E m \in e.members : m.id = a.member /\ m.feed = a.signer
    BY <1>0, <1>3, <2>1 DEF KeysExist
  <2>. QED
    BY <1>0, <1>3, <2>2, <2>3 DEF KeysExist
<1>. QED
  BY <1>4, <1>5, <1>6, <1>7 DEF Sound, e

(* An invite is used. *)
LEMMA UpdateInviteSound ==
    ASSUME NEW d, Sound(d), NEW id, NEW state \in States
    PROVE  Sound(UpdateInvite(d, id, state))
<1>. DEFINE e == UpdateInvite(d, id, state)
            F(i) == IF i.id = id THEN [i EXCEPT !.state = state] ELSE i
<1>0. d \in Database /\ KeysUnique(d) /\ AllIdsUnique(d) /\ KeysExist(d)
  BY DEF Sound
<1>1. \A i \in d.invites : F(i) \in InviteRow /\ F(i).id = i.id
  BY <1>0 DEF Database, InviteRow
<1>2. \A i \in d.invites : F(i).id = i.id /\ F(i).creator = i.creator
  BY <1>0 DEF Database, InviteRow
<1>3. /\ e.invites = {F(i) : i \in d.invites}
      /\ e.members = d.members /\ e.aliases = d.aliases /\ e.passwords = d.passwords
      /\ e.resets = d.resets /\ e.sessions = d.sessions /\ e.denied = d.denied
      /\ e.notices = d.notices /\ e.pinned = d.pinned /\ e.config = d.config
      /\ e.last = d.last
  BY <1>0 DEF UpdateInvite, Database
<1>4. e \in Database
  <2>1. {F(i) : i \in d.invites} \in SUBSET InviteRow
    BY <1>1
  <2>2. e = [d EXCEPT !.invites = {F(i) : i \in d.invites}]
    BY DEF UpdateInvite
  <2>. HIDE DEF F, e
  <2>. QED
    BY <1>0, <2>1, <2>2 DEF Database
<1>. HIDE DEF F, e
<1>5. AllIdsUnique(e)
  <2>1. \A u \in TableNames \ {"invites"} : e[u] = d[u]
    BY <1>3 DEF TableNames
  <2>2. \A r, s \in d.invites : r.id = s.id => r = s
    BY <1>0 DEF AllIdsUnique, IdsUnique
  <2>3. /\ \A r \in e["invites"] : \E s \in d["invites"] : s.id = r.id
        /\ \A r, s \in e["invites"] : r.id = s.id => r = s
    BY <1>1, <1>3, <2>2
  <2>. QED
    BY <1>0, <1>3, <2>1, <2>3, UpdatedIds DEF TableNames
<1>6. KeysUnique(e)
  BY <1>0, <1>3 DEF KeysUnique
<1>7. KeysExist(e)
  <2>1. \A j \in e.invites : \E i \in d.invites : j.creator = i.creator
    BY <1>2, <1>3
  <2>. QED
    BY <1>0, <1>3, <2>1 DEF KeysExist, Refers
<1>. QED
  BY <1>4, <1>5, <1>6, <1>7 DEF Sound, e

(* A member gets another password. *)
LEMMA UpdatePasswordSound ==
    ASSUME NEW d, Sound(d), NEW member, NEW secret \in Secrets
    PROVE  Sound(UpdatePassword(d, member, secret))
<1>. DEFINE e == UpdatePassword(d, member, secret)
            F(p) == IF p.member = member THEN [p EXCEPT !.secret = secret] ELSE p
<1>0. d \in Database /\ KeysUnique(d) /\ AllIdsUnique(d) /\ KeysExist(d)
  BY DEF Sound
<1>1. \A p \in d.passwords : F(p) \in PasswordRow /\ F(p).id = p.id
  BY <1>0 DEF Database, PasswordRow
<1>2. \A p \in d.passwords : F(p).id = p.id /\ F(p).member = p.member
  BY <1>0 DEF Database, PasswordRow
<1>3. /\ e.passwords = {F(p) : p \in d.passwords}
      /\ e.members = d.members /\ e.aliases = d.aliases /\ e.invites = d.invites
      /\ e.resets = d.resets /\ e.sessions = d.sessions /\ e.denied = d.denied
      /\ e.notices = d.notices /\ e.pinned = d.pinned /\ e.config = d.config
      /\ e.last = d.last
  BY <1>0 DEF UpdatePassword, Database
<1>4. e \in Database
  <2>1. {F(p) : p \in d.passwords} \in SUBSET PasswordRow
    BY <1>1
  <2>2. e = [d EXCEPT !.passwords = {F(p) : p \in d.passwords}]
    BY DEF UpdatePassword
  <2>. HIDE DEF F, e
  <2>. QED
    BY <1>0, <2>1, <2>2 DEF Database
<1>. HIDE DEF F, e
<1>5. AllIdsUnique(e)
  <2>1. \A u \in TableNames \ {"passwords"} : e[u] = d[u]
    BY <1>3 DEF TableNames
  <2>2. \A r, s \in d.passwords : r.id = s.id => r = s
    BY <1>0 DEF AllIdsUnique, IdsUnique
  <2>3. /\ \A r \in e["passwords"] : \E s \in d["passwords"] : s.id = r.id
        /\ \A r, s \in e["passwords"] : r.id = s.id => r = s
    BY <1>1, <1>3, <2>2
  <2>. QED
    BY <1>0, <1>3, <2>1, <2>3, UpdatedIds DEF TableNames
<1>6. KeysUnique(e)
  <2>1. \A p, q \in e.passwords : p.member = q.member => p = q
    BY <1>0, <1>2, <1>3 DEF KeysUnique
  <2>. QED
    BY <1>0, <1>3, <2>1 DEF KeysUnique
<1>7. KeysExist(e)
  <2>1. \A q \in e.passwords : \E p \in d.passwords : q.member = p.member
    BY <1>2, <1>3
  <2>. QED
    BY <1>0, <1>3, <2>1 DEF KeysExist, Refers
<1>. QED
  BY <1>4, <1>5, <1>6, <1>7 DEF Sound, e

(* A reset token is used. *)
LEMMA UpdateResetSound ==
    ASSUME NEW d, Sound(d), NEW id, NEW state \in States
    PROVE  Sound(UpdateReset(d, id, state))
<1>. DEFINE e == UpdateReset(d, id, state)
            F(t) == IF t.id = id THEN [t EXCEPT !.state = state] ELSE t
<1>0. d \in Database /\ KeysUnique(d) /\ AllIdsUnique(d) /\ KeysExist(d)
  BY DEF Sound
<1>1. \A t \in d.resets : F(t) \in ResetRow /\ F(t).id = t.id
  BY <1>0 DEF Database, ResetRow
<1>2. \A t \in d.resets : F(t).id = t.id /\ F(t).creator = t.creator /\ F(t).member = t.member
  BY <1>0 DEF Database, ResetRow
<1>3. /\ e.resets = {F(t) : t \in d.resets}
      /\ e.members = d.members /\ e.aliases = d.aliases /\ e.invites = d.invites
      /\ e.passwords = d.passwords /\ e.sessions = d.sessions /\ e.denied = d.denied
      /\ e.notices = d.notices /\ e.pinned = d.pinned /\ e.config = d.config
      /\ e.last = d.last
  BY <1>0 DEF UpdateReset, Database
<1>4. e \in Database
  <2>1. {F(t) : t \in d.resets} \in SUBSET ResetRow
    BY <1>1
  <2>2. e = [d EXCEPT !.resets = {F(t) : t \in d.resets}]
    BY DEF UpdateReset
  <2>. HIDE DEF F, e
  <2>. QED
    BY <1>0, <2>1, <2>2 DEF Database
<1>. HIDE DEF F, e
<1>5. AllIdsUnique(e)
  <2>1. \A u \in TableNames \ {"resets"} : e[u] = d[u]
    BY <1>3 DEF TableNames
  <2>2. \A r, s \in d.resets : r.id = s.id => r = s
    BY <1>0 DEF AllIdsUnique, IdsUnique
  <2>3. /\ \A r \in e["resets"] : \E s \in d["resets"] : s.id = r.id
        /\ \A r, s \in e["resets"] : r.id = s.id => r = s
    BY <1>1, <1>3, <2>2
  <2>. QED
    BY <1>0, <1>3, <2>1, <2>3, UpdatedIds DEF TableNames
<1>6. KeysUnique(e)
  BY <1>0, <1>3 DEF KeysUnique
<1>7. KeysExist(e)
  <2>1. \A s \in e.resets : \E t \in d.resets : s.creator = t.creator /\ s.member = t.member
    BY <1>2, <1>3
  <2>. QED
    BY <1>0, <1>3, <2>1 DEF KeysExist, Refers
<1>. QED
  BY <1>4, <1>5, <1>6, <1>7 DEF Sound, e

(* A notice is written anew. *)
LEMMA UpdateNoticeSound ==
    ASSUME NEW d, Sound(d), NEW id, NEW language \in Languages
    PROVE  Sound(UpdateNotice(d, id, language))
<1>. DEFINE e == UpdateNotice(d, id, language)
            F(n) == IF n.id = id THEN [n EXCEPT !.language = language] ELSE n
<1>0. d \in Database /\ KeysUnique(d) /\ AllIdsUnique(d) /\ KeysExist(d)
  BY DEF Sound
<1>1. \A n \in d.notices : F(n) \in NoticeRow /\ F(n).id = n.id
  BY <1>0 DEF Database, NoticeRow
<1>2. \A n \in d.notices : F(n).id = n.id
  BY <1>0 DEF Database, NoticeRow
<1>3. /\ e.notices = {F(n) : n \in d.notices}
      /\ e.members = d.members /\ e.aliases = d.aliases /\ e.invites = d.invites
      /\ e.passwords = d.passwords /\ e.resets = d.resets /\ e.sessions = d.sessions
      /\ e.denied = d.denied /\ e.pinned = d.pinned /\ e.config = d.config
      /\ e.last = d.last
  BY <1>0 DEF UpdateNotice, Database
<1>4. e \in Database
  <2>1. {F(n) : n \in d.notices} \in SUBSET NoticeRow
    BY <1>1
  <2>2. e = [d EXCEPT !.notices = {F(n) : n \in d.notices}]
    BY DEF UpdateNotice
  <2>. HIDE DEF F, e
  <2>. QED
    BY <1>0, <2>1, <2>2 DEF Database
<1>. HIDE DEF F, e
<1>5. AllIdsUnique(e)
  <2>1. \A u \in TableNames \ {"notices"} : e[u] = d[u]
    BY <1>3 DEF TableNames
  <2>2. \A r, s \in d.notices : r.id = s.id => r = s
    BY <1>0 DEF AllIdsUnique, IdsUnique
  <2>3. /\ \A r \in e["notices"] : \E s \in d["notices"] : s.id = r.id
        /\ \A r, s \in e["notices"] : r.id = s.id => r = s
    BY <1>1, <1>3, <2>2
  <2>. QED
    BY <1>0, <1>3, <2>1, <2>3, UpdatedIds DEF TableNames
<1>6. KeysUnique(e)
  BY <1>0, <1>3 DEF KeysUnique
<1>7. KeysExist(e)
  <2>1. \A n \in d.notices : \E m \in e.notices : m.id = n.id
    BY <1>2, <1>3
  <2>. QED
    BY <1>0, <1>3, <2>1 DEF KeysExist, Refers
<1>. QED
  BY <1>4, <1>5, <1>6, <1>7 DEF Sound, e

(* A token gets older. *)
LEMMA OlderSound ==
    ASSUME NEW d, Sound(d), NEW id
    PROVE  Sound(Older(d, id))
<1>. DEFINE e == Older(d, id)
            F(s) == IF s.id # id THEN s
                    ELSE [s EXCEPT !.age = IF @ = "young" THEN "expired" ELSE "old"]
<1>0. d \in Database /\ KeysUnique(d) /\ AllIdsUnique(d) /\ KeysExist(d)
  BY DEF Sound
<1>1. \A s \in d.sessions : F(s) \in SessionRow /\ F(s).id = s.id
  BY <1>0 DEF Database, SessionRow, Ages
<1>2. \A s \in d.sessions : F(s).id = s.id /\ F(s).member = s.member
  BY <1>0 DEF Database, SessionRow
<1>3. /\ e.sessions = {F(s) : s \in d.sessions}
      /\ e.members = d.members /\ e.aliases = d.aliases /\ e.invites = d.invites
      /\ e.passwords = d.passwords /\ e.resets = d.resets /\ e.denied = d.denied
      /\ e.notices = d.notices /\ e.pinned = d.pinned /\ e.config = d.config
      /\ e.last = d.last
  BY <1>0 DEF Older, Database
<1>4. e \in Database
  <2>1. {F(s) : s \in d.sessions} \in SUBSET SessionRow
    BY <1>1
  <2>2. e = [d EXCEPT !.sessions = {F(s) : s \in d.sessions}]
    BY DEF Older
  <2>. HIDE DEF F, e
  <2>. QED
    BY <1>0, <2>1, <2>2 DEF Database
<1>. HIDE DEF F, e
<1>5. AllIdsUnique(e)
  <2>1. \A u \in TableNames \ {"sessions"} : e[u] = d[u]
    BY <1>3 DEF TableNames
  <2>2. \A r, s \in d.sessions : r.id = s.id => r = s
    BY <1>0 DEF AllIdsUnique, IdsUnique
  <2>3. /\ \A r \in e["sessions"] : \E s \in d["sessions"] : s.id = r.id
        /\ \A r, s \in e["sessions"] : r.id = s.id => r = s
    BY <1>1, <1>3, <2>2
  <2>. QED
    BY <1>0, <1>3, <2>1, <2>3, UpdatedIds DEF TableNames
<1>6. KeysUnique(e)
  BY <1>0, <1>3 DEF KeysUnique
<1>7. KeysExist(e)
  <2>1. \A r \in e.sessions : \E s \in d.sessions : r.member = s.member
    BY <1>2, <1>3
  <2>. QED
    BY <1>0, <1>3, <2>1 DEF KeysExist, Refers
<1>. QED
  BY <1>4, <1>5, <1>6, <1>7 DEF Sound, e
-----------------------------------------------------------------------------
(* Deleting rows, with what refers to them.                                *)

(* A member goes with all it owns. *)
LEMMA DeleteMemberSound ==
    ASSUME NEW d, Sound(d), NEW id
    PROVE  Sound(DeleteMember(d, id))
<1>. DEFINE e == DeleteMember(d, id)
<1>0. d \in Database /\ KeysExist(d)
  BY DEF Sound
<1>1. /\ e.members = {m \in d.members : m.id # id}
      /\ e.aliases = {a \in d.aliases : a.member # id}
      /\ e.invites = {i \in d.invites : i.creator # id}
      /\ e.passwords = {p \in d.passwords : p.member # id}
      /\ e.resets = {t \in d.resets : t.creator # id /\ t.member # id}
      /\ e.sessions = {s \in d.sessions : s.member # id}
      /\ e.denied = d.denied /\ e.notices = d.notices /\ e.pinned = d.pinned
      /\ e.last = d.last
  BY <1>0 DEF DeleteMember, MemberAliases, Database
<1>2. e \in Database
  BY <1>0 DEF DeleteMember, MemberAliases, Database
<1>3. KeysExist(e)
  BY <1>0, <1>1 DEF KeysExist, Refers
<1>. QED
  BY <1>1, <1>2, <1>3, FewerRows

(* Rows nobody refers to may go, and so may used or old ones. *)
LEMMA DeletionsSound ==
    ASSUME NEW d, Sound(d), NEW id
    PROVE  /\ Sound(DeleteAlias(d, id)) /\ Sound(DeleteUsedInvites(d))
           /\ Sound(DeleteUsedResets(d)) /\ Sound(DeleteSession(d, id))
           /\ Sound(DeleteSessionsOf(d, id)) /\ Sound(DeleteOldSessions(d))
           /\ Sound(DeleteDeniedKey(d, id))
<1>0. d \in Database /\ KeysExist(d)
  BY DEF Sound
<1>1. ASSUME NEW rows \in SUBSET d.aliases PROVE Sound([d EXCEPT !.aliases = rows])
  <2>. DEFINE e == [d EXCEPT !.aliases = rows]
  <2>1. e \in Database /\ KeysExist(e)
    BY <1>0, <1>1 DEF Database, KeysExist
  <2>. QED
    BY <1>0, <2>1, FewerRows DEF Database
<1>2. ASSUME NEW rows \in SUBSET d.invites PROVE Sound([d EXCEPT !.invites = rows])
  <2>. DEFINE e == [d EXCEPT !.invites = rows]
  <2>1. e \in Database /\ KeysExist(e)
    BY <1>0, <1>2 DEF Database, KeysExist
  <2>. QED
    BY <1>0, <2>1, FewerRows DEF Database
<1>3. ASSUME NEW rows \in SUBSET d.resets PROVE Sound([d EXCEPT !.resets = rows])
  <2>. DEFINE e == [d EXCEPT !.resets = rows]
  <2>1. e \in Database /\ KeysExist(e)
    BY <1>0, <1>3 DEF Database, KeysExist
  <2>. QED
    BY <1>0, <2>1, FewerRows DEF Database
<1>4. ASSUME NEW rows \in SUBSET d.sessions PROVE Sound([d EXCEPT !.sessions = rows])
  <2>. DEFINE e == [d EXCEPT !.sessions = rows]
  <2>1. e \in Database /\ KeysExist(e)
    BY <1>0, <1>4 DEF Database, KeysExist
  <2>. QED
    BY <1>0, <2>1, FewerRows DEF Database
<1>5. ASSUME NEW rows \in SUBSET d.denied PROVE Sound([d EXCEPT !.denied = rows])
  <2>. DEFINE e == [d EXCEPT !.denied = rows]
  <2>1. e \in Database /\ KeysExist(e)
    BY <1>0, <1>5 DEF Database, KeysExist
  <2>. QED
    BY <1>0, <2>1, FewerRows DEF Database
<1>6. Sound(DeleteAlias(d, id)) /\ Sound(DeleteUsedInvites(d)) /\ Sound(DeleteUsedResets(d))
  BY <1>1, <1>2, <1>3 DEF DeleteAlias, DeleteUsedInvites, DeleteUsedResets
<1>7. Sound(DeleteSession(d, id)) /\ Sound(DeleteSessionsOf(d, id)) /\ Sound(DeleteOldSessions(d))
  BY <1>4 DEF DeleteSession, DeleteSessionsOf, DeleteOldSessions
<1>8. Sound(DeleteDeniedKey(d, id))
  BY <1>5 DEF DeleteDeniedKey
<1>. QED
  BY <1>6, <1>7, <1>8

(* A notice goes if it is not pinned; one that is there can be pinned; and *)
(* nothing refers to the configuration.                                    *)
LEMMA DeleteNoticeSound ==
    ASSUME NEW d, Sound(d), NEW id, \A p \in d.pinned : p.notice # id
    PROVE  Sound(DeleteNotice(d, id))
<1>. DEFINE e == DeleteNotice(d, id)
<1>0. d \in Database /\ KeysExist(d)
  BY DEF Sound
<1>1. e \in Database
  BY <1>0 DEF DeleteNotice, Database
<1>2. KeysExist(e)
  BY <1>0 DEF DeleteNotice, Database, KeysExist, Refers
<1>. QED
  BY <1>0, <1>1, <1>2, FewerRows DEF DeleteNotice, Database

(* What pins a notice that exists to a page keeps the references sound. *)
LEMMA AddNoticesSound ==
    ASSUME NEW d, Sound(d), NEW n \in d.notices, NEW pin \in Pins
    PROVE  Sound(AddNotices(d, pin, n.id))
<1>. DEFINE e == AddNotices(d, pin, n.id)
<1>0. d \in Database /\ KeysExist(d)
  BY DEF Sound
<1>1. [pin |-> pin, notice |-> n.id] \in PinRow
  BY <1>0 DEF Database, NoticeRow, PinRow
<1>2. e \in Database
  BY <1>0, <1>1 DEF AddNotices, Database
<1>3. KeysExist(e)
  BY <1>0 DEF AddNotices, Database, KeysExist, Refers
<1>. QED
  BY <1>0, <1>2, <1>3, FewerRows DEF AddNotices, Database

(* Settings refer to nothing, so that changing them keeps the tables sound. *)
LEMMA UpdateConfigSound ==
    ASSUME NEW d, Sound(d), NEW config \in ConfigRow
    PROVE  Sound(UpdateConfig(d, config))
<1>. DEFINE e == UpdateConfig(d, config)
<1>0. d \in Database /\ KeysExist(d)
  BY DEF Sound
<1>1. e \in Database /\ KeysExist(e)
  BY <1>0 DEF UpdateConfig, Database, KeysExist
<1>. QED
  BY <1>0, <1>1, FewerRows DEF UpdateConfig, Database

-----------------------------------------------------------------------------
(* The services: what each of them leaves behind when it may succeed.      *)

(* A password that is set, for the first time or again, keeps the tables sound. *)
LEMMA UpsertSound ==
    ASSUME NEW d, Sound(d), NEW m \in d.members, NEW secret \in Secrets
    PROVE  Sound(Upsert(d, m.id, secret))
BY InsertPasswordSound, UpdatePasswordSound DEF Upsert

(* The services of the members (add, remove, change the role) keep the tables sound. *)
LEMMA MembersServices ==
    ASSUME NEW d, Sound(d), NEW id, NEW role \in Roles
    PROVE  /\ \A feed \in Feeds :
                 AddMember(d, feed, role).may => Sound(AddMember(d, feed, role).then)
           /\ Sound(RemoveID(d, id).then)
           /\ Sound(SetRole(d, id, role).then)
BY InsertMemberSound, DeleteMemberSound, UpdateMemberSound DEF AddMember, RemoveID, SetRole

(* Consuming an invite, which may add a member first, keeps the tables sound. *)
LEMMA ConsumeSound ==
    ASSUME NEW d, Sound(d), NEW id, NEW feed \in Feeds
    PROVE  Sound(Consume(d, id, feed).then)
<1>. DEFINE with == IF MembersWithFeed(d, feed) = {} THEN InsertMember(d, feed, "member") ELSE d
<1>1. "member" \in Roles /\ "used" \in States
  BY DEF Roles, States
<1>2. Sound(with)
  BY <1>1, InsertMemberSound
<1>. HIDE DEF with
<1>3. Sound(UpdateInvite(with, id, "used"))
  BY <1>1, <1>2, UpdateInviteSound
<1>. QED
  BY <1>3 DEF Consume, with

(* The other services of the invites keep the tables sound. *)
LEMMA InvitesServices ==
    ASSUME NEW d, Sound(d), NEW m \in d.members, NEW id
    PROVE  /\ Sound(CreateInvite(d, m.id).then) /\ Sound(CreateOpenInvite(d, m.id).then)
           /\ Sound(RevokeInvite(d, id).then)
BY InsertInviteSound, UpdateInviteSound DEF CreateInvite, CreateOpenInvite, RevokeInvite, States

(* The services of the aliases keep the tables sound. *)
LEMMA AliasesServices ==
    ASSUME NEW d, Sound(d), NEW name \in Names, NEW feed \in Feeds, NEW id
    PROVE  Sound(Register(d, name, feed).then) /\ Sound(RevokeAlias(d, id).then)
<1>1. Sound(RevokeAlias(d, id).then)
  BY DeletionsSound DEF RevokeAlias
<1>2. Sound(Register(d, name, feed).then)
  <2>1. CASE MembersWithFeed(d, feed) # {} /\ AliasesNamed(d, name) = {}
    <3>. DEFINE m == CHOOSE m \in d.members : m.feed = feed
    <3>1. m \in d.members /\ m.feed = feed
      BY <2>1 DEF MembersWithFeed
    <3>. HIDE DEF m
    <3>2. Sound(InsertAlias(d, name, m.id, feed))
      BY <2>1, <3>1, InsertAliasSound
    <3>. QED
      BY <2>1, <3>2 DEF Register, m
  <2>2. CASE ~(MembersWithFeed(d, feed) # {} /\ AliasesNamed(d, name) = {})
    BY <2>2 DEF Register
  <2>. QED
    BY <2>1, <2>2
<1>. QED
  BY <1>1, <1>2

(* The services of passwords and of reset links keep the tables sound. *)
LEMMA PasswordsServices ==
    ASSUME NEW d, Sound(d), NEW m \in d.members, NEW c \in d.members, NEW id,
           NEW secret \in Secrets
    PROVE  /\ Sound(SetPassword(d, m.id, secret).then)
           /\ Sound(CreateResetToken(d, c.id, m.id).then)
           /\ Sound(SetPasswordWithToken(d, id, secret).then)
<1>1. Sound(SetPassword(d, m.id, secret).then)
  BY UpsertSound DEF SetPassword
<1>2. Sound(CreateResetToken(d, c.id, m.id).then)
  BY InsertResetSound DEF CreateResetToken
<1>3. Sound(SetPasswordWithToken(d, id, secret).then)
  <2>1. CASE ActiveReset(d, id) # {}
    <3>. DEFINE t == CHOOSE t \in ActiveReset(d, id) : TRUE
    <3>1. t \in d.resets
      BY <2>1 DEF ActiveReset, ActiveResets
    <3>. HIDE DEF t
    <3>2. PICK n \in d.members : n.id = t.member
      BY <3>1 DEF Sound, KeysExist, Refers
    <3>3. Sound(Upsert(d, t.member, secret))
      BY <3>2, UpsertSound
    <3>4. Sound(UpdateReset(Upsert(d, t.member, secret), id, "used"))
      BY <3>3, UpdateResetSound DEF States
    <3>. QED
      BY <2>1, <3>4 DEF SetPasswordWithToken, t
  <2>2. CASE ActiveReset(d, id) = {}
    BY <2>2 DEF SetPasswordWithToken
  <2>. QED
    BY <2>1, <2>2
<1>. QED
  BY <1>1, <1>2, <1>3

(* What the ticker deletes, nothing else refers to. *)
LEMMA CleanUpSound ==
    ASSUME NEW d, Sound(d)
    PROVE  Sound(CleanUp(d))
BY DeletionsSound DEF CleanUp

(* No service, and no cleanup, breaks what the rows promise each other. *)
LEMMA ServiceSound ==
    ASSUME Sound(db), DBNext
    PROVE  Sound(db')
<1>0. ASSUME NEW rows, NEW id \in Ids(rows) PROVE \E r \in rows : r.id = id
  BY <1>0 DEF Ids
<1>1. CASE MembersChange
  <2>1. "member" \in Roles
    BY DEF Roles
  <2>. QED
    BY <1>1, <2>1, MembersServices DEF MembersChange, Does
<1>2. CASE InvitesChange
  <2>1. ASSUME NEW id \in Ids(db.members),
               Does(CreateInvite(db, id)) \/ Does(CreateOpenInvite(db, id))
        PROVE  Sound(db')
    BY <1>0, <2>1, InvitesServices DEF Does
  <2>2. ASSUME NEW id, Does(RevokeInvite(db, id)) PROVE Sound(db')
    BY <2>2, UpdateInviteSound DEF Does, RevokeInvite, States
  <2>3. ASSUME NEW id, NEW feed \in Feeds, Does(Consume(db, id, feed)) PROVE Sound(db')
    BY <2>3, ConsumeSound DEF Does
  <2>. QED
    BY <1>2, <2>1, <2>2, <2>3 DEF InvitesChange
<1>3. CASE AliasesChange
  <2>1. ASSUME NEW id, Does(RevokeAlias(db, id)) PROVE Sound(db')
    BY <2>1, DeletionsSound DEF Does, RevokeAlias
  <2>. QED
    BY <1>3, <2>1, AliasesServices DEF AliasesChange, Does
<1>4. CASE PasswordsChange
  <2>1. ASSUME NEW id \in Ids(db.members), NEW secret \in Secrets,
               Does(SetPassword(db, id, secret))
        PROVE  Sound(db')
    BY <1>0, <2>1, UpsertSound DEF Does, SetPassword
  <2>2. ASSUME NEW id \in Ids(db.resets), NEW secret \in Secrets,
               Does(SetPasswordWithToken(db, id, secret))
        PROVE  Sound(db')
    <3>1. PICK t \in db.resets : t.id = id
      BY <1>0
    <3>2. PICK m \in db.members : m.id = t.member
      BY DEF Sound, KeysExist, Refers
    <3>. QED
      BY <2>2, PasswordsServices DEF Does
  <2>3. ASSUME NEW c \in Ids(db.members), NEW id \in Ids(db.members),
               Does(CreateResetToken(db, c, id))
        PROVE  Sound(db')
    BY <1>0, <2>3, InsertResetSound DEF Does, CreateResetToken
  <2>. QED
    BY <1>4, <2>1, <2>2, <2>3 DEF PasswordsChange
<1>5. CASE SessionsChange
  <2>1. ASSUME NEW id \in Ids(db.members), Does(CreateToken(db, id)) PROVE Sound(db')
    BY <1>0, <2>1, InsertSessionSound DEF Does, CreateToken
  <2>2. ASSUME NEW id, Does(WipeTokens(db, id)) \/ Does(RemoveToken(db, id)) PROVE Sound(db')
    BY <2>2, DeletionsSound DEF Does, WipeTokens, RemoveToken
  <2>. QED
    BY <1>5, <2>1, <2>2, OlderSound DEF SessionsChange
<1>6. CASE DeniedChange
  BY <1>6, InsertDeniedSound, DeletionsSound DEF DeniedChange, Does, AddDenied, RemoveDenied
<1>7. CASE NoticesChange
  <2>1. ASSUME NEW id, NEW pin \in Pins, Does(PinNotice(db, pin, id)) PROVE Sound(db')
    <3>1. PICK n \in db.notices : n.id = id
      BY <2>1 DEF Does, PinNotice, FindNotice
    <3>. QED
      BY <2>1, <3>1, AddNoticesSound DEF Does, PinNotice
  <2>2. ASSUME NEW id, Does(RemoveNotice(db, id)) PROVE Sound(db')
    BY <2>2, DeleteNoticeSound DEF Does, RemoveNotice
  <2>. QED
    BY <1>7, <2>1, <2>2, InsertNoticeSound, UpdateNoticeSound
    DEF NoticesChange, Does, SaveNew, SaveNotice
<1>8. CASE ConfigChange
  <2>1. db.config \in ConfigRow
    BY DEF Sound, Database
  <2>2. /\ \A mode \in Modes : [db.config EXCEPT !.mode = mode] \in ConfigRow
        /\ \A language \in Languages : [db.config EXCEPT !.language = language] \in ConfigRow
    BY <2>1 DEF ConfigRow
  <2>. QED
    BY <1>8, <2>2, UpdateConfigSound
    DEF ConfigChange, Does, SetPrivacyMode, SetDefaultLanguage, FindConfig
<1>. QED
  BY <1>1, <1>2, <1>3, <1>4, <1>5, <1>6, <1>7, <1>8, DeletionsSound, CleanUpSound DEF DBNext

\* The rows of the database fit together whatever services are called, for any number of rows:
\* what is owned has its owner, and keys and ids stand once (roomdb/sqlite).
THEOREM ServicesKeepIntegrity == DBSpec => []Integrity
<1>1. Integrity /\ [DBNext]_db => Integrity'
  BY ServiceSound DEF Integrity
<1>. QED
  BY <1>1, PTL DEF DBSpec

-----------------------------------------------------------------------------
(* What comes after: ids are not handed out again, so that a row with an   *)
(* old id is the old row, with the same owner; and what was used stays so. *)

Continues(d, e) ==
    /\ \A t \in TableNames : d.last[t] \in Nat /\ e.last[t] \in Nat /\ d.last[t] <= e.last[t]
    /\ \A n \in e.members : n.id \in Nat /\ (n.id > d.last["members"]
                                  \/ \E m \in d.members : m.id = n.id /\ m.feed = n.feed)
    /\ \A s \in e.sessions : s.id \in Nat /\ (s.id > d.last["sessions"]
                                  \/ \E r \in d.sessions : r.id = s.id /\ r.member = s.member)
    /\ \A j \in e.invites : j.id \in Nat /\ (j.id > d.last["invites"]
                                  \/ \E i \in d.invites : i.id = j.id /\ (j.state = "active" => i.state = "active"))
    /\ \A t \in e.resets : t.id \in Nat /\ (t.id > d.last["resets"]
                                  \/ \E r \in d.resets : /\ r.id = t.id /\ r.member = t.member
                                                        /\ (t.state = "active" => r.state = "active"))

(* One after the other. *)
LEMMA ContinuesOn ==
    ASSUME NEW d, NEW e, NEW f, Continues(d, e), Continues(e, f)
    PROVE  Continues(d, f)
<1>0. {"members", "sessions", "invites", "resets"} \subseteq TableNames
  BY DEF TableNames
<1>1. \A t \in TableNames : d.last[t] \in Nat /\ f.last[t] \in Nat /\ d.last[t] <= f.last[t]
  BY DEF Continues
<1>2. \A n \in f.members : n.id \in Nat /\ (n.id > d.last["members"]
                                \/ \E m \in d.members : m.id = n.id /\ m.feed = n.feed)
  BY <1>0 DEF Continues
<1>3. \A s \in f.sessions : s.id \in Nat /\ (s.id > d.last["sessions"]
                                \/ \E r \in d.sessions : r.id = s.id /\ r.member = s.member)
  BY <1>0 DEF Continues
<1>4. \A j \in f.invites : j.id \in Nat /\ (j.id > d.last["invites"]
                                \/ \E i \in d.invites : i.id = j.id /\ (j.state = "active" => i.state = "active"))
  BY <1>0 DEF Continues
<1>5. \A t \in f.resets : t.id \in Nat /\ (t.id > d.last["resets"]
                                \/ \E r \in d.resets : /\ r.id = t.id /\ r.member = t.member
                                                      /\ (t.state = "active" => r.state = "active"))
  BY <1>0 DEF Continues
<1>. QED
  BY <1>1, <1>2, <1>3, <1>4, <1>5 DEF Continues

(* A database has rows with numbers. *)
LEMMA RowTypes ==
    ASSUME NEW d \in Database
    PROVE  /\ \A t \in TableNames : d.last[t] \in Nat
           /\ \A n \in d.members : n.id \in Nat
           /\ \A s \in d.sessions : s.id \in Nat
           /\ \A j \in d.invites : j.id \in Nat
           /\ \A t \in d.resets : t.id \in Nat
BY DEF Database, MemberRow, SessionRow, InviteRow, ResetRow

(* Rows that are new, or were there. *)
LEMMA ContinuesBy ==
    ASSUME NEW d \in Database, NEW e,
           \A t \in TableNames : e.last[t] \in Nat /\ d.last[t] <= e.last[t],
           \A n \in e.members : \/ n \in d.members
                                \/ n.id \in Nat /\ n.id > d.last["members"]
                                \/ \E m \in d.members : m.id = n.id /\ m.feed = n.feed,
           \A s \in e.sessions : \/ s \in d.sessions
                                 \/ s.id \in Nat /\ s.id > d.last["sessions"]
                                 \/ \E r \in d.sessions : r.id = s.id /\ r.member = s.member,
           \A j \in e.invites : \/ j \in d.invites
                                \/ j.id \in Nat /\ j.id > d.last["invites"]
                                \/ \E i \in d.invites : /\ i.id = j.id
                                                        /\ (j.state = "active" => i.state = "active"),
           \A t \in e.resets : \/ t \in d.resets
                               \/ t.id \in Nat /\ t.id > d.last["resets"]
                               \/ \E r \in d.resets : /\ r.id = t.id /\ r.member = t.member
                                                      /\ (t.state = "active" => r.state = "active")
    PROVE  Continues(d, e)
<1>1. \A n \in e.members : n.id \in Nat /\ (n.id > d.last["members"]
                                  \/ \E m \in d.members : m.id = n.id /\ m.feed = n.feed)
  BY RowTypes
<1>2. \A s \in e.sessions : s.id \in Nat /\ (s.id > d.last["sessions"]
                                  \/ \E r \in d.sessions : r.id = s.id /\ r.member = s.member)
  BY RowTypes
<1>3. \A j \in e.invites : j.id \in Nat /\ (j.id > d.last["invites"]
                                  \/ \E i \in d.invites : i.id = j.id /\ (j.state = "active" => i.state = "active"))
  BY RowTypes
<1>4. \A t \in e.resets : t.id \in Nat /\ (t.id > d.last["resets"]
                                  \/ \E r \in d.resets : /\ r.id = t.id /\ r.member = t.member
                                                        /\ (t.state = "active" => r.state = "active"))
  BY RowTypes
<1>. QED
  BY <1>1, <1>2, <1>3, <1>4, RowTypes DEF Continues

(* Ids only count up. *)
LEMMA LastGrows ==
    ASSUME NEW d \in Database, NEW t \in TableNames, NEW last, last = [d.last EXCEPT ![t] = @ + 1]
    PROVE  \A u \in TableNames : last[u] \in Nat /\ d.last[u] <= last[u]
BY RowTypes DEF Database

(* What is inserted has a new id. *)
LEMMA InsertsContinue ==
    ASSUME NEW d \in Database, NEW id, NEW other, NEW value
    PROVE  /\ Continues(d, InsertMember(d, id, other)) /\ Continues(d, InsertAlias(d, id, other, value))
           /\ Continues(d, InsertInvite(d, id)) /\ Continues(d, InsertPassword(d, id, other))
           /\ Continues(d, InsertReset(d, id, other)) /\ Continues(d, InsertSession(d, id))
           /\ Continues(d, InsertDeniedKey(d, id)) /\ Continues(d, InsertNotice(d, id))
<1>0. TableNames = {"members", "aliases", "invites", "passwords", "resets",
                    "sessions", "denied", "notices"}
  BY DEF TableNames
<1>1. Continues(d, InsertMember(d, id, other))
  <2>. DEFINE e == InsertMember(d, id, other)
              row == [id |-> NextId(d, "members"), feed |-> id, role |-> other]
  <2>1. /\ e.members = d.members \cup {row}
        /\ e.sessions = d.sessions /\ e.invites = d.invites /\ e.resets = d.resets
        /\ e.last = [d.last EXCEPT !["members"] = @ + 1]
    BY DEF InsertMember, Database
  <2>2. row.id = NextId(d, "members")
    OBVIOUS
  <2>. HIDE DEF e, row
  <2>3. \A u \in TableNames : e.last[u] \in Nat /\ d.last[u] <= e.last[u]
    BY <1>0, <2>1, LastGrows
  <2>4. row.id \in Nat /\ row.id > d.last["members"]
    BY <1>0, <2>2, LastTypes, RowTypes
  <2>5. Continues(d, e)
    BY <2>1, <2>3, <2>4, ContinuesBy
  <2>. QED
    BY <2>5 DEF e
<1>2. Continues(d, InsertInvite(d, id))
  <2>. DEFINE e == InsertInvite(d, id)
              row == [id |-> NextId(d, "invites"), creator |-> id, state |-> "active"]
  <2>1. /\ e.invites = d.invites \cup {row}
        /\ e.members = d.members /\ e.sessions = d.sessions /\ e.resets = d.resets
        /\ e.last = [d.last EXCEPT !["invites"] = @ + 1]
    BY DEF InsertInvite, Database
  <2>2. row.id = NextId(d, "invites")
    OBVIOUS
  <2>. HIDE DEF e, row
  <2>3. \A u \in TableNames : e.last[u] \in Nat /\ d.last[u] <= e.last[u]
    BY <1>0, <2>1, LastGrows
  <2>4. row.id \in Nat /\ row.id > d.last["invites"]
    BY <1>0, <2>2, LastTypes, RowTypes
  <2>5. Continues(d, e)
    BY <2>1, <2>3, <2>4, ContinuesBy
  <2>. QED
    BY <2>5 DEF e
<1>3. Continues(d, InsertReset(d, id, other))
  <2>. DEFINE e == InsertReset(d, id, other)
              row == [id |-> NextId(d, "resets"), creator |-> id, member |-> other,
                      state |-> "active"]
  <2>1. /\ e.resets = d.resets \cup {row}
        /\ e.members = d.members /\ e.sessions = d.sessions /\ e.invites = d.invites
        /\ e.last = [d.last EXCEPT !["resets"] = @ + 1]
    BY DEF InsertReset, Database
  <2>2. row.id = NextId(d, "resets")
    OBVIOUS
  <2>. HIDE DEF e, row
  <2>3. \A u \in TableNames : e.last[u] \in Nat /\ d.last[u] <= e.last[u]
    BY <1>0, <2>1, LastGrows
  <2>4. row.id \in Nat /\ row.id > d.last["resets"]
    BY <1>0, <2>2, LastTypes, RowTypes
  <2>5. Continues(d, e)
    BY <2>1, <2>3, <2>4, ContinuesBy
  <2>. QED
    BY <2>5 DEF e
<1>4. Continues(d, InsertSession(d, id))
  <2>. DEFINE e == InsertSession(d, id)
              row == [id |-> NextId(d, "sessions"), member |-> id, age |-> "young"]
  <2>1. /\ e.sessions = d.sessions \cup {row}
        /\ e.members = d.members /\ e.invites = d.invites /\ e.resets = d.resets
        /\ e.last = [d.last EXCEPT !["sessions"] = @ + 1]
    BY DEF InsertSession, Database
  <2>2. row.id = NextId(d, "sessions")
    OBVIOUS
  <2>. HIDE DEF e, row
  <2>3. \A u \in TableNames : e.last[u] \in Nat /\ d.last[u] <= e.last[u]
    BY <1>0, <2>1, LastGrows
  <2>4. row.id \in Nat /\ row.id > d.last["sessions"]
    BY <1>0, <2>2, LastTypes, RowTypes
  <2>5. Continues(d, e)
    BY <2>1, <2>3, <2>4, ContinuesBy
  <2>. QED
    BY <2>5 DEF e
<1>5. Continues(d, InsertAlias(d, id, other, value))
  <2>. DEFINE e == InsertAlias(d, id, other, value)
  <2>1. /\ e.members = d.members /\ e.sessions = d.sessions /\ e.invites = d.invites /\ e.resets = d.resets
        /\ e.last = [d.last EXCEPT !["aliases"] = @ + 1]
    BY DEF InsertAlias, Database
  <2>. HIDE DEF e
  <2>2. \A u \in TableNames : e.last[u] \in Nat /\ d.last[u] <= e.last[u]
    BY <1>0, <2>1, LastGrows
  <2>3. Continues(d, e)
    BY <2>1, <2>2, ContinuesBy
  <2>. QED
    BY <2>3 DEF e
<1>6. Continues(d, InsertPassword(d, id, other))
  <2>. DEFINE e == InsertPassword(d, id, other)
  <2>1. /\ e.members = d.members /\ e.sessions = d.sessions /\ e.invites = d.invites /\ e.resets = d.resets
        /\ e.last = [d.last EXCEPT !["passwords"] = @ + 1]
    BY DEF InsertPassword, Database
  <2>. HIDE DEF e
  <2>2. \A u \in TableNames : e.last[u] \in Nat /\ d.last[u] <= e.last[u]
    BY <1>0, <2>1, LastGrows
  <2>3. Continues(d, e)
    BY <2>1, <2>2, ContinuesBy
  <2>. QED
    BY <2>3 DEF e
<1>7. Continues(d, InsertDeniedKey(d, id))
  <2>. DEFINE e == InsertDeniedKey(d, id)
  <2>1. /\ e.members = d.members /\ e.sessions = d.sessions /\ e.invites = d.invites /\ e.resets = d.resets
        /\ e.last = [d.last EXCEPT !["denied"] = @ + 1]
    BY DEF InsertDeniedKey, Database
  <2>. HIDE DEF e
  <2>2. \A u \in TableNames : e.last[u] \in Nat /\ d.last[u] <= e.last[u]
    BY <1>0, <2>1, LastGrows
  <2>3. Continues(d, e)
    BY <2>1, <2>2, ContinuesBy
  <2>. QED
    BY <2>3 DEF e
<1>8. Continues(d, InsertNotice(d, id))
  <2>. DEFINE e == InsertNotice(d, id)
  <2>1. /\ e.members = d.members /\ e.sessions = d.sessions /\ e.invites = d.invites /\ e.resets = d.resets
        /\ e.last = [d.last EXCEPT !["notices"] = @ + 1]
    BY DEF InsertNotice, Database
  <2>. HIDE DEF e
  <2>2. \A u \in TableNames : e.last[u] \in Nat /\ d.last[u] <= e.last[u]
    BY <1>0, <2>1, LastGrows
  <2>3. Continues(d, e)
    BY <2>1, <2>2, ContinuesBy
  <2>. QED
    BY <2>3 DEF e
<1>. QED
  BY <1>1, <1>2, <1>3, <1>4, <1>5, <1>6, <1>7, <1>8

(* What is updated keeps its id and its owner. *)
LEMMA UpdatesContinue ==
    ASSUME NEW d \in Database, NEW id, NEW value
    PROVE  /\ Continues(d, UpdateMember(d, id, value)) /\ Continues(d, UpdateInvite(d, id, "used"))
           /\ Continues(d, UpdatePassword(d, id, value)) /\ Continues(d, UpdateReset(d, id, "used"))
           /\ Continues(d, UpdateNotice(d, id, value)) /\ Continues(d, AddNotices(d, id, value))
           /\ Continues(d, UpdateConfig(d, value)) /\ Continues(d, Older(d, id))
<1>1. Continues(d, UpdateMember(d, id, value))
  <2>. DEFINE e == UpdateMember(d, id, value)
              F(r) == IF r.id = id THEN [r EXCEPT !.role = value] ELSE r
  <2>1. \A r \in d.members : F(r).id = r.id /\ F(r).feed = r.feed
    BY DEF Database, MemberRow
  <2>2. /\ e.members = {F(r) : r \in d.members} /\ e.last = d.last
        /\ e.sessions = d.sessions /\ e.invites = d.invites /\ e.resets = d.resets
    BY DEF UpdateMember, Database
  <2>. HIDE DEF e, F
  <2>3. Continues(d, e)
    BY <2>1, <2>2, RowTypes, ContinuesBy
  <2>. QED
    BY <2>3 DEF e
<1>2. Continues(d, UpdateInvite(d, id, "used"))
  <2>. DEFINE e == UpdateInvite(d, id, "used")
              F(r) == IF r.id = id THEN [r EXCEPT !.state = "used"] ELSE r
  <2>1. \A r \in d.invites : F(r).id = r.id /\ (F(r).state = "active" => r.state = "active")
    BY DEF Database, InviteRow
  <2>2. /\ e.invites = {F(r) : r \in d.invites} /\ e.last = d.last
        /\ e.members = d.members /\ e.sessions = d.sessions /\ e.resets = d.resets
    BY DEF UpdateInvite, Database
  <2>. HIDE DEF e, F
  <2>3. Continues(d, e)
    BY <2>1, <2>2, RowTypes, ContinuesBy
  <2>. QED
    BY <2>3 DEF e
<1>3. Continues(d, UpdateReset(d, id, "used"))
  <2>. DEFINE e == UpdateReset(d, id, "used")
              F(r) == IF r.id = id THEN [r EXCEPT !.state = "used"] ELSE r
  <2>1. \A r \in d.resets : /\ F(r).id = r.id /\ F(r).member = r.member
                            /\ (F(r).state = "active" => r.state = "active")
    BY DEF Database, ResetRow
  <2>2. /\ e.resets = {F(r) : r \in d.resets} /\ e.last = d.last
        /\ e.members = d.members /\ e.sessions = d.sessions /\ e.invites = d.invites
    BY DEF UpdateReset, Database
  <2>. HIDE DEF e, F
  <2>3. Continues(d, e)
    BY <2>1, <2>2, RowTypes, ContinuesBy
  <2>. QED
    BY <2>3 DEF e
<1>4. Continues(d, Older(d, id))
  <2>. DEFINE e == Older(d, id)
              F(r) == IF r.id # id THEN r
                      ELSE [r EXCEPT !.age = IF @ = "young" THEN "expired" ELSE "old"]
  <2>1. \A r \in d.sessions : F(r).id = r.id /\ F(r).member = r.member
    BY DEF Database, SessionRow
  <2>2. /\ e.sessions = {F(r) : r \in d.sessions} /\ e.last = d.last
        /\ e.members = d.members /\ e.invites = d.invites /\ e.resets = d.resets
    BY DEF Older, Database
  <2>. HIDE DEF e, F
  <2>3. Continues(d, e)
    BY <2>1, <2>2, RowTypes, ContinuesBy
  <2>. QED
    BY <2>3 DEF e
<1>5. Continues(d, UpdatePassword(d, id, value))
  <2>. DEFINE e == UpdatePassword(d, id, value)
  <2>1. /\ e.members \subseteq d.members /\ e.sessions \subseteq d.sessions
        /\ e.invites \subseteq d.invites /\ e.resets \subseteq d.resets /\ e.last = d.last
    BY DEF UpdatePassword, Database
  <2>. HIDE DEF e
  <2>2. Continues(d, e)
    BY <2>1, RowTypes, ContinuesBy
  <2>. QED
    BY <2>2 DEF e
<1>6. Continues(d, UpdateNotice(d, id, value))
  <2>. DEFINE e == UpdateNotice(d, id, value)
  <2>1. /\ e.members \subseteq d.members /\ e.sessions \subseteq d.sessions
        /\ e.invites \subseteq d.invites /\ e.resets \subseteq d.resets /\ e.last = d.last
    BY DEF UpdateNotice, Database
  <2>. HIDE DEF e
  <2>2. Continues(d, e)
    BY <2>1, RowTypes, ContinuesBy
  <2>. QED
    BY <2>2 DEF e
<1>7. Continues(d, AddNotices(d, id, value))
  <2>. DEFINE e == AddNotices(d, id, value)
  <2>1. /\ e.members \subseteq d.members /\ e.sessions \subseteq d.sessions
        /\ e.invites \subseteq d.invites /\ e.resets \subseteq d.resets /\ e.last = d.last
    BY DEF AddNotices, Database
  <2>. HIDE DEF e
  <2>2. Continues(d, e)
    BY <2>1, RowTypes, ContinuesBy
  <2>. QED
    BY <2>2 DEF e
<1>8. Continues(d, UpdateConfig(d, value))
  <2>. DEFINE e == UpdateConfig(d, value)
  <2>1. /\ e.members \subseteq d.members /\ e.sessions \subseteq d.sessions
        /\ e.invites \subseteq d.invites /\ e.resets \subseteq d.resets /\ e.last = d.last
    BY DEF UpdateConfig, Database
  <2>. HIDE DEF e
  <2>2. Continues(d, e)
    BY <2>1, RowTypes, ContinuesBy
  <2>. QED
    BY <2>2 DEF e
<1>. QED
  BY <1>1, <1>2, <1>3, <1>4, <1>5, <1>6, <1>7, <1>8

(* What is left was there. *)
LEMMA DeletesContinue ==
    ASSUME NEW d \in Database, NEW id
    PROVE  /\ Continues(d, DeleteMember(d, id)) /\ Continues(d, DeleteAlias(d, id))
           /\ Continues(d, DeleteUsedInvites(d)) /\ Continues(d, DeleteUsedResets(d))
           /\ Continues(d, DeleteSession(d, id)) /\ Continues(d, DeleteSessionsOf(d, id))
           /\ Continues(d, DeleteOldSessions(d)) /\ Continues(d, DeleteDeniedKey(d, id))
           /\ Continues(d, DeleteNotice(d, id)) /\ Continues(d, d)
<1>1. Continues(d, DeleteMember(d, id))
  <2>. DEFINE e == DeleteMember(d, id)
  <2>1. /\ e.members \subseteq d.members /\ e.sessions \subseteq d.sessions
        /\ e.invites \subseteq d.invites /\ e.resets \subseteq d.resets /\ e.last = d.last
    BY DEF DeleteMember, Database
  <2>. HIDE DEF e
  <2>2. Continues(d, e)
    BY <2>1, RowTypes, ContinuesBy
  <2>. QED
    BY <2>2 DEF e
<1>2. Continues(d, DeleteAlias(d, id))
  <2>. DEFINE e == DeleteAlias(d, id)
  <2>1. /\ e.members \subseteq d.members /\ e.sessions \subseteq d.sessions
        /\ e.invites \subseteq d.invites /\ e.resets \subseteq d.resets /\ e.last = d.last
    BY DEF DeleteAlias, Database
  <2>. HIDE DEF e
  <2>2. Continues(d, e)
    BY <2>1, RowTypes, ContinuesBy
  <2>. QED
    BY <2>2 DEF e
<1>3. Continues(d, DeleteUsedInvites(d))
  <2>. DEFINE e == DeleteUsedInvites(d)
  <2>1. /\ e.members \subseteq d.members /\ e.sessions \subseteq d.sessions
        /\ e.invites \subseteq d.invites /\ e.resets \subseteq d.resets /\ e.last = d.last
    BY DEF DeleteUsedInvites, Database
  <2>. HIDE DEF e
  <2>2. Continues(d, e)
    BY <2>1, RowTypes, ContinuesBy
  <2>. QED
    BY <2>2 DEF e
<1>4. Continues(d, DeleteUsedResets(d))
  <2>. DEFINE e == DeleteUsedResets(d)
  <2>1. /\ e.members \subseteq d.members /\ e.sessions \subseteq d.sessions
        /\ e.invites \subseteq d.invites /\ e.resets \subseteq d.resets /\ e.last = d.last
    BY DEF DeleteUsedResets, Database
  <2>. HIDE DEF e
  <2>2. Continues(d, e)
    BY <2>1, RowTypes, ContinuesBy
  <2>. QED
    BY <2>2 DEF e
<1>5. Continues(d, DeleteSession(d, id))
  <2>. DEFINE e == DeleteSession(d, id)
  <2>1. /\ e.members \subseteq d.members /\ e.sessions \subseteq d.sessions
        /\ e.invites \subseteq d.invites /\ e.resets \subseteq d.resets /\ e.last = d.last
    BY DEF DeleteSession, Database
  <2>. HIDE DEF e
  <2>2. Continues(d, e)
    BY <2>1, RowTypes, ContinuesBy
  <2>. QED
    BY <2>2 DEF e
<1>6. Continues(d, DeleteSessionsOf(d, id))
  <2>. DEFINE e == DeleteSessionsOf(d, id)
  <2>1. /\ e.members \subseteq d.members /\ e.sessions \subseteq d.sessions
        /\ e.invites \subseteq d.invites /\ e.resets \subseteq d.resets /\ e.last = d.last
    BY DEF DeleteSessionsOf, Database
  <2>. HIDE DEF e
  <2>2. Continues(d, e)
    BY <2>1, RowTypes, ContinuesBy
  <2>. QED
    BY <2>2 DEF e
<1>7. Continues(d, DeleteOldSessions(d))
  <2>. DEFINE e == DeleteOldSessions(d)
  <2>1. /\ e.members \subseteq d.members /\ e.sessions \subseteq d.sessions
        /\ e.invites \subseteq d.invites /\ e.resets \subseteq d.resets /\ e.last = d.last
    BY DEF DeleteOldSessions, Database
  <2>. HIDE DEF e
  <2>2. Continues(d, e)
    BY <2>1, RowTypes, ContinuesBy
  <2>. QED
    BY <2>2 DEF e
<1>8. Continues(d, DeleteDeniedKey(d, id))
  <2>. DEFINE e == DeleteDeniedKey(d, id)
  <2>1. /\ e.members \subseteq d.members /\ e.sessions \subseteq d.sessions
        /\ e.invites \subseteq d.invites /\ e.resets \subseteq d.resets /\ e.last = d.last
    BY DEF DeleteDeniedKey, Database
  <2>. HIDE DEF e
  <2>2. Continues(d, e)
    BY <2>1, RowTypes, ContinuesBy
  <2>. QED
    BY <2>2 DEF e
<1>9. Continues(d, DeleteNotice(d, id))
  <2>. DEFINE e == DeleteNotice(d, id)
  <2>1. /\ e.members \subseteq d.members /\ e.sessions \subseteq d.sessions
        /\ e.invites \subseteq d.invites /\ e.resets \subseteq d.resets /\ e.last = d.last
    BY DEF DeleteNotice, Database
  <2>. HIDE DEF e
  <2>2. Continues(d, e)
    BY <2>1, RowTypes, ContinuesBy
  <2>. QED
    BY <2>2 DEF e
<1>10. Continues(d, d)
  BY RowTypes, ContinuesBy
<1>. QED
  BY <1>1, <1>2, <1>3, <1>4, <1>5, <1>6, <1>7, <1>8, <1>9, <1>10

(* No service hands an old id to somebody else, or makes a used token new. *)
LEMMA ServiceContinues ==
    ASSUME Sound(db), DBNext
    PROVE  Continues(db, db')
<1>0. db \in Database
  BY DEF Sound
<1>1. CASE MembersChange
  BY <1>0, <1>1, InsertsContinue, UpdatesContinue, DeletesContinue
  DEF MembersChange, Does, AddMember, RemoveID, SetRole
<1>2. CASE InvitesChange
  <2>1. ASSUME NEW id, NEW feed \in Feeds, Does(Consume(db, id, feed)) PROVE Continues(db, db')
    <3>. DEFINE with == IF MembersWithFeed(db, feed) = {} THEN InsertMember(db, feed, "member") ELSE db
    <3>1. Sound(with)
      BY InsertMemberSound DEF Roles
    <3>2. Continues(db, with)
      BY <1>0, InsertsContinue, DeletesContinue
    <3>3. db' = UpdateInvite(with, id, "used")
      BY <2>1 DEF Does, Consume
    <3>. HIDE DEF with
    <3>4. Continues(with, db')
      BY <3>1, <3>3, UpdatesContinue DEF Sound
    <3>. QED
      BY <3>2, <3>4, ContinuesOn
  <2>. QED
    BY <1>0, <1>2, <2>1, InsertsContinue, UpdatesContinue
    DEF InvitesChange, Does, CreateInvite, CreateOpenInvite, RevokeInvite
<1>3. CASE AliasesChange
  BY <1>0, <1>3, InsertsContinue, DeletesContinue DEF AliasesChange, Does, Register, RevokeAlias
<1>4. CASE PasswordsChange
  <2>1. \A id, secret : Continues(db, Upsert(db, id, secret))
    BY <1>0, InsertsContinue, UpdatesContinue DEF Upsert
  <2>2. ASSUME NEW id, NEW secret \in Secrets, Does(SetPasswordWithToken(db, id, secret))
        PROVE  Continues(db, db')
    <3>. DEFINE t == CHOOSE t \in ActiveReset(db, id) : TRUE
                with == Upsert(db, t.member, secret)
    <3>1. db' = UpdateReset(with, id, "used") /\ t \in db.resets
      BY <2>2 DEF Does, SetPasswordWithToken, ActiveReset, ActiveResets
    <3>. HIDE DEF t
    <3>2. PICK m \in db.members : m.id = t.member
      BY <3>1 DEF Sound, KeysExist, Refers
    <3>3. Sound(with) /\ Continues(db, with)
      BY <2>1, <3>2, UpsertSound
    <3>. HIDE DEF with
    <3>4. Continues(with, db')
      BY <3>1, <3>3, UpdatesContinue DEF Sound
    <3>. QED
      BY <3>3, <3>4, ContinuesOn
  <2>. QED
    BY <1>0, <1>4, <2>1, <2>2, InsertsContinue DEF PasswordsChange, Does, SetPassword, CreateResetToken
<1>5. CASE SessionsChange
  BY <1>0, <1>5, InsertsContinue, UpdatesContinue, DeletesContinue
  DEF SessionsChange, Does, CreateToken, WipeTokens, RemoveToken
<1>6. CASE DeniedChange
  BY <1>0, <1>6, InsertsContinue, DeletesContinue DEF DeniedChange, Does, AddDenied, RemoveDenied
<1>7. CASE NoticesChange
  BY <1>0, <1>7, InsertsContinue, UpdatesContinue, DeletesContinue
  DEF NoticesChange, Does, SaveNew, SaveNotice, PinNotice, RemoveNotice
<1>8. CASE ConfigChange
  BY <1>0, <1>8, UpdatesContinue DEF ConfigChange, Does, SetPrivacyMode, SetDefaultLanguage
<1>9. CASE db' = CleanUp(db)
  <2>. DEFINE d == DeleteOldSessions(db)
              e == DeleteUsedInvites(d)
  <2>1. Sound(d) /\ Continues(db, d)
    BY <1>0, DeletionsSound, DeletesContinue
  <2>2. Sound(e) /\ Continues(d, e)
    BY <2>1, DeletionsSound, DeletesContinue DEF Sound
  <2>3. Continues(e, db')
    BY <1>9, <2>2, DeletesContinue DEF Sound, CleanUp
  <2>. HIDE DEF d, e
  <2>. QED
    BY <2>1, <2>2, <2>3, ContinuesOn
<1>. QED
  BY <1>0, <1>1, <1>2, <1>3, <1>4, <1>5, <1>6, <1>7, <1>8, <1>9, DeletesContinue DEF DBNext

(* Only a removal takes the last administrator away. *)
LEMMA ServiceKeepsAdmin ==
    ASSUME Sound(db), DBNext, MembersWithRole(db, "admin") # {},
           \A m \in db.members : FindMember(db', m.id) # {}
    PROVE  MembersWithRole(db', "admin") # {}
<1>0. db \in Database
  BY DEF Sound
<1>1. SUFFICES ASSUME ~(db.members \subseteq db'.members) PROVE MembersWithRole(db', "admin") # {}
  BY DEF MembersWithRole
<1>2. CASE MembersChange
  <2>1. ASSUME NEW feed, NEW role, Does(AddMember(db, feed, role)) PROVE FALSE
    BY <1>0, <1>1, <2>1 DEF Does, AddMember, InsertMember, Database
  <2>2. ASSUME NEW id \in Ids(db.members), Does(RemoveID(db, id)) PROVE FALSE
    <3>1. PICK m \in db.members : m.id = id
      BY DEF Ids
    <3>2. FindMember(db', id) = {}
      BY <1>0, <2>2 DEF Does, RemoveID, DeleteMember, FindMember, Database
    <3>. QED
      BY <3>1, <3>2
  <2>3. ASSUME NEW id, NEW role, Does(SetRole(db, id, role)) PROVE MembersWithRole(db', "admin") # {}
    <3>1. PICK m \in db.members : m.role = "admin" /\ m.id # id
      BY <2>3 DEF Does, SetRole, MembersWithRole
    <3>2. m \in db'.members
      BY <1>0, <2>3, <3>1 DEF Does, SetRole, UpdateMember, Database
    <3>. QED
      BY <3>1, <3>2 DEF MembersWithRole
  <2>. QED
    BY <1>2, <2>1, <2>2, <2>3 DEF MembersChange
<1>3. CASE InvitesChange
  <2>1. ASSUME NEW id, NEW feed, Does(Consume(db, id, feed)) PROVE FALSE
    <3>1. CASE MembersWithFeed(db, feed) = {}
      BY <1>0, <1>1, <2>1, <3>1 DEF Does, Consume, InsertMember, UpdateInvite, Database
    <3>2. CASE MembersWithFeed(db, feed) # {}
      BY <1>0, <1>1, <2>1, <3>2 DEF Does, Consume, UpdateInvite, Database
    <3>. QED
      BY <3>1, <3>2
  <2>2. /\ \A id : InsertInvite(db, id).members = db.members
        /\ \A id, state : UpdateInvite(db, id, state).members = db.members
    BY <1>0 DEF InsertInvite, UpdateInvite, Database
  <2>. QED
    BY <1>1, <1>3, <2>1, <2>2 DEF InvitesChange, Does, CreateInvite, CreateOpenInvite, RevokeInvite
<1>4. CASE AliasesChange
  <2>1. /\ \A name, id, signer : InsertAlias(db, name, id, signer).members = db.members
        /\ \A id : DeleteAlias(db, id).members = db.members
    BY <1>0 DEF InsertAlias, DeleteAlias, Database
  <2>. QED
    BY <1>1, <1>4, <2>1 DEF AliasesChange, Does, Register, RevokeAlias
<1>5. CASE PasswordsChange
  <2>1. \A id, secret : Upsert(db, id, secret).members = db.members
    BY <1>0 DEF Upsert, InsertPassword, UpdatePassword, Database
  <2>2. \A id, member, secret : UpdateReset(Upsert(db, member, secret), id, "used").members = db.members
    BY <1>0 DEF UpdateReset, Upsert, InsertPassword, UpdatePassword, Database
  <2>3. \A id, creator : InsertReset(db, creator, id).members = db.members
    BY <1>0 DEF InsertReset, Database
  <2>4. ASSUME NEW id, NEW secret, Does(SetPasswordWithToken(db, id, secret)) PROVE FALSE
    BY <1>1, <2>2, <2>4 DEF Does, SetPasswordWithToken
  <2>. QED
    BY <1>1, <1>5, <2>1, <2>3, <2>4 DEF PasswordsChange, Does, SetPassword, CreateResetToken
<1>6. CASE SessionsChange
  <2>1. /\ \A id : InsertSession(db, id).members = db.members
        /\ \A id : DeleteSession(db, id).members = db.members
        /\ \A id : DeleteSessionsOf(db, id).members = db.members
        /\ \A id : Older(db, id).members = db.members
    BY <1>0 DEF InsertSession, DeleteSession, DeleteSessionsOf, Older, Database
  <2>. QED
    BY <1>1, <1>6, <2>1 DEF SessionsChange, Does, CreateToken, WipeTokens, RemoveToken
<1>7. CASE DeniedChange
  <2>1. /\ \A feed : InsertDeniedKey(db, feed).members = db.members
        /\ \A id : DeleteDeniedKey(db, id).members = db.members
    BY <1>0 DEF InsertDeniedKey, DeleteDeniedKey, Database
  <2>. QED
    BY <1>1, <1>7, <2>1 DEF DeniedChange, Does, AddDenied, RemoveDenied
<1>8. CASE NoticesChange
  <2>1. /\ \A language : InsertNotice(db, language).members = db.members
        /\ \A id, language : UpdateNotice(db, id, language).members = db.members
        /\ \A id, pin : AddNotices(db, pin, id).members = db.members
        /\ \A id : DeleteNotice(db, id).members = db.members
    BY <1>0 DEF InsertNotice, UpdateNotice, AddNotices, DeleteNotice, Database
  <2>. QED
    BY <1>1, <1>8, <2>1 DEF NoticesChange, Does, SaveNew, SaveNotice, PinNotice, RemoveNotice
<1>9. CASE ConfigChange
  <2>1. \A config : UpdateConfig(db, config).members = db.members
    BY <1>0 DEF UpdateConfig, Database
  <2>. QED
    BY <1>1, <1>9, <2>1 DEF ConfigChange, Does, SetPrivacyMode, SetDefaultLanguage
<1>10. CASE db' \in {DeleteOldSessions(db), DeleteUsedInvites(db), DeleteUsedResets(db), CleanUp(db)}
  BY <1>0, <1>1, <1>10 DEF DeleteOldSessions, DeleteUsedInvites, DeleteUsedResets, CleanUp, Database
<1>. QED
  BY <1>2, <1>3, <1>4, <1>5, <1>6, <1>7, <1>8, <1>9, <1>10 DEF DBNext
=============================================================================
