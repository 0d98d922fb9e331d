--------------------------- MODULE RequestsProofs ---------------------------
(***************************************************************************)
(* The requests implement the database: whatever they ask for, and however *)
(* their queries are mixed with those of others, with failures, crashes    *)
(* and the clock, each step of theirs is one call of a service of RoomDB,  *)
(* or leaves the rows alone.  The reason is what a transaction has read:   *)
(* until somebody else writes, it still holds (Inv).  Cookies, tokens and  *)
(* admission rest on ids that do not come back, and on what a request has  *)
(* found in a database there was (HInv); who may take an alias or set a    *)
(* password, on what the request is entitled to at each stage (AInv).      *)
(***************************************************************************)
EXTENDS Requests, RoomDBProofs

(* What the transaction of a request with the form f found out about the   *)
(* database d; r is what its handler remembers.                            *)
MayCommit(f, d, r) ==
    /\ f.op = "members/change-role" => SetRole(d, f.id, f.role).may
    /\ f.op = "invites/revoke" => RevokeInvite(d, f.id).may
    /\ f.op = "consume" => Consume(d, f.id, f.feed).may
    /\ f.op = "changePassword" /\ f.id = 0 => SetPassword(d, r.who, f.secret).may
    /\ f.op = "changePassword" /\ f.id # 0 => SetPasswordWithToken(d, f.id, f.secret).may
    /\ f.op \in Signing => CreateToken(d, r.of).may
    /\ f.op = "alias.register" => Register(d, f.name, f.owner).may
    /\ f.op = "createOpenMode" => CreateOpenInvite(d, r.of).may
    /\ f.op = "insert-user" => SetPassword(d, r.row, f.secret).may

(* ... for a request that does not write a member's password.              *)
MayCommitFor(f, d, of) ==
    /\ f.op \in {"aliases/revoke", "alias.revoke", "createOpenMode"}
    /\ f.op = "createOpenMode" => CreateOpenInvite(d, of).may

Holds(f, d, r) == r.at = "open" /\ ~r.dirty => MayCommit(f, d, r)

ReadsHold == \A i \in Requests : Holds(form[i], db, run[i])

(* An id that was handed out to the owner of one of these feeds, and to    *)
(* nobody else, in all the databases s that there were before d.           *)
Belongs(id, feeds, d, s) ==
    /\ id \in Nat /\ id <= d.last["members"]
    /\ \A e \in s \cup {d} : \A m \in FindMember(e, id) : m.feed \in feeds

(* Whose the cookies are, and whom a handler that has read them acts as.   *)
Cookies(f, d, s) ==
    /\ Belongs(f.password, {f.owner}, d, s)
    /\ f.token <= d.last["sessions"]
    /\ \A t \in SessionsWithToken(d, f.token) : Belongs(t.member, {f.owner}, d, s)

Memory(f, r, d, s) ==
    /\ f.op # "login" => r.who = 0 \/ Belongs(r.who, {f.owner}, d, s)
    /\ r.at = "member" => Belongs(r.of, {f.owner}, d, s)

Remembered == \A i \in Requests : Cookies(form[i], db, seen) /\ Memory(form[i], run[i], db, seen)

Inv == TypeOK /\ Integrity /\ ReadsHold /\ Remembered

(* A step of a handler that is right. *)
Steady == UNCHANGED <<form, boot, crashes>>
Right == Inv' /\ [DBNext]_db

(* What others do not change of a request. *)
Same(q, r) ==
    /\ q.at = r.at /\ q.who = r.who /\ q.role = r.role /\ q.row = r.row /\ q.of = r.of
    /\ q.client = r.client /\ q.blind = r.blind

(* The databases there have been are kept, but for the age of tokens.      *)
Logged == \/ seen' = seen \cup {db'}
          \/ /\ seen' = seen
             /\ db'.members = db.members /\ db'.denied = db.denied /\ db'.config = db.config
             /\ db'.aliases = db.aliases

RightOf(i) == Right /\ Logged /\ \A j \in Requests \ {i} : Same(run'[j], run[j])
Elsewhere == Right /\ Logged /\ \A j \in Requests : Same(run'[j], run[j]) \/ run'[j] = Fresh("failed")

-----------------------------------------------------------------------------
(* The steps handlers are made of. *)

(* Whom an id belongs to, it belongs to later on.                          *)
LEMMA BelongsOn ==
    ASSUME NEW d, NEW e, NEW s, NEW t, Continues(d, e), t \subseteq s \cup {e}
    PROVE  /\ \A id, feeds : Belongs(id, feeds, d, s) => Belongs(id, feeds, e, t)
           /\ \A f : f.token \in Nat /\ Cookies(f, d, s) => Cookies(f, e, t)
           /\ \A f, r : Memory(f, r, d, s) => Memory(f, r, e, t)
<1>0. {"members", "sessions"} \subseteq TableNames
  BY DEF TableNames
<1>1. ASSUME NEW id, NEW feeds, Belongs(id, feeds, d, s) PROVE Belongs(id, feeds, e, t)
  <2>1. id <= e.last["members"]
    BY <1>0, <1>1 DEF Belongs, Continues
  <2>2. \A m \in FindMember(e, id) : m.feed \in feeds
    BY <1>0, <1>1 DEF Belongs, Continues, FindMember
  <2>. QED
    BY <1>1, <2>1, <2>2 DEF Belongs
<1>2. ASSUME NEW f, f.token \in Nat, Cookies(f, d, s) PROVE Cookies(f, e, t)
  <2>1. f.token <= e.last["sessions"]
    BY <1>0, <1>2 DEF Cookies, Continues
  <2>2. \A r \in SessionsWithToken(e, f.token) :
            \E u \in SessionsWithToken(d, f.token) : r.member = u.member
    BY <1>0, <1>2 DEF Cookies, Continues, SessionsWithToken
  <2>. QED
    BY <1>1, <1>2, <2>1, <2>2 DEF Cookies
<1>3. ASSUME NEW f, NEW r, Memory(f, r, d, s) PROVE Memory(f, r, e, t)
  BY <1>1, <1>3 DEF Memory
<1>. QED
  BY <1>1, <1>2, <1>3

(* Whoever only remembers something disturbs nobody. *)
LEMMA Remembers ==
    ASSUME Inv, Steady, UNCHANGED <<db, seen>>, NEW i \in Requests, NEW r \in Run,
           Holds(form[i], db, r), Memory(form[i], r, db, seen), run' = [run EXCEPT ![i] = r]
    PROVE  RightOf(i)
<1>1. run \in [Requests -> Run]
  BY DEF Inv, TypeOK
<1>2. TypeOK'
  BY <1>1 DEF Inv, TypeOK, Steady
<1>3. Integrity'
  BY DEF Inv, Integrity
<1>4. ReadsHold'
  <2>1. \A j \in Requests \ {i} : run'[j] = run[j]
    BY <1>1
  <2>2. run'[i] = r
    BY <1>1
  <2>. QED
    BY <2>1, <2>2 DEF Inv, ReadsHold, Steady
<1>5. Remembered'
  BY <1>1 DEF Inv, Remembered, Steady
<1>. QED
  BY <1>1, <1>2, <1>3, <1>4, <1>5 DEF RightOf, Right, Inv, Same, Logged

(* So does whoever goes on to another stage. *)
LEMMA Goes ==
    ASSUME Inv, Steady, NEW i \in Requests, NEW stage \in Stages \ {"member"}, Goto(i, stage),
           stage = "open" => MayCommit(form[i], db, run[i])
    PROVE  RightOf(i)
<1>1. run[i] \in Run /\ Memory(form[i], run[i], db, seen)
  BY DEF Inv, TypeOK, Remembered
<1>2. CASE stage \in Forgets
  <2>1. Fresh(stage) \in Run /\ Fresh(stage).at = stage /\ stage # "open" /\ Fresh(stage).who = 0
    BY <1>2 DEF Fresh, Run, Forgets, Roles, Stages, Ended
  <2>2. run' = [run EXCEPT ![i] = Fresh(stage)] /\ UNCHANGED <<db, seen>>
    BY <1>2 DEF Goto, Moved
  <2>. QED
    BY <2>1, <2>2, Remembers DEF Holds, Memory
<1>3. CASE stage \notin Forgets
  <2>. DEFINE r == [run[i] EXCEPT !.at = stage]
  <2>1. r \in Run /\ r.at = stage
    BY <1>1 DEF Run
  <2>2. r.who = run[i].who /\ r.of = run[i].of /\ r.row = run[i].row
    BY <1>1 DEF Run
  <2>3. MayCommit(form[i], db, r) <=> MayCommit(form[i], db, run[i])
    BY <2>2 DEF MayCommit, Signing
  <2>4. run' = [run EXCEPT ![i] = r] /\ UNCHANGED <<db, seen>>
    BY <1>3 DEF Goto, Moved
  <2>5. Holds(form[i], db, r) /\ Memory(form[i], r, db, seen)
    BY <1>1, <2>1, <2>2, <2>3 DEF Holds, Memory
  <2>. HIDE DEF r
  <2>. QED
    BY <2>1, <2>4, <2>5, Remembers
<1>. QED
  BY <1>2, <1>3

(* A query for a row. *)
LEMMA Finds ==
    ASSUME Inv, Steady, NEW i \in Requests, NEW stage, NEW found, NEW next \in Stages \ {"member"},
           \A r \in found : r.row \in Nat /\ r.of \in Nat,
           next = "open" => \A r \in found : MayCommitFor(form[i], db, r.of),
           Find(i, stage, found, next)
    PROVE  RightOf(i)
<1>1. run[i] \in Run /\ Memory(form[i], run[i], db, seen)
  BY DEF Inv, TypeOK, Remembered
<1>2. CASE run' = [run EXCEPT ![i] = Fresh("failed")]
  <2>1. Fresh("failed") \in Run /\ Fresh("failed").at = "failed" /\ Fresh("failed").who = 0
    BY DEF Fresh, Run, Roles, Stages, Ended
  <2>. QED
    BY <1>2, <2>1, Remembers DEF Holds, Memory, Find
<1>3. ASSUME NEW f \in found,
             run' = [run EXCEPT ![i].at = next, ![i].row = f.row, ![i].of = f.of]
      PROVE  RightOf(i)
  <2>. DEFINE r == [run[i] EXCEPT !.at = next, !.row = f.row, !.of = f.of]
  <2>1. r \in Run /\ r.at = next /\ r.who = run[i].who /\ r.of = f.of
    BY <1>1 DEF Run
  <2>2. run' = [run EXCEPT ![i] = r]
    BY <1>3
  <2>3. next = "open" => MayCommit(form[i], db, r)
    BY <2>1 DEF MayCommit, MayCommitFor, Signing
  <2>4. Holds(form[i], db, r) /\ Memory(form[i], r, db, seen)
    BY <1>1, <2>1, <2>3 DEF Holds, Memory
  <2>. HIDE DEF r
  <2>. QED
    BY <2>1, <2>2, <2>4, Remembers DEF Find
<1>. QED
  BY <1>2, <1>3 DEF Find

(* A write, which every open transaction notices. *)
LEMMA WritesRow ==
    ASSUME Inv, Steady, NEW i \in Requests, NEW stage \in Stages \ {"open", "member"}, NEW d,
           NEW row \in Nat, WriteRow(i, stage, d, row), [DBNext]_db
    PROVE  RightOf(i)
<1>1. run \in [Requests -> Run]
  BY DEF Inv, TypeOK
<1>2. Sound(db')
  BY ServiceSound DEF Inv, Integrity
<1>. DEFINE F(j) == IF j = i THEN [run[j] EXCEPT !.at = stage, !.row = row, !.dirty = FALSE]
                    ELSE [run[j] EXCEPT !.dirty = @ \/ run[j].at = "open"]
<1>3. run' = [j \in Requests |-> F(j)]
  BY DEF WriteRow
<1>4. \A j \in Requests : /\ F(j) \in Run /\ (F(j).at = "open" => F(j).dirty)
                          /\ F(j).who = run[j].who /\ F(j).of = run[j].of
                          /\ j = i => F(j).at = stage
                          /\ j # i => Same(F(j), run[j])
  <2>1. /\ F(i) \in Run /\ F(i).at = stage
        /\ F(i).who = run[i].who /\ F(i).of = run[i].of
    BY <1>1 DEF Run
  <2>2. ASSUME NEW j \in Requests, j # i
        PROVE  /\ F(j) \in Run /\ (F(j).at = "open" => F(j).dirty)
               /\ Same(F(j), run[j])
    <3>1. run[j] \in Run
      BY <1>1
    <3>. DEFINE b == run[j].dirty \/ run[j].at = "open"
    <3>2. b \in BOOLEAN
      OBVIOUS
    <3>3. F(j) = [run[j] EXCEPT !.dirty = b]
      BY <2>2
    <3>4. /\ F(j) \in Run /\ F(j).at = run[j].at /\ F(j).dirty = b
          /\ Same(F(j), run[j])
      <4>. HIDE DEF b, F
      <4>. QED
        BY <3>1, <3>2, <3>3 DEF Run, Same
    <3>. QED
      BY <3>4
  <2>. QED
    BY <2>1, <2>2 DEF Same
<1>. HIDE DEF F
<1>5. TypeOK'
  <2>1. db' \in Database /\ db' = d
    BY <1>2 DEF Sound, WriteRow
  <2>2. seen' = seen \cup {d}
    BY DEF WriteRow
  <2>3. \A e \in seen' : e \in Database
    BY <2>1, <2>2 DEF Inv, TypeOK
  <2>4. run' \in [Requests -> Run]
    BY <1>3, <1>4
  <2>. QED
    BY <2>1, <2>3, <2>4 DEF Inv, TypeOK, Steady
<1>6. ReadsHold'
  BY <1>3, <1>4 DEF ReadsHold, Holds
<1>7. Remembered'
  <2>1. Continues(db, db')
    BY ServiceContinues, DeletesContinue DEF Inv, Integrity, Sound
  <2>2. seen' \subseteq seen \cup {db'}
    BY DEF WriteRow
  <2>3. \A j \in Requests : Cookies(form[j], db', seen') /\ Memory(form[j], run[j], db', seen')
    BY <2>1, <2>2, BelongsOn DEF Inv, Remembered, TypeOK, Form
  <2>4. \A j \in Requests : Memory(form[j], run'[j], db', seen')
    BY <1>3, <1>4, <2>3 DEF Memory, Same
  <2>. QED
    BY <2>3, <2>4 DEF Remembered, Steady
<1>8. Logged
  BY DEF WriteRow, Logged
<1>9. \A j \in Requests \ {i} : Same(run'[j], run[j])
  BY <1>3, <1>4
<1>10. Integrity'
  BY <1>2 DEF Integrity
<1>. QED
  BY <1>5, <1>6, <1>7, <1>8, <1>9, <1>10 DEF RightOf, Right, Inv

(* A write that adds no row the request must remember. *)
LEMMA Writes ==
    ASSUME Inv, Steady, NEW i \in Requests, NEW stage \in Stages \ {"open", "member"}, NEW d,
           Write(i, stage, d), [DBNext]_db
    PROVE  RightOf(i)
<1>1. run[i].row \in Nat
  BY DEF Inv, TypeOK, Run
<1>. QED
  BY <1>1, WritesRow DEF Write

(* A statement that is a service by itself. *)
LEMMA Execs ==
    ASSUME Inv, Steady, NEW i \in Requests, NEW stage, NEW method,
           NEW next \in Stages \ {"open", "member"}, Exec(i, stage, method, next),
           Does(method) => [DBNext]_db
    PROVE  RightOf(i)
<1>1. CASE method.may /\ Write(i, next, method.then)
  <2>1. Does(method)
    BY <1>1 DEF Does, Write, WriteRow
  <2>. QED
    BY <1>1, <2>1, Writes
<1>2. CASE Goto(i, "failed")
  BY <1>2, Goes DEF Stages, Ended
<1>. QED
  BY <1>1, <1>2 DEF Exec

(* A transaction that is one. *)
LEMMA Transacts ==
    ASSUME Inv, Steady, NEW i \in Requests, NEW stage, NEW method, Transact(i, stage, method),
           method.may <=> MayCommit(form[i], db, run[i]),
           Does(method) => [DBNext]_db
    PROVE  RightOf(i)
<1>1. CASE Begin(i, stage, method)
  <2>1. CASE method.may /\ Goto(i, "open")
    BY <2>1, Goes DEF Stages, Ended
  <2>2. CASE Goto(i, "failed")
    BY <2>2, Goes DEF Stages, Ended
  <2>. QED
    BY <1>1, <2>1, <2>2 DEF Begin
<1>2. CASE Commit(i, method)
  <2>1. MayCommit(form[i], db, run[i])
    BY <1>2 DEF Inv, ReadsHold, Holds, Commit, At
  <2>2. Does(method)
    BY <1>2, <2>1 DEF Does, Commit, Write, WriteRow
  <2>3. "done" \in Stages \ {"open", "member"}
    BY DEF Stages, Ended
  <2>. QED
    BY <1>2, <2>2, <2>3, Writes DEF Commit
<1>. QED
  BY <1>1, <1>2 DEF Transact

(* A row that is looked up and then deleted, if it is still there. *)
LEMMA Deletes ==
    ASSUME Inv, Steady, NEW i \in Requests, NEW stage, NEW method,
           LookUpAndDelete(i, stage, method),
           form[i].op \in {"members/remove", "denied/remove"},
           db' = method.then => [DBNext]_db
    PROVE  RightOf(i)
<1>0. MayCommit(form[i], db, run[i])
  BY DEF MayCommit, Signing
<1>1. CASE Begin(i, stage, method)
  BY <1>0, <1>1, Goes DEF Begin, Stages, Ended
<1>2. CASE Write(i, "done", method.then)
  <2>1. "done" \in Stages \ {"open", "member"} /\ db' = method.then
    BY <1>2 DEF Stages, Ended, Write, WriteRow
  <2>. QED
    BY <1>2, <2>1, Writes
<1>. QED
  BY <1>1, <1>2 DEF LookUpAndDelete

-----------------------------------------------------------------------------
(* The services, as the requests call them: with whatever ids they carry.  *)

(* A row that is not there cannot be deleted or changed. *)
LEMMA NoSuchRow ==
    ASSUME NEW d, Sound(d), NEW id
    PROVE  /\ FindMember(d, id) = {} => DeleteMember(d, id) = d /\ DeleteSessionsOf(d, id) = d
           /\ id \notin Ids(d.aliases) => DeleteAlias(d, id) = d
           /\ id \notin Ids(d.sessions) => DeleteSession(d, id) = d
           /\ id \notin Ids(d.denied) => DeleteDeniedKey(d, id) = d
           /\ id \notin Ids(d.notices) => \A l : UpdateNotice(d, id, l) = d
<1>0. d \in Database /\ KeysExist(d)
  BY DEF Sound
<1>1. ASSUME FindMember(d, id) = {}
      PROVE  DeleteMember(d, id) = d /\ DeleteSessionsOf(d, id) = d
  <2>0. \A m \in d.members : m.id # id
    BY <1>1 DEF FindMember
  <2>1. {m \in d.members : m.id # id} = d.members
    BY <2>0
  <2>2. d.aliases \ MemberAliases(d, id) = d.aliases
    BY <1>0, <2>0 DEF KeysExist, MemberAliases
  <2>3. {j \in d.invites : j.creator # id} = d.invites
    BY <1>0, <2>0 DEF KeysExist, Refers
  <2>4. {p \in d.passwords : p.member # id} = d.passwords
    BY <1>0, <2>0 DEF KeysExist, Refers
  <2>5. {t \in d.resets : t.creator # id /\ t.member # id} = d.resets
    BY <1>0, <2>0 DEF KeysExist, Refers
  <2>6. {s \in d.sessions : s.member # id} = d.sessions
    BY <1>0, <2>0 DEF KeysExist, Refers
  <2>7. DeleteMember(d, id) = d
    BY <1>0, <2>1, <2>2, <2>3, <2>4, <2>5, <2>6 DEF DeleteMember, Database
  <2>8. DeleteSessionsOf(d, id) = d
    BY <1>0, <2>6 DEF DeleteSessionsOf, Database
  <2>. QED
    BY <2>7, <2>8
<1>2. ASSUME id \notin Ids(d.aliases) PROVE DeleteAlias(d, id) = d
  <2>1. {a \in d.aliases : a.id # id} = d.aliases
    BY <1>2 DEF Ids
  <2>. QED
    BY <1>0, <2>1 DEF DeleteAlias, Database
<1>3. ASSUME id \notin Ids(d.sessions) PROVE DeleteSession(d, id) = d
  <2>1. {s \in d.sessions : s.id # id} = d.sessions
    BY <1>3 DEF Ids
  <2>. QED
    BY <1>0, <2>1 DEF DeleteSession, Database
<1>4. ASSUME id \notin Ids(d.denied) PROVE DeleteDeniedKey(d, id) = d
  <2>1. {k \in d.denied : k.id # id} = d.denied
    BY <1>4 DEF Ids
  <2>. QED
    BY <1>0, <2>1 DEF DeleteDeniedKey, Database
<1>5. ASSUME id \notin Ids(d.notices), NEW l PROVE UpdateNotice(d, id, l) = d
  <2>1. {IF n.id = id THEN [n EXCEPT !.language = l] ELSE n : n \in d.notices} = d.notices
    BY <1>5 DEF Ids
  <2>. QED
    BY <1>0, <2>1 DEF UpdateNotice, Database
<1>. QED
  BY <1>1, <1>2, <1>3, <1>4, <1>5

(* What is deleted by its id, whether or not it is still there. *)
LEMMA Removals ==
    ASSUME Sound(db), NEW id
    PROVE  /\ db' = RemoveID(db, id).then => [DBNext]_db
           /\ db' = RevokeAlias(db, id).then => [DBNext]_db
           /\ db' = RemoveToken(db, id).then => [DBNext]_db
           /\ db' = WipeTokens(db, id).then => [DBNext]_db
           /\ db' = RemoveDenied(db, id).then => [DBNext]_db
           /\ \A l \in Languages : db' = SaveNotice(db, id, l).then => [DBNext]_db
<1>0. FindMember(db, id) # {} => id \in Ids(db.members)
  BY DEF FindMember, Ids
<1>1. ASSUME db' = RemoveID(db, id).then PROVE [DBNext]_db
  <2>1. CASE FindMember(db, id) = {}
    BY <1>1, <2>1, NoSuchRow DEF RemoveID
  <2>2. CASE FindMember(db, id) # {}
    <3>1. Does(RemoveID(db, id))
      BY <1>1, <2>2 DEF Does, RemoveID
    <3>. QED
      BY <1>0, <2>2, <3>1 DEF DBNext, MembersChange
  <2>. QED
    BY <2>1, <2>2
<1>2. ASSUME db' = RevokeAlias(db, id).then PROVE [DBNext]_db
  <2>1. CASE id \notin Ids(db.aliases)
    BY <1>2, <2>1, NoSuchRow DEF RevokeAlias
  <2>2. CASE id \in Ids(db.aliases)
    <3>1. Does(RevokeAlias(db, id))
      BY <1>2, <2>2 DEF Does, RevokeAlias, Ids
    <3>. QED
      BY <2>2, <3>1 DEF DBNext, AliasesChange
  <2>. QED
    BY <2>1, <2>2
<1>3. ASSUME db' = RemoveToken(db, id).then PROVE [DBNext]_db
  <2>1. CASE id \notin Ids(db.sessions)
    BY <1>3, <2>1, NoSuchRow DEF RemoveToken
  <2>2. CASE id \in Ids(db.sessions)
    <3>1. Does(RemoveToken(db, id))
      BY <1>3 DEF Does, RemoveToken
    <3>. QED
      BY <2>2, <3>1 DEF DBNext, SessionsChange
  <2>. QED
    BY <2>1, <2>2
<1>4. ASSUME db' = WipeTokens(db, id).then PROVE [DBNext]_db
  <2>1. CASE FindMember(db, id) = {}
    BY <1>4, <2>1, NoSuchRow DEF WipeTokens
  <2>2. CASE FindMember(db, id) # {}
    <3>1. Does(WipeTokens(db, id))
      BY <1>4 DEF Does, WipeTokens
    <3>. QED
      BY <1>0, <2>2, <3>1 DEF DBNext, SessionsChange
  <2>. QED
    BY <2>1, <2>2
<1>5. ASSUME db' = RemoveDenied(db, id).then PROVE [DBNext]_db
  <2>1. CASE id \notin Ids(db.denied)
    BY <1>5, <2>1, NoSuchRow DEF RemoveDenied
  <2>2. CASE id \in Ids(db.denied)
    <3>1. Does(RemoveDenied(db, id))
      BY <1>5, <2>2 DEF Does, RemoveDenied, FindDeniedKey, Ids
    <3>. QED
      BY <2>2, <3>1 DEF DBNext, DeniedChange
  <2>. QED
    BY <2>1, <2>2
<1>6. ASSUME NEW l \in Languages, db' = SaveNotice(db, id, l).then PROVE [DBNext]_db
  <2>1. CASE id \notin Ids(db.notices)
    BY <1>6, <2>1, NoSuchRow DEF SaveNotice
  <2>2. CASE id \in Ids(db.notices)
    <3>1. Does(SaveNotice(db, id, l))
      BY <1>6 DEF Does, SaveNotice
    <3>. QED
      BY <2>2, <3>1 DEF DBNext, NoticesChange
  <2>. QED
    BY <2>1, <2>2
<1>. QED
  BY <1>1, <1>2, <1>3, <1>4, <1>5, <1>6

(* What looks for the row itself, and succeeds only if it is there. *)
LEMMA Services ==
    ASSUME NEW id, NEW by
    PROVE  /\ \A role \in Roles : Does(SetRole(db, id, role)) => DBNext
           /\ Does(CreateResetToken(db, by, id)) => DBNext
           /\ Does(CreateInvite(db, id)) => DBNext
           /\ Does(RevokeInvite(db, id)) => DBNext
           /\ \A feed \in Feeds : Does(Consume(db, id, feed)) => DBNext
           /\ \A secret \in Secrets : Does(SetPassword(db, id, secret)) => DBNext
           /\ \A secret \in Secrets : Does(SetPasswordWithToken(db, id, secret)) => DBNext
           /\ Does(CreateToken(db, id)) => DBNext
           /\ \A pin \in Pins : Does(PinNotice(db, pin, id)) => DBNext
<1>1. /\ FindMember(db, id) # {} => id \in Ids(db.members)
      /\ FindMember(db, by) # {} => by \in Ids(db.members)
      /\ FindNotice(db, id) # {} => id \in Ids(db.notices)
      /\ InviteByToken(db, id) # {} => id \in Ids(db.invites)
      /\ ActiveReset(db, id) # {} => id \in Ids(db.resets)
  BY DEF FindMember, FindNotice, InviteByToken, ActiveInvites, ActiveReset, ActiveResets, Ids
<1>2. ASSUME NEW role \in Roles, Does(SetRole(db, id, role)) PROVE DBNext
  <2>1. id \in Ids(db.members)
    BY <1>1, <1>2 DEF Does, SetRole
  <2>. QED
    BY <1>2, <2>1 DEF DBNext, MembersChange
<1>3. ASSUME Does(CreateResetToken(db, by, id)) PROVE DBNext
  <2>1. id \in Ids(db.members) /\ by \in Ids(db.members)
    BY <1>1, <1>3 DEF Does, CreateResetToken
  <2>. QED
    BY <1>3, <2>1 DEF DBNext, PasswordsChange
<1>4. ASSUME Does(CreateInvite(db, id)) PROVE DBNext
  <2>1. id \in Ids(db.members)
    BY <1>1, <1>4 DEF Does, CreateInvite
  <2>. QED
    BY <1>4, <2>1 DEF DBNext, InvitesChange
<1>5. ASSUME Does(RevokeInvite(db, id)) PROVE DBNext
  <2>1. id \in Ids(db.invites)
    BY <1>1, <1>5 DEF Does, RevokeInvite
  <2>. QED
    BY <1>5, <2>1 DEF DBNext, InvitesChange
<1>6. ASSUME NEW feed \in Feeds, Does(Consume(db, id, feed)) PROVE DBNext
  <2>1. id \in Ids(db.invites)
    BY <1>1, <1>6 DEF Does, Consume
  <2>. QED
    BY <1>6, <2>1 DEF DBNext, InvitesChange
<1>7. ASSUME NEW secret \in Secrets, Does(SetPassword(db, id, secret)) PROVE DBNext
  <2>1. id \in Ids(db.members)
    BY <1>1, <1>7 DEF Does, SetPassword
  <2>. QED
    BY <1>7, <2>1 DEF DBNext, PasswordsChange
<1>8. ASSUME NEW secret \in Secrets, Does(SetPasswordWithToken(db, id, secret)) PROVE DBNext
  <2>1. id \in Ids(db.resets)
    BY <1>1, <1>8 DEF Does, SetPasswordWithToken
  <2>. QED
    BY <1>8, <2>1 DEF DBNext, PasswordsChange
<1>9. ASSUME Does(CreateToken(db, id)) PROVE DBNext
  <2>1. id \in Ids(db.members)
    BY <1>1, <1>9 DEF Does, CreateToken
  <2>. QED
    BY <1>9, <2>1 DEF DBNext, SessionsChange
<1>10. ASSUME NEW pin \in Pins, Does(PinNotice(db, pin, id)) PROVE DBNext
  <2>1. id \in Ids(db.notices)
    BY <1>1, <1>10 DEF Does, PinNotice
  <2>. QED
    BY <1>10, <2>1 DEF DBNext, NoticesChange
<1>. QED
  BY <1>2, <1>3, <1>4, <1>5, <1>6, <1>7, <1>8, <1>9, <1>10

(* Services that need no row. *)
LEMMA FreeServices ==
    /\ \A feed \in Feeds, role \in Roles : Does(AddMember(db, feed, role)) => DBNext
    /\ \A id \in Ids(db.members) : Does(CreateOpenInvite(db, id)) => DBNext
    /\ \A name \in Names, feed \in Feeds : Does(Register(db, name, feed)) => DBNext
    /\ \A feed \in Feeds : Does(AddDenied(db, feed)) => DBNext
    /\ \A l \in Languages : Does(SaveNew(db, l)) => DBNext
    /\ \A mode \in Modes : Does(SetPrivacyMode(db, mode)) => DBNext
    /\ \A l \in Languages : Does(SetDefaultLanguage(db, l)) => DBNext
BY DEF DBNext, MembersChange, InvitesChange, AliasesChange, DeniedChange, NoticesChange, ConfigChange

-----------------------------------------------------------------------------
(* The handlers. *)

(* What a request carries, and what its handler remembers, has its type. *)
LEMMA FormTypes ==
    ASSUME Inv, NEW i \in Requests
    PROVE  /\ form[i].op \in Ops /\ form[i].owner \in Feeds /\ form[i].feed \in Feeds
           /\ form[i].name \in Names /\ form[i].role \in Roles /\ form[i].mode \in Modes
           /\ form[i].language \in Languages /\ form[i].secret \in Secrets
           /\ form[i].pin \in Pins
           /\ run[i] \in Run /\ run[i].who \in Nat /\ run[i].row \in Nat /\ run[i].of \in Nat
           /\ db \in Database /\ Sound(db)
BY DEF Inv, TypeOK, Form, Run, Integrity

(* A check of who may pass, and a page that shows what is there. *)
LEMMA Permits ==
    ASSUME Inv, Steady, NEW i \in Requests, NEW ok, Permit(i, ok)
    PROVE  RightOf(i)
BY Goes DEF Permit, Stages, Ended

(* A page that shows what is there changes nothing. *)
LEMMA Shows ==
    ASSUME Inv, Steady, NEW i \in Requests, NEW ok, NEW found, Show(i, ok, found)
    PROVE  RightOf(i)
<1>1. CASE Permit(i, ok)
  BY <1>1, Permits
<1>2. CASE Goto(i, IF found THEN "done" ELSE "failed")
  BY <1>2, Goes DEF Stages, Ended
<1>. QED
  BY <1>1, <1>2 DEF Show

(* The member of a row is read, or it is gone. *)
LEMMA Loads ==
    ASSUME Inv, Steady, NEW i \in Requests, NEW next \in Stages \ {"open", "member"},
           LoadMemberOf(i, next) \/ LoadCreatorOf(i, next)
    PROVE  RightOf(i)
<1>1. ASSUME NEW stage \in {"panicked", next}, Goto(i, stage) PROVE RightOf(i)
  BY <1>1, Goes DEF Stages, Ended
<1>. QED
  BY <1>1 DEF LoadMemberOf, LoadCreatorOf

(* What a query for an alias, an invite or a member finds. *)
LEMMA Rows ==
    ASSUME Inv
    PROVE  /\ \A rows \in SUBSET db.aliases : \A r \in OfAliases(rows) : r.row \in Nat /\ r.of \in Nat
           /\ \A rows \in SUBSET db.invites : \A r \in OfInvites(rows) : r.row \in Nat /\ r.of \in Nat
           /\ \A m \in db.members : m.id \in Nat /\ m.feed \in Feeds /\ m.role \in Roles
           /\ \A a \in db.aliases : a.member \in Nat
           /\ \A s \in db.sessions : s.member \in Nat
BY DEF Inv, TypeOK, Database, OfAliases, OfInvites, AliasRow, InviteRow, MemberRow, SessionRow

(* Who is asking. *)
LEMMA Becomes ==
    ASSUME Inv, Steady, NEW i \in Requests, NEW m \in db.members,
           NEW stage \in Stages \ {"open", "member"}, Become(i, m, stage), UNCHANGED <<db, seen>>,
           Belongs(m.id, {form[i].owner}, db, seen)
    PROVE  RightOf(i)
<1>. DEFINE r == [run[i] EXCEPT !.at = stage, !.who = m.id, !.role = m.role, !.client = {m.feed}]
<1>1. m.id \in Nat /\ m.feed \in Feeds /\ m.role \in Roles
  BY Rows
<1>2. r \in Run /\ r.at = stage /\ r.who = m.id
  BY <1>1, FormTypes DEF Run
<1>3. run' = [run EXCEPT ![i] = r]
  BY DEF Become
<1>. HIDE DEF r
<1>. QED
  BY <1>2, <1>3, Remembers DEF Holds, Memory

(* Reading the cookies is right. *)
LEMMA AuthenticateRight ==
    ASSUME Inv, Steady, NEW i \in Requests, Authenticate(i)
    PROVE  RightOf(i)
<1>0. Cookies(form[i], db, seen) /\ Memory(form[i], run[i], db, seen)
  BY DEF Inv, Remembered
<1>1. ASSUME NEW stage \in Stages \ {"open", "member"}, run' = [run EXCEPT ![i].at = stage],
             UNCHANGED <<db, seen>>
      PROVE  RightOf(i)
  <2>. DEFINE r == [run[i] EXCEPT !.at = stage]
  <2>1. r \in Run /\ r.at = stage /\ r.who = run[i].who /\ run' = [run EXCEPT ![i] = r]
    BY <1>1, FormTypes DEF Run
  <2>. HIDE DEF r
  <2>. QED
    BY <1>0, <1>1, <2>1, Remembers DEF Holds, Memory
<1>2. ASSUME NEW member \in Nat, run' = [run EXCEPT ![i].at = "member", ![i].of = member],
             UNCHANGED <<db, seen>>, Belongs(member, {form[i].owner}, db, seen)
      PROVE  RightOf(i)
  <2>. DEFINE r == [run[i] EXCEPT !.at = "member", !.of = member]
  <2>1. /\ r \in Run /\ r.at = "member" /\ r.who = run[i].who /\ r.of = member
        /\ run' = [run EXCEPT ![i] = r]
    BY <1>2, FormTypes DEF Run, Stages
  <2>. HIDE DEF r
  <2>. QED
    BY <1>0, <1>2, <2>1, Remembers DEF Holds, Memory
<1>3. {"token", "ready"} \subseteq Stages \ {"open", "member"}
  BY DEF Stages
<1>4. CASE ReadPasswordCookie(i)
  BY <1>0, <1>1, <1>3, <1>4, Becomes DEF ReadPasswordCookie, GetByID, FindMember, Cookies
<1>5. CASE ReadTokenCookie(i)
  <2>1. \A member \in CheckToken(db, form[i].token) :
            member \in Nat /\ Belongs(member, {form[i].owner}, db, seen)
    BY <1>0, Rows DEF CheckToken, SessionsWithToken, Cookies
  <2>. QED
    BY <1>1, <1>2, <1>3, <1>5, <2>1 DEF ReadTokenCookie
<1>6. CASE ReadTokenMember(i)
  BY <1>0, <1>1, <1>3, <1>6, Becomes DEF ReadTokenMember, GetByID, FindMember, At, Memory
<1>. QED
  BY <1>4, <1>5, <1>6 DEF Authenticate

-----------------------------------------------------------------------------
(* The dashboard: members and denied keys. *)
LEMMA MembersRight ==
    ASSUME Inv, Steady, NEW i \in Requests,
           add(i) \/ changeRole(i) \/ remove(i) \/ createPasswordResetToken(i) \/ deny(i) \/ undeny(i)
    PROVE  RightOf(i)
<1>0. "done" \in Stages \ {"open", "member"} /\ "member" \in Roles
  BY DEF Stages, Ended, Roles
<1>1. CASE add(i)
  <2>1. Does(AddMember(db, form[i].feed, "member")) => [DBNext]_db
    BY <1>0, FormTypes, FreeServices
  <2>. QED
    BY <1>0, <1>1, <2>1, Permits, Execs DEF add
<1>2. CASE changeRole(i)
  <2>1. Does(SetRole(db, form[i].id, form[i].role)) => [DBNext]_db
    BY FormTypes, Services
  <2>2. SetRole(db, form[i].id, form[i].role).may <=> MayCommit(form[i], db, run[i])
    BY <1>2 DEF changeRole, Asks, MayCommit, Signing
  <2>. QED
    BY <1>2, <2>1, <2>2, Permits, Transacts DEF changeRole
<1>3. CASE remove(i)
  <2>1. db' = RemoveID(db, form[i].id).then => [DBNext]_db
    BY FormTypes, Removals
  <2>. QED
    BY <1>3, <2>1, Permits, Deletes DEF remove, Asks
<1>4. CASE createPasswordResetToken(i)
  <2>1. Does(CreateResetToken(db, run[i].who, form[i].id)) => [DBNext]_db
    BY Services
  <2>. QED
    BY <1>0, <1>4, <2>1, Permits, Execs DEF createPasswordResetToken
<1>5. CASE deny(i)
  <2>1. Does(AddDenied(db, form[i].feed)) => [DBNext]_db
    BY FormTypes, FreeServices
  <2>. QED
    BY <1>0, <1>5, <2>1, Permits, Execs DEF deny
<1>6. CASE undeny(i)
  <2>1. db' = RemoveDenied(db, form[i].id).then => [DBNext]_db
    BY FormTypes, Removals
  <2>. QED
    BY <1>6, <2>1, Permits, Deletes DEF undeny, Asks
<1>. QED
  BY <1>1, <1>2, <1>3, <1>4, <1>5, <1>6

(* Invites, settings and notices. *)
LEMMA SettingsRight ==
    ASSUME Inv, Steady, NEW i \in Requests,
           \/ createInvite(i) \/ revokeInvite(i) \/ revokeInviteConfirm(i)
           \/ setPrivacy(i) \/ setLanguage(i) \/ addTranslation(i) \/ saveNotice(i)
    PROVE  RightOf(i)
<1>0. {"done", "second", "found"} \subseteq Stages \ {"open", "member"}
  BY DEF Stages, Ended
<1>1. CASE createInvite(i)
  <2>1. Does(CreateInvite(db, run[i].who)) => [DBNext]_db
    BY Services
  <2>. QED
    BY <1>0, <1>1, <2>1, Permits, Execs DEF createInvite
<1>2. CASE revokeInvite(i)
  <2>1. Does(RevokeInvite(db, form[i].id)) => [DBNext]_db
    BY Services
  <2>2. RevokeInvite(db, form[i].id).may <=> MayCommit(form[i], db, run[i])
    BY <1>2 DEF revokeInvite, Asks, MayCommit, Signing
  <2>. QED
    BY <1>2, <2>1, <2>2, Permits, Transacts DEF revokeInvite
<1>3. CASE revokeInviteConfirm(i)
  <2>1. InviteByToken(db, form[i].id) \in SUBSET db.invites
    BY DEF InviteByToken, ActiveInvites
  <2>. QED
    BY <1>0, <1>3, <2>1, Rows, Permits, Finds, Loads DEF revokeInviteConfirm
<1>4. CASE setPrivacy(i)
  <2>1. Does(SetPrivacyMode(db, form[i].mode)) => [DBNext]_db
    BY FormTypes, FreeServices
  <2>2. SetPrivacyMode(db, form[i].mode).may <=> MayCommit(form[i], db, run[i])
    BY <1>4 DEF setPrivacy, Asks, MayCommit, Signing, SetPrivacyMode
  <2>. QED
    BY <1>4, <2>1, <2>2, Permits, Transacts DEF setPrivacy
<1>5. CASE setLanguage(i)
  <2>1. Does(SetDefaultLanguage(db, form[i].language)) => [DBNext]_db
    BY FormTypes, FreeServices
  <2>2. SetDefaultLanguage(db, form[i].language).may <=> MayCommit(form[i], db, run[i])
    BY <1>5 DEF setLanguage, Asks, MayCommit, Signing, SetDefaultLanguage
  <2>. QED
    BY <1>5, <2>1, <2>2, Permits, Transacts DEF setLanguage
<1>6. CASE addTranslation(i)
  <2>1. CASE WriteRow(i, "second", SaveNew(db, form[i].language).then, NextId(db, "notices"))
    <3>1. Does(SaveNew(db, form[i].language))
      BY <2>1 DEF Does, SaveNew, WriteRow
    <3>2. [DBNext]_db
      BY <3>1, FormTypes, FreeServices
    <3>3. NextId(db, "notices") \in Nat
      BY FormTypes, LastTypes DEF TableNames
    <3>. QED
      BY <1>0, <2>1, <3>2, <3>3, WritesRow
  <2>2. Does(PinNotice(db, form[i].pin, run[i].row)) => [DBNext]_db
    BY FormTypes, Services
  <2>. QED
    BY <1>0, <1>6, <2>1, <2>2, Permits, Execs DEF addTranslation
<1>7. CASE saveNotice(i)
  <2>1. Does(SaveNew(db, form[i].language)) => [DBNext]_db
    BY FormTypes, FreeServices
  <2>2. Does(SaveNotice(db, form[i].id, form[i].language)) => [DBNext]_db
    BY FormTypes, Removals DEF Does
  <2>. QED
    BY <1>0, <1>7, <2>1, <2>2, Permits, Execs DEF saveNotice
<1>. QED
  BY <1>1, <1>2, <1>3, <1>4, <1>5, <1>6, <1>7

(* An alias that is revoked by its name. *)
LEMMA RevokesByName ==
    ASSUME Inv, Steady, NEW i \in Requests, NEW stage, RevokeByName(i, stage),
           form[i].op \in {"aliases/revoke", "alias.revoke"}
    PROVE  RightOf(i)
<1>1. CASE Find(i, stage, OfAliases(AliasesNamed(db, form[i].name)), "open")
  <2>1. AliasesNamed(db, form[i].name) \in SUBSET db.aliases /\ "open" \in Stages
    BY DEF AliasesNamed, Stages
  <2>. QED
    BY <1>1, <2>1, Rows, Finds DEF MayCommitFor
<1>2. CASE Write(i, "done", RevokeAlias(db, run[i].row).then)
  <2>1. db' = RevokeAlias(db, run[i].row).then
    BY <1>2 DEF Write, WriteRow
  <2>2. [DBNext]_db
    BY <2>1, FormTypes, Removals
  <2>3. "done" \in Stages \ {"open", "member"}
    BY DEF Stages, Ended
  <2>. QED
    BY <1>2, <2>2, <2>3, Writes
<1>. QED
  BY <1>1, <1>2 DEF RevokeByName

(* Aliases, in the dashboard and over muxrpc. *)
LEMMA AliasesRight ==
    ASSUME Inv, Steady, NEW i \in Requests,
           \/ revokeAlias(i) \/ revokeAliasConfirm(i) \/ RegisterCall(i) \/ RevokeCall(i)
           \/ ListCall(i) \/ resolve(i)
    PROVE  RightOf(i)
<1>0. {"done", "second", "found", "refused"} \subseteq Stages \ {"open", "member"}
  BY DEF Stages, Ended
<1>1. /\ AliasesNamed(db, form[i].name) \in SUBSET db.aliases
      /\ {a \in db.aliases : a.id = form[i].id} \in SUBSET db.aliases
      /\ db.aliases \in SUBSET db.aliases
  BY DEF AliasesNamed
<1>2. CASE revokeAlias(i)
  BY <1>0, <1>1, <1>2, Rows, Permits, Finds, Loads, RevokesByName DEF revokeAlias, Asks
<1>3. CASE revokeAliasConfirm(i)
  BY <1>0, <1>1, <1>3, Rows, Permits, Finds, Loads DEF revokeAliasConfirm
<1>4. CASE RegisterCall(i)
  <2>1. Does(Register(db, form[i].name, form[i].owner)) => [DBNext]_db
    BY FormTypes, FreeServices
  <2>2. Register(db, form[i].name, form[i].owner).may <=> MayCommit(form[i], db, run[i])
    BY <1>4 DEF RegisterCall, Asks, MayCommit, Signing
  <2>. QED
    BY <1>4, <2>1, <2>2, Permits, Transacts DEF RegisterCall
<1>5. CASE RevokeCall(i)
  BY <1>0, <1>1, <1>5, Rows, Permits, Finds, Loads, RevokesByName DEF RevokeCall, Asks
<1>6. CASE ListCall(i)
  BY <1>0, <1>1, <1>6, Rows, Finds, Loads, Goes DEF ListCall, ListAliases
<1>7. CASE resolve(i)
  BY <1>0, <1>1, <1>7, Rows, Permits, Finds, Loads DEF resolve
<1>. QED
  BY <1>2, <1>3, <1>4, <1>5, <1>6, <1>7

(* Pages that only show what is there. *)
LEMMA ReadOnlyRight ==
    ASSUME Inv, Steady, NEW i \in Requests, ReadOnly(i)
    PROVE  RightOf(i)
<1>1. CASE overviewInvites(i)
  <2>1. {"panicked", "done"} \subseteq Stages \ {"open", "member"}
    BY DEF Stages, Ended
  <2>. QED
    BY <1>1, <2>1, Permits, Goes DEF overviewInvites
<1>2. CASE \E ok, found : Show(i, ok, found)
  BY <1>2, Shows
<1>. QED
  BY <1>1, <1>2
  DEF ReadOnly, overview, setCookieLanguage, overviewMembers, details,
      removeConfirm, overviewDenied, undenyConfirm, overviewSettings, edit, draftTranslation,
      listNotices, showNotice, changePasswordForm

(* Somebody is let in whose key is not denied, or because nobody knows. *)
LEMMA Passes ==
    ASSUME Inv, Steady, NEW i \in Requests, NEW stage, NEW feed,
           NEW next \in Stages \ {"open", "member"}, PassDenied(i, stage, feed, next)
    PROVE  RightOf(i)
<1>1. "refused" \in Stages \ {"open", "member"}
  BY DEF Stages, Ended
<1>2. CASE Goto(i, IF HasFeed(db, feed) THEN "refused" ELSE next)
  BY <1>1, <1>2, Goes
<1>3. CASE run' = [run EXCEPT ![i].at = next, ![i].blind = TRUE] /\ UNCHANGED <<db, seen>>
  <2>. DEFINE r == [run[i] EXCEPT !.at = next, !.blind = TRUE]
  <2>1. r \in Run /\ r.at = next /\ r.who = run[i].who /\ run' = [run EXCEPT ![i] = r]
    BY <1>3, FormTypes DEF Run
  <2>2. Memory(form[i], run[i], db, seen)
    BY DEF Inv, Remembered
  <2>. HIDE DEF r
  <2>. QED
    BY <1>3, <2>1, <2>2, Remembers DEF Holds, Memory
<1>. QED
  BY <1>2, <1>3 DEF PassDenied

(* Pages for everybody: invites and passwords. *)
LEMMA PublicRight ==
    ASSUME Inv, Steady, NEW i \in Requests,
           \/ landing(i) \/ facade(i) \/ presentFacadeFallback(i) \/ consume(i)
           \/ createOpenMode(i) \/ changePassword(i)
    PROVE  RightOf(i)
<1>0. {"done", "failed", "found", "granted"} \subseteq Stages \ {"open", "member"}
  BY DEF Stages, Ended
<1>1. CASE landing(i)
  BY <1>0, <1>1, Goes DEF landing
<1>2. CASE facade(i) \/ presentFacadeFallback(i)
  <2>1. InviteByToken(db, form[i].id) \in SUBSET db.invites
    BY DEF InviteByToken, ActiveInvites
  <2>. QED
    BY <1>0, <1>2, <2>1, Rows, Finds, Loads DEF facade, presentFacadeFallback, GetByToken
<1>3. CASE consume(i)
  <2>1. Does(Consume(db, form[i].id, form[i].feed)) => [DBNext]_db
    BY FormTypes, Services
  <2>2. Consume(db, form[i].id, form[i].feed).may <=> MayCommit(form[i], db, run[i])
    BY <1>3 DEF consume, Asks, MayCommit, Signing
  <2>. QED
    BY <1>0, <1>3, <2>1, <2>2, Passes, Transacts DEF consume
<1>4. CASE createOpenMode(i)
  <2>1. CASE Find(i, "ready", {[row |-> run[i].row, of |-> m] : m \in OpenCreators(db)}, "open")
    <3>1. run[i].row \in Nat /\ \A m \in OpenCreators(db) : m \in Nat
      BY Rows, FormTypes DEF OpenCreators, Ids
    <3>2. \A m \in OpenCreators(db) : MayCommitFor(form[i], db, m)
      BY <1>4 DEF createOpenMode, Asks, OpenCreators, MayCommitFor
    <3>3. "open" \in Stages \ {"member"}
      BY DEF Stages
    <3>. QED
      BY <2>1, <3>1, <3>2, <3>3, Finds
  <2>2. CASE Commit(i, CreateOpenInvite(db, run[i].of))
    <3>1. CreateOpenInvite(db, run[i].of).may
      BY <1>4, <2>2 DEF createOpenMode, Asks, Inv, ReadsHold, Holds, MayCommit, Commit, At
    <3>2. run[i].of \in Ids(db.members) /\ Does(CreateOpenInvite(db, run[i].of))
      BY <2>2, <3>1 DEF CreateOpenInvite, MembersWithRole, Ids, Does, Commit, Write, WriteRow
    <3>3. "done" \in Stages \ {"open", "member"}
      BY DEF Stages, Ended
    <3>. QED
      BY <2>2, <3>2, <3>3, FreeServices, Writes DEF Commit
  <2>. QED
    BY <1>4, <2>1, <2>2 DEF createOpenMode
<1>5. CASE changePassword(i)
  <2>1. /\ Does(SetPassword(db, run[i].who, form[i].secret)) => [DBNext]_db
        /\ Does(SetPasswordWithToken(db, form[i].id, form[i].secret)) => [DBNext]_db
    BY FormTypes, Services
  <2>2. form[i].id = 0 =>
            (SetPassword(db, run[i].who, form[i].secret).may <=> MayCommit(form[i], db, run[i]))
    BY <1>5 DEF changePassword, Asks, MayCommit, Signing
  <2>3. form[i].id # 0 =>
            (SetPasswordWithToken(db, form[i].id, form[i].secret).may
                <=> MayCommit(form[i], db, run[i]))
    BY <1>5 DEF changePassword, Asks, MayCommit, Signing
  <2>. QED
    BY <1>5, <2>1, <2>2, <2>3, Permits, Transacts DEF changePassword
<1>. QED
  BY <1>1, <1>2, <1>3, <1>4, <1>5

(* Sign-in. *)
LEMMA SignInRight ==
    ASSUME Inv, Steady, NEW i \in Requests,
           \/ login(i) \/ DecideMethod(i) \/ clientInitiated(i) \/ finalizeCookie(i) \/ Logout(i)
           \/ invalidateAllSolutions(i)
    PROVE  RightOf(i)
<1>0. {"done", "second", "found", "refused", "asked", "granted", "panicked"} \subseteq Stages \ {"open", "member"}
  BY DEF Stages, Ended
<1>1. ASSUME NEW r \in Run, r.at \notin {"open", "member"}, r.who \in {0, run[i].who} \/ form[i].op = "login",
             run' = [run EXCEPT ![i] = r], UNCHANGED <<db, seen>>
      PROVE  RightOf(i)
  BY <1>1, Remembers DEF Holds, Memory, Inv, Remembered
<1>2. Fresh("refused") \in Run /\ Fresh("refused").at = "refused" /\ Fresh("refused").who = 0
  BY DEF Fresh, Run, Stages, Ended, Roles
<1>3. \A ids \in SUBSET Nat : \A r \in {[row |-> 0, of |-> m] : m \in ids} : r.row \in Nat /\ r.of \in Nat
  OBVIOUS
<1>4. CASE login(i)
  <2>1. CASE Find(i, "ready", {[row |-> 0, of |-> m] : m \in LoginOf(db, form[i].name, form[i].feed)},
                  "second")
    <3>1. LoginOf(db, form[i].name, form[i].feed) \in SUBSET Nat
      BY Rows DEF LoginOf, AliasesNamed, MembersWithFeed
    <3>. QED
      BY <1>0, <1>3, <2>1, <3>1, Finds
  <2>2. CASE UNCHANGED <<db, seen>> /\ run' = [run EXCEPT ![i].at = "done", ![i].who = run[i].of]
    <3>. DEFINE r == [run[i] EXCEPT !.at = "done", !.who = run[i].of]
    <3>1. r \in Run /\ r.at = "done" /\ run' = [run EXCEPT ![i] = r]
      BY <1>0, <2>2, FormTypes DEF Run
    <3>. HIDE DEF r
    <3>. QED
      BY <1>1, <1>4, <2>2, <3>1 DEF login, Asks
  <2>3. CASE UNCHANGED <<db, seen>> /\ run' = [run EXCEPT ![i] = Fresh("refused")]
    BY <1>1, <1>2, <2>3
  <2>. QED
    BY <1>4, <2>1, <2>2, <2>3 DEF login
<1>5. CASE DecideMethod(i)
  <2>1. ASSUME NEW stage \in {"second", "panicked"}, NEW client \in SUBSET Feeds,
               run' = [run EXCEPT ![i].at = stage, ![i].client = client], UNCHANGED <<db, seen>>
        PROVE  RightOf(i)
    <3>. DEFINE r == [run[i] EXCEPT !.at = stage, !.client = client]
    <3>1. r \in Run /\ r.at = stage /\ r.who = run[i].who /\ run' = [run EXCEPT ![i] = r]
      BY <1>0, <2>1, FormTypes DEF Run
    <3>. HIDE DEF r
    <3>. QED
      BY <1>1, <2>1, <3>1
  <2>2. CASE At(i, "ready") /\ UNCHANGED <<db, seen>>
             /\ run' = IF GetByFeed(db, form[i].owner) # {}
                       THEN [run EXCEPT ![i].at = "second", ![i].client = {form[i].owner}]
                       ELSE [run EXCEPT ![i] = Fresh("refused")]
    <3>1. {form[i].owner} \in SUBSET Feeds /\ "second" \in {"second", "panicked"}
      BY FormTypes
    <3>2. CASE run' = [run EXCEPT ![i].at = "second", ![i].client = {form[i].owner}]
      BY <2>1, <2>2, <3>1, <3>2
    <3>3. CASE run' = [run EXCEPT ![i] = Fresh("refused")]
      BY <1>1, <1>2, <2>2, <3>3
    <3>. QED
      BY <2>2, <3>2, <3>3
  <2>3. CASE Find(i, "ready", OfAliases(AliasesNamed(db, form[i].name)), "found")
    <3>1. AliasesNamed(db, form[i].name) \in SUBSET db.aliases
      BY DEF AliasesNamed
    <3>. QED
      BY <1>0, <2>3, <3>1, Rows, Finds
  <2>4. CASE /\ UNCHANGED <<db, seen>>
             /\ run' = [run EXCEPT ![i].client = {m.feed : m \in FindMember(db, run[i].of)},
                                   ![i].at = IF FindMember(db, run[i].of) = {} THEN "panicked"
                                             ELSE "second"]
    <3>. DEFINE client == {m.feed : m \in FindMember(db, run[i].of)}
                stage == IF FindMember(db, run[i].of) = {} THEN "panicked" ELSE "second"
                r == [run[i] EXCEPT !.client = client, !.at = stage]
    <3>1. client \in SUBSET Feeds /\ stage \in {"second", "panicked"}
      BY Rows DEF FindMember
    <3>2. run' = [run EXCEPT ![i] = r] /\ UNCHANGED <<db, seen>>
      BY <2>4
    <3>. HIDE DEF client, stage
    <3>3. r \in Run /\ r.at = stage /\ r.who = run[i].who
      BY <1>0, <3>1, FormTypes DEF Run
    <3>. HIDE DEF r
    <3>. QED
      BY <1>1, <3>1, <3>2, <3>3
  <2>. QED
    BY <1>5, <2>2, <2>3, <2>4 DEF DecideMethod
<1>6. CASE clientInitiated(i)
  <2>1. CASE Find(i, "second",
                  {[row |-> 0, of |-> m.id] : m \in {n \in db.members : n.feed \in run[i].client}},
                  "asked")
    BY <1>0, <2>1, Rows, Finds
  <2>2. CASE Goto(i, "granted")
    BY <1>0, <2>2, Goes
  <2>3. CASE Transact(i, "granted", CreateToken(db, run[i].of))
    <3>1. Does(CreateToken(db, run[i].of)) => [DBNext]_db
      BY Services
    <3>2. CreateToken(db, run[i].of).may <=> MayCommit(form[i], db, run[i])
      BY <1>6 DEF clientInitiated, MayCommit, Signing
    <3>. QED
      BY <2>3, <3>1, <3>2, Transacts
  <2>. QED
    BY <1>6, <2>1, <2>2, <2>3 DEF clientInitiated
<1>7. CASE finalizeCookie(i)
  BY <1>0, <1>7, Goes DEF finalizeCookie
<1>8. CASE Logout(i)
  <2>1. Does(RemoveToken(db, form[i].token)) => [DBNext]_db
    BY FormTypes, Removals DEF Does
  <2>. QED
    BY <1>0, <1>8, <2>1, Execs DEF Logout
<1>9. CASE invalidateAllSolutions(i)
  <2>1. Does(WipeTokens(db, run[i].of)) => [DBNext]_db
    BY FormTypes, Removals DEF Does
  <2>2. \A r \in {[row |-> 0, of |-> m.id] : m \in GetByFeed(db, form[i].owner)} :
            r.row \in Nat /\ r.of \in Nat
    BY Rows DEF GetByFeed, MembersWithFeed
  <2>. QED
    BY <1>0, <1>9, <2>1, <2>2, Finds, Execs DEF invalidateAllSolutions
<1>. QED
  BY <1>4, <1>5, <1>6, <1>7, <1>8, <1>9

(* Admission, and calls that only read. *)
LEMMA ConnectionsRight ==
    ASSUME Inv, Steady, NEW i \in Requests,
           mkHandler(i) \/ members(i) \/ metadata(i) \/ whoami(i) \/ Ping(i)
    PROVE  RightOf(i)
<1>0. {"done", "refused", "asked", "granted"} \subseteq Stages \ {"open", "member"}
  BY DEF Stages, Ended
<1>1. CASE mkHandler(i)
  BY <1>0, <1>1, Goes, Passes DEF mkHandler
<1>2. CASE members(i)
  BY <1>0, <1>2, Goes DEF members
<1>3. CASE metadata(i) \/ whoami(i)
  BY <1>3, Shows DEF metadata, whoami
<1>4. CASE Ping(i)
  BY <1>0, <1>4, Permits, Goes DEF Ping, actualPingPong
<1>. QED
  BY <1>1, <1>2, <1>3, <1>4

(* The program insert-user. *)
LEMMA InsertUserRight ==
    ASSUME Inv, Steady, NEW i \in Requests, Asks(i, "insert-user"), insertUser(i)
    PROVE  RightOf(i)
<1>0. {"asked", "found", "granted", "second", "failed", "done"} \subseteq Stages \ {"open", "member"}
  BY DEF Stages, Ended
<1>1. ASSUME NEW stage \in Stages \ {"open", "member"},
             NEW d \in {DeleteOldSessions(db), DeleteUsedInvites(db), DeleteUsedResets(db)},
             Write(i, stage, d)
      PROVE  RightOf(i)
  <2>1. [DBNext]_db
    BY <1>1 DEF Write, WriteRow, DBNext
  <2>. QED
    BY <1>1, <2>1, Writes
<1>2. ASSUME AddMember(db, form[i].feed, form[i].role).may,
             WriteRow(i, "second", AddMember(db, form[i].feed, form[i].role).then, NextId(db, "members"))
      PROVE  RightOf(i)
  <2>1. Does(AddMember(db, form[i].feed, form[i].role))
    BY <1>2 DEF Does, WriteRow
  <2>2. [DBNext]_db
    BY <2>1, FormTypes, FreeServices
  <2>3. NextId(db, "members") \in Nat
    BY FormTypes, LastTypes DEF TableNames
  <2>. QED
    BY <1>0, <1>2, <2>2, <2>3, WritesRow
<1>3. CASE Transact(i, "second", SetPassword(db, run[i].row, form[i].secret))
  <2>1. Does(SetPassword(db, run[i].row, form[i].secret)) => [DBNext]_db
    BY FormTypes, Services
  <2>2. SetPassword(db, run[i].row, form[i].secret).may <=> MayCommit(form[i], db, run[i])
    BY DEF Asks, MayCommit, Signing
  <2>. QED
    BY <1>3, <2>1, <2>2, Transacts
<1>. QED
  BY <1>0, <1>1, <1>2, <1>3, Goes DEF insertUser

-----------------------------------------------------------------------------
(* All steps. *)

(* A request that fails, and a panic. *)
LEMMA FailsRight ==
    ASSUME Inv, Steady, NEW i \in Requests, Fail(i) \/ CheckPanics(i)
    PROVE  RightOf(i)
<1>1. {"failed", "panicked"} \subseteq Stages \ {"open", "member"}
  BY DEF Stages, Ended
<1>. QED
  BY <1>1, Goes DEF Fail, CheckPanics

(* Every step of a handler is right. *)
LEMMA HandleRight ==
    ASSUME Inv, NEW i \in Requests, Handle(i) \/ Command(i)
    PROVE  RightOf(i)
<1>0. Steady
  BY DEF Handle, Command, Steady
<1>1. CASE Authenticate(i)
  BY <1>0, <1>1, AuthenticateRight
<1>2. CASE Dashboard(i)
  BY <1>0, <1>2, MembersRight, SettingsRight, AliasesRight DEF Dashboard
<1>3. CASE ReadOnly(i)
  BY <1>0, <1>3, ReadOnlyRight
<1>4. CASE Pages(i)
  BY <1>0, <1>4, PublicRight, SignInRight, AliasesRight DEF Pages
<1>5. CASE Calls(i)
  BY <1>0, <1>5, ConnectionsRight, SignInRight, AliasesRight DEF Calls
<1>6. CASE CheckPanics(i) \/ Fail(i)
  BY <1>0, <1>6, FailsRight
<1>7. CASE Asks(i, "insert-user") /\ insertUser(i)
  BY <1>0, <1>7, InsertUserRight
<1>. QED
  BY <1>1, <1>2, <1>3, <1>4, <1>5, <1>6, <1>7 DEF Handle, Command

(* What a transaction reads does not age. *)
LEMMA AgeRight ==
    ASSUME Inv, Age
    PROVE  Elsewhere
<1>1. PICK s \in db.sessions : db' = Older(db, s.id)
  BY DEF Age
<1>2. DBNext
  BY <1>1 DEF DBNext, SessionsChange, Ids
<1>3. Sound(db')
  BY <1>2, ServiceSound DEF Inv, Integrity
<1>4. /\ db'.members = db.members /\ db'.invites = db.invites /\ db'.resets = db.resets
      /\ db'.aliases = db.aliases /\ db'.config = db.config
  BY <1>1 DEF Older, Inv, TypeOK, Database
<1>5. \A f, r : MayCommit(f, db, r) => MayCommit(f, db', r)
  BY <1>4 DEF MayCommit, Signing, SetRole, RevokeInvite, Consume, SetPassword, SetPasswordWithToken,
              CreateToken, Register, FindMember, MembersWithRole, MembersWithFeed, InviteByToken,
              ActiveInvites, ActiveReset, ActiveResets, AliasesNamed, CreateOpenInvite,
              GetPrivacyMode, FindConfig
<1>6. ReadsHold'
  BY <1>5 DEF Age, Inv, ReadsHold, Holds
<1>7. TypeOK'
  BY <1>3 DEF Age, Inv, TypeOK, Sound
<1>8. Remembered'
  <2>1. Continues(db, db') /\ seen' \subseteq seen \cup {db'} /\ run' = run
    BY <1>2, ServiceContinues DEF Inv, Integrity, Age
  <2>. QED
    BY <2>1, BelongsOn DEF Inv, Remembered, TypeOK, Form, Age
<1>9. db'.denied = db.denied /\ db'.config = db.config
  BY <1>1 DEF Older, Inv, TypeOK, Database
<1>. QED
  BY <1>2, <1>3, <1>4, <1>6, <1>7, <1>8, <1>9 DEF Elsewhere, Right, Inv, Integrity, Logged, Same, Age

(* Cleaning up is a write of somebody else. *)
LEMMA CleansRight ==
    ASSUME Inv, NEW d, Cleaned(d), DBNext, form' = form, crashes' = crashes, boot' \in 0..3
    PROVE  Elsewhere
<1>1. run \in [Requests -> Run]
  BY DEF Inv, TypeOK
<1>2. Sound(db')
  BY ServiceSound DEF Inv, Integrity
<1>. DEFINE F(j) == [run[j] EXCEPT !.dirty = @ \/ run[j].at = "open"]
<1>3. run' = [j \in Requests |-> F(j)]
  BY DEF Cleaned
<1>4. ASSUME NEW j \in Requests
      PROVE  /\ F(j) \in Run /\ (F(j).at = "open" => F(j).dirty)
             /\ Same(F(j), run[j])
  <2>1. run[j] \in Run
    BY <1>1
  <2>. DEFINE b == run[j].dirty \/ run[j].at = "open"
  <2>2. b \in BOOLEAN
    OBVIOUS
  <2>3. F(j) = [run[j] EXCEPT !.dirty = b]
    OBVIOUS
  <2>4. /\ F(j) \in Run /\ F(j).dirty = b
        /\ Same(F(j), run[j])
    <3>. HIDE DEF b, F
    <3>. QED
      BY <2>1, <2>2, <2>3 DEF Run, Same
  <2>. HIDE DEF F
  <2>. QED
    BY <2>1, <2>4 DEF Same
<1>. HIDE DEF F
<1>5. TypeOK'
  <2>1. db' \in Database /\ \A e \in seen' : e \in Database
    BY <1>2 DEF Sound, Cleaned, Inv, TypeOK
  <2>2. run' \in [Requests -> Run]
    BY <1>3, <1>4
  <2>. QED
    BY <2>1, <2>2 DEF Inv, TypeOK
<1>6. ReadsHold'
  BY <1>3, <1>4 DEF ReadsHold, Holds
<1>7. Remembered'
  <2>1. Continues(db, db') /\ seen' \subseteq seen \cup {db'}
    BY ServiceContinues DEF Inv, Integrity, Cleaned
  <2>2. \A j \in Requests : Cookies(form[j], db', seen') /\ Memory(form[j], run[j], db', seen')
    BY <2>1, BelongsOn DEF Inv, Remembered, TypeOK, Form
  <2>3. \A j \in Requests : Memory(form[j], run'[j], db', seen')
    BY <1>3, <1>4, <2>2 DEF Memory, Same
  <2>. QED
    BY <2>2, <2>3 DEF Remembered
<1>. QED
  BY <1>2, <1>3, <1>4, <1>5, <1>6, <1>7 DEF Elsewhere, Right, Inv, Integrity, Logged, Cleaned

(* Whoever is stopped by a crash has not begun. *)
LEMMA CrashRight ==
    ASSUME Inv, Crash
    PROVE  Elsewhere
<1>1. Fresh("failed") \in Run /\ Fresh("failed").at = "failed" /\ Fresh("failed").who = 0
  BY DEF Fresh, Run, Stages, Ended, Roles
<1>2. TypeOK'
  <2>1. run' \in [Requests -> Run]
    BY <1>1 DEF Crash, Inv, TypeOK
  <2>2. boot' \in 0..3 /\ crashes' \in Nat
    BY DEF Crash, Inv, TypeOK
  <2>. QED
    BY <2>1, <2>2 DEF Crash, Inv, TypeOK
<1>3. ReadsHold'
  BY <1>1 DEF Crash, Inv, ReadsHold, Holds
<1>4. Remembered'
  BY <1>1 DEF Crash, Inv, Remembered, Memory
<1>. QED
  BY <1>2, <1>3, <1>4 DEF Elsewhere, Right, Inv, Integrity, Crash, Logged, Same

(* A step is one of a request, which leaves the others alone, or of nobody. *)
LEMMA NextSteps ==
    ASSUME Inv, [Next]_vars
    PROVE  /\ form' = form
           /\ \/ \E i \in Requests : (Handle(i) \/ Command(i)) /\ RightOf(i)
              \/ Elsewhere
<1>0. form' = form
  BY DEF Next, vars, Handle, Command, Age, Tick, Crash, Open
<1>1. CASE \E i \in Requests : Handle(i) \/ Command(i)
  BY <1>0, <1>1, HandleRight
<1>2. CASE Age
  BY <1>0, <1>2, AgeRight
<1>3. CASE Tick
  <2>1. DBNext
    BY <1>3 DEF Tick, Cleaned, DBNext
  <2>. QED
    BY <1>0, <1>3, <2>1, CleansRight DEF Tick, Inv, TypeOK
<1>4. CASE Crash
  BY <1>0, <1>4, CrashRight
<1>5. CASE Open
  <2>1. boot \in 1..3 /\ boot' \in 0..3
    BY <1>5 DEF Open, Inv, TypeOK
  <2>2. PICK d \in {DeleteOldSessions(db), DeleteUsedInvites(db), DeleteUsedResets(db)} : Cleaned(d)
    BY <1>5, <2>1 DEF Open
  <2>3. DBNext
    BY <2>2 DEF Cleaned, DBNext
  <2>. QED
    BY <1>0, <1>5, <2>1, <2>2, <2>3, CleansRight DEF Open
<1>6. CASE UNCHANGED vars
  <2>1. UNCHANGED <<db, form, run, seen, boot, crashes>>
    BY <1>6 DEF vars
  <2>. QED
    BY <1>0, <2>1 DEF Elsewhere, Right, Inv, TypeOK, Integrity, ReadsHold, Remembered, Logged, Same
<1>. QED
  BY <1>0, <1>1, <1>2, <1>3, <1>4, <1>5, <1>6 DEF Next

(* Either way it is right. *)
LEMMA NextRight ==
    ASSUME Inv, [Next]_vars
    PROVE  Right
BY NextSteps DEF RightOf, Elsewhere

(* It is right from the beginning. *)
LEMMA InitRight == Init => Inv
<1>. SUFFICES ASSUME Init PROVE Inv
  OBVIOUS
<1>1. PICK a \in Agenda : db = a.db /\ form = a.form /\ crashes = a.crashes
  BY DEF Init
<1>2. Sound(db) /\ form \in [Requests -> Form] /\ crashes \in Nat
  BY <1>1, AgendaAssumption
<1>3. \A stage \in {"ready", "arrived"} : Fresh(stage) \in Run /\ Fresh(stage).at = stage
  BY DEF Fresh, Run, Stages, Ended, Roles
<1>4. \A i \in Requests : run[i] \in {Fresh("ready"), Fresh("arrived")}
  BY DEF Init
<1>5. run \in [Requests -> Run]
  BY <1>3, <1>4 DEF Init
<1>6. ReadsHold
  BY <1>3, <1>4 DEF ReadsHold, Holds
<1>7. TypeOK
  BY <1>2, <1>5 DEF TypeOK, Init, Sound
<1>8. Remembered
  <2>1. ASSUME NEW i \in Requests PROVE Cookies(form[i], db, seen) /\ Memory(form[i], run[i], db, seen)
    <3>1. /\ form[i].password <= db.last["members"]
          /\ \A m \in FindMember(db, form[i].password) : m.feed = form[i].owner
          /\ form[i].token <= db.last["sessions"]
          /\ \A s \in SessionsWithToken(db, form[i].token) : \A m \in FindMember(db, s.member) :
                 m.feed = form[i].owner
      BY <1>1, CookiesAssumption
    <3>2. seen \cup {db} = {db} /\ form[i].password \in Nat
      BY <1>2 DEF Init, Form
    <3>3. \A s \in db.sessions : s.member \in Nat /\ s.member <= db.last["members"]
      <4>1. \A m \in db.members : m.id \in Nat /\ m.id <= db.last["members"]
        BY <1>2, RowTypes DEF Sound, AllIdsUnique, IdsUnique, TableNames
      <4>. QED
        BY <1>2, <4>1 DEF Sound, KeysExist, Refers
    <3>4. Cookies(form[i], db, seen)
      BY <3>1, <3>2, <3>3 DEF Cookies, Belongs, SessionsWithToken
    <3>5. run[i].who = 0 /\ run[i].at # "member"
      BY <1>4 DEF Fresh
    <3>. QED
      BY <3>4, <3>5 DEF Memory
  <2>. QED
    BY <2>1 DEF Remembered
<1>. QED
  BY <1>2, <1>6, <1>7, <1>8 DEF Inv, Integrity

\* Whatever is asked, and in whatever order the queries are made, each variable of the requests
\* keeps its type, and so do the rows of the database.
THEOREM TypeCorrect == Spec => []TypeOK
<1>1. Inv /\ [Next]_vars => Inv'
  BY NextRight DEF Right
<1>. QED
  BY <1>1, InitRight, PTL DEF Spec, Inv

\* The requests implement the services of the database: though each query, failure, crash and
\* cleanup is a step of its own, the rows only change by one call of a method as a whole
\* (roomdb/sqlite, transact).
THEOREM DatabaseStepsHold == Spec => DatabaseSteps
<1>1. Inv /\ [Next]_vars => Inv' /\ [DBNext]_db
  BY NextRight DEF Right
<1>2. Inv => Integrity
  BY DEF Inv
<1>. QED
  BY <1>1, <1>2, InitRight, PTL DEF Spec, DatabaseSteps, DBSpec

\* Changing roles never leaves the room without an administrator, in whatever order the
\* transactions commit (roomdb/sqlite/members.go, SetRole).
THEOREM RolesKeepAdmin == Spec => RoleChangeKeepsAdmin
<1>1. Inv /\ [Next]_vars => Inv' /\ [DBNext]_db
  BY NextRight DEF Right
<1>2. Inv /\ [DBNext]_db =>
        (MembersWithRole(db, "admin") # {} /\ MembersWithRole(db', "admin") = {}
            => \E m \in db.members : FindMember(db', m.id) = {})
  BY ServiceKeepsAdmin DEF Inv, Integrity
<1>3. Inv /\ [Next]_vars =>
        [ MembersWithRole(db, "admin") # {} /\ MembersWithRole(db', "admin") = {}
            => \E m \in db.members : FindMember(db', m.id) = {} ]_vars
  BY <1>1, <1>2
<1>. QED
  BY <1>1, <1>3, InitRight, PTL DEF Spec, RoleChangeKeepsAdmin

-----------------------------------------------------------------------------
(* What a request may rely on later: the databases there have been, and    *)
(* what it found in them.                                                  *)

History == \A e \in seen : Sound(e) /\ Continues(e, db)
Known == \E d \in seen : d.members = db.members /\ d.denied = db.denied /\ d.config = db.config

(* The member found for a sign-in has one of the keys that are asked.      *)
Answered(f, r, d, s) ==
    f.op \in Signing /\ r.at \in {"asked", "granted", "open", "done"} => Belongs(r.of, r.client, d, s)

(* Whoever is done with a token has left it used.                          *)
Spent(f, r, d) ==
    r.at = "done" =>
        /\ f.op = "consume" =>
              InviteByToken(d, f.id) = {} /\ f.id <= d.last["invites"]
        /\ f.op = "changePassword" /\ f.id # 0 =>
              ActiveReset(d, f.id) = {} /\ f.id <= d.last["resets"]

(* Whoever was let in was not denied, or was a member, at some time.       *)
Justified(f, r, s) ==
    /\ f.op = "consume" /\ r.at \in {"granted", "open", "done"} =>
          r.blind \/ \E d \in s : ~HasFeed(d, f.feed)
    /\ f.op = "admission" /\ r.at \in {"granted", "done"} =>
          \E d \in s : GetPrivacyMode(d) # "restricted" \/ GetByFeed(d, f.owner) # {}
    /\ f.op = "admission" /\ r.at = "done" =>
          r.blind \/ \E d \in s : ~HasFeed(d, f.owner)
    /\ f.op = "members.list" /\ r.at \in {"granted", "done"} =>
          \E d \in s : GetPrivacyMode(d) = "open" \/ GetByFeed(d, f.owner) # {}

Facts(f, r, d, s) == Answered(f, r, d, s) /\ Spent(f, r, d) /\ Justified(f, r, s)
FactsHold == \A i \in Requests : Facts(form[i], run[i], db, seen)

HInv == Inv /\ History /\ Known /\ FactsHold /\ TokensUsedOnce

(* The databases there have been lead to the one there is. *)
LEMMA HistoryOn ==
    ASSUME Inv, History, Known, Right, Logged
    PROVE  History' /\ Known' /\ Continues(db, db')
<1>1. Continues(db, db')
  BY ServiceContinues, DeletesContinue DEF Inv, Integrity, Right, Sound
<1>2. Sound(db') /\ Continues(db', db')
  BY DeletesContinue DEF Right, Inv, Integrity, Sound
<1>3. \A e \in seen' : Sound(e) /\ Continues(e, db')
  BY <1>1, <1>2, ContinuesOn DEF History, Logged
<1>4. Known'
  BY DEF Known, Logged
<1>. QED
  BY <1>1, <1>3, <1>4 DEF History

(* What a request knows stays true while others go on. *)
LEMMA FactsOn ==
    ASSUME NEW d, NEW e, NEW s, NEW t, Continues(d, e), t \subseteq s \cup {e}, s \subseteq t,
           NEW f, f.id \in Nat, NEW r, Facts(f, r, d, s)
    PROVE  Facts(f, r, e, t)
<1>1. Answered(f, r, e, t)
  BY BelongsOn DEF Facts, Answered
<1>2. Spent(f, r, e)
  <2>1. {"invites", "resets"} \subseteq TableNames
    BY DEF TableNames
  <2>2. ASSUME InviteByToken(d, f.id) = {}, f.id <= d.last["invites"]
        PROVE  InviteByToken(e, f.id) = {} /\ f.id <= e.last["invites"]
    <3>1. f.id <= e.last["invites"]
      BY <2>1, <2>2 DEF Continues
    <3>2. \A j \in e.invites : ~(j.id = f.id /\ j.state = "active")
      BY <2>1, <2>2 DEF Continues, InviteByToken, ActiveInvites
    <3>. QED
      BY <3>1, <3>2 DEF InviteByToken, ActiveInvites
  <2>3. ASSUME ActiveReset(d, f.id) = {}, f.id <= d.last["resets"]
        PROVE  ActiveReset(e, f.id) = {} /\ f.id <= e.last["resets"]
    <3>1. f.id <= e.last["resets"]
      BY <2>1, <2>3 DEF Continues
    <3>2. \A j \in e.resets : ~(j.id = f.id /\ j.state = "active")
      BY <2>1, <2>3 DEF Continues, ActiveReset, ActiveResets
    <3>. QED
      BY <3>1, <3>2 DEF ActiveReset, ActiveResets
  <2>. QED
    BY <2>2, <2>3 DEF Facts, Spent
<1>3. Justified(f, r, t)
  BY DEF Facts, Justified
<1>. QED
  BY <1>1, <1>2, <1>3 DEF Facts

(* So it does for a request that changes nothing that matters, or fails. *)
LEMMA FactsSame ==
    ASSUME NEW f, NEW d, NEW s, NEW r, NEW q, Same(q, r) \/ q = Fresh("failed"), Facts(f, r, d, s)
    PROVE  Facts(f, q, d, s)
<1>1. CASE Same(q, r)
  BY <1>1 DEF Facts, Answered, Spent, Justified, Same
<1>2. CASE q = Fresh("failed")
  BY <1>2 DEF Facts, Answered, Spent, Justified, Fresh
<1>. QED
  BY <1>1, <1>2

-----------------------------------------------------------------------------
(* Which handler a request has. *)
LEMMA DashboardAsks ==
    ASSUME NEW i, Dashboard(i)
    PROVE  form[i].op \in InDashboard
BY DEF Dashboard, add, changeRole, remove, createPasswordResetToken, deny, undeny, createInvite,
       revokeInvite, revokeInviteConfirm, setPrivacy, setLanguage, revokeAlias, revokeAliasConfirm,
       addTranslation, saveNotice, Asks, InDashboard

(* Which pages only read. *)
LEMMA ReadOnlyAsks ==
    ASSUME NEW i, ReadOnly(i)
    PROVE  form[i].op \in InDashboard \cup {"changePasswordForm", "set-language", "notice/list",
                                           "notice/show"}
BY DEF ReadOnly, overview, setCookieLanguage, overviewMembers, details,
       removeConfirm, overviewDenied, undenyConfirm, overviewInvites, overviewSettings, edit,
       draftTranslation, listNotices, showNotice, changePasswordForm, Asks, InDashboard

(* The handlers that the properties are about. *)
LEMMA Pinned ==
    ASSUME NEW i, Handle(i) \/ Command(i)
    PROVE  /\ Asks(i, "consume") => consume(i) \/ Authenticate(i) \/ Fail(i)
           /\ Asks(i, "changePassword") => changePassword(i) \/ Authenticate(i) \/ Fail(i)
           /\ Asks(i, "admission") => mkHandler(i) \/ Authenticate(i) \/ Fail(i)
           /\ Asks(i, "members.list") => members(i) \/ Authenticate(i) \/ Fail(i)
           /\ form[i].op \in Signing =>
                 DecideMethod(i) \/ clientInitiated(i) \/ Authenticate(i) \/ Fail(i)
<1>. DEFINE Ours == {"consume", "changePassword", "admission", "members.list"} \cup Signing
<1>1. form[i].op \in Ours => ~Dashboard(i) /\ ~ReadOnly(i)
  BY DashboardAsks, ReadOnlyAsks DEF InDashboard, Signing
<1>2. form[i].op \in Ours => ~CheckPanics(i) /\ ~Asks(i, "insert-user")
  BY DEF CheckPanics, Asks, Signing
<1>3. Pages(i) => /\ Asks(i, "consume") => consume(i)
                  /\ Asks(i, "changePassword") => changePassword(i)
                  /\ ~Asks(i, "admission") /\ ~Asks(i, "members.list")
                  /\ form[i].op \in Signing => DecideMethod(i) \/ clientInitiated(i)
  BY DEF Pages, landing, facade, presentFacadeFallback, consume, createOpenMode, resolve,
         changePassword, login,
         DecideMethod, clientInitiated, finalizeCookie, Logout, Asks, Signing
<1>4. Calls(i) => /\ Asks(i, "admission") => mkHandler(i)
                  /\ Asks(i, "members.list") => members(i)
                  /\ ~Asks(i, "consume") /\ ~Asks(i, "changePassword")
                  /\ form[i].op \notin Signing
  BY DEF Calls, RegisterCall, RevokeCall, ListCall, invalidateAllSolutions, mkHandler, members,
         metadata, whoami, Ping, Asks, Signing
<1>. QED
  BY <1>1, <1>2, <1>3, <1>4 DEF Handle, Command, Asks

(* Where a step leads, and what is still remembered there: who asks. *)
Keeps(q, r) == q.who = r.who /\ q.role = r.role /\ q.client = r.client /\ q.blind = r.blind

(* Going on keeps all there is, and giving up forgets it. *)
LEMMA GoesTo ==
    ASSUME Inv, NEW i \in Requests, NEW stage, Goto(i, stage)
    PROVE  /\ run'[i].at = stage /\ db' = db /\ seen' = seen
           /\ stage \in Forgets => run'[i].client = {}
           /\ stage \notin Forgets => Keeps(run'[i], run[i]) /\ run'[i].row = run[i].row
                                     /\ run'[i].of = run[i].of
BY DEF Keeps, Goto, Moved, Fresh, Inv, TypeOK, Run

(* So does a write, whose database is one more there has been. *)
LEMMA WritesTo ==
    ASSUME Inv, NEW i \in Requests, NEW stage, NEW d, Write(i, stage, d)
    PROVE  /\ run'[i].at = stage /\ db' = d /\ seen' = seen \cup {d}
           /\ Keeps(run'[i], run[i]) /\ run'[i].row = run[i].row /\ run'[i].of = run[i].of
BY DEF Keeps, Write, WriteRow, Inv, TypeOK, Run

(* So does a query: the row is one of those found. *)
LEMMA FindsTo ==
    ASSUME Inv, NEW i \in Requests, NEW stage, NEW found, NEW next, Find(i, stage, found, next)
    PROVE  /\ db' = db /\ seen' = seen
           /\ \/ run'[i].at = "failed" /\ run'[i].client = {}
              \/ \E r \in found : /\ run[i].at = stage /\ run'[i].at = next
                                 /\ run'[i].row = r.row /\ run'[i].of = r.of /\ Keeps(run'[i], run[i])
<1>1. run \in [Requests -> Run]
  BY DEF Inv, TypeOK
<1>2. ASSUME NEW r \in found, run' = [run EXCEPT ![i].at = next, ![i].row = r.row, ![i].of = r.of]
      PROVE  /\ run'[i].at = next /\ run'[i].row = r.row /\ run'[i].of = r.of
             /\ Keeps(run'[i], run[i])
  <2>1. run'[i] = [run[i] EXCEPT !.at = next, !.row = r.row, !.of = r.of]
    BY <1>1, <1>2
  <2>. QED
    BY <1>1, <2>1 DEF Run, Keeps
<1>3. ASSUME run' = [run EXCEPT ![i] = Fresh("failed")]
      PROVE  run'[i].at = "failed" /\ run'[i].client = {}
  BY <1>1, <1>3 DEF Fresh
<1>. QED
  BY <1>2, <1>3 DEF Find, At

(* A transaction begins, fails, or does what its method says. *)
LEMMA TransactsTo ==
    ASSUME Inv, NEW i \in Requests, NEW stage, NEW method, Transact(i, stage, method),
           method.may <=> MayCommit(form[i], db, run[i])
    PROVE  \/ run'[i].at = "failed"
           \/ /\ run[i].at = stage /\ run'[i].at = "open" /\ db' = db /\ seen' = seen
              /\ Keeps(run'[i], run[i]) /\ run'[i].row = run[i].row /\ run'[i].of = run[i].of
           \/ /\ run[i].at = "open" /\ run'[i].at = "done" /\ Does(method) /\ seen' = seen \cup {db'}
              /\ Keeps(run'[i], run[i]) /\ run'[i].row = run[i].row /\ run'[i].of = run[i].of
<1>1. CASE Goto(i, "failed")
  BY <1>1, GoesTo
<1>2. CASE At(i, stage) /\ Goto(i, "open")
  BY <1>2, GoesTo DEF At, Forgets
<1>3. CASE Commit(i, method)
  <2>1. MayCommit(form[i], db, run[i])
    BY <1>3 DEF Inv, ReadsHold, Holds, Commit, At
  <2>2. Write(i, "done", method.then) /\ run[i].at = "open"
    BY <1>3 DEF Commit, At
  <2>. QED
    BY <2>1, <2>2, WritesTo DEF Does
<1>. QED
  BY <1>1, <1>2, <1>3 DEF Transact, Begin

(* Who is asking does not decide yet, and who failed knows nothing. *)
LEMMA EarlyFacts ==
    ASSUME Inv, NEW i \in Requests, Authenticate(i) \/ Fail(i)
    PROVE  Facts(form[i], run'[i], db', seen')
<1>1. CASE Authenticate(i)
  <2>0. run \in [Requests -> Run]
    BY DEF Inv, TypeOK
  <2>a. ASSUME NEW m, NEW stage, Become(i, m, stage) PROVE run'[i].at = stage
    BY <2>0, <2>a DEF Become, Run
  <2>b. ReadPasswordCookie(i) => run'[i].at \in {"token", "ready"}
    BY <2>0, <2>a DEF ReadPasswordCookie, Run
  <2>c. ReadTokenCookie(i) => run'[i].at \in {"member", "ready"}
    BY <2>0 DEF ReadTokenCookie, Run
  <2>d. ReadTokenMember(i) => run'[i].at = "ready"
    BY <2>0, <2>a DEF ReadTokenMember, Run
  <2>1. run'[i].at \in {"token", "member", "ready"}
    BY <1>1, <2>b, <2>c, <2>d DEF Authenticate
  <2>. QED
    BY <2>1 DEF Facts, Answered, Spent, Justified
<1>2. CASE Fail(i)
  <2>1. run'[i].at = "failed"
    BY <1>2, GoesTo DEF Fail
  <2>. QED
    BY <2>1 DEF Facts, Answered, Spent, Justified
<1>. QED
  BY <1>1, <1>2

(* A token that is used is used up. *)
LEMMA UsedUp ==
    ASSUME Sound(db), Continues(db, db'), NEW id
    PROVE  /\ \A feed : Does(Consume(db, id, feed)) =>
                 /\ InviteByToken(db, id) # {} /\ InviteByToken(db', id) = {}
                 /\ id <= db'.last["invites"]
           /\ \A secret \in Secrets : Does(SetPasswordWithToken(db, id, secret)) =>
                 /\ ActiveReset(db, id) # {} /\ ActiveReset(db', id) = {}
                 /\ id <= db'.last["resets"]
<1>0. db \in Database /\ {"invites", "resets"} \subseteq TableNames
  BY DEF Sound, TableNames
<1>1. /\ \A i \in db.invites : i.id \in Nat /\ i.id <= db.last["invites"]
      /\ \A t \in db.resets : t.id \in Nat /\ t.id <= db.last["resets"]
  BY <1>0, RowTypes DEF Sound, AllIdsUnique, IdsUnique
<1>2. ASSUME NEW feed, Does(Consume(db, id, feed))
      PROVE  /\ InviteByToken(db, id) # {} /\ InviteByToken(db', id) = {}
             /\ id <= db'.last["invites"]
  <2>. DEFINE with == IF MembersWithFeed(db, feed) = {} THEN InsertMember(db, feed, "member") ELSE db
  <2>1. InviteByToken(db, id) # {} /\ db' = UpdateInvite(with, id, "used")
    BY <1>2 DEF Does, Consume
  <2>2. db'.invites = {IF i.id = id THEN [i EXCEPT !.state = "used"] ELSE i : i \in with.invites}
    BY <1>0, <2>1 DEF UpdateInvite, InsertMember, Database
  <2>3. with.invites = db.invites
    BY <1>0 DEF InsertMember, Database
  <2>. HIDE DEF with
  <2>4. \A i \in db.invites : [i EXCEPT !.state = "used"].state = "used"
    BY <1>0 DEF Database, InviteRow
  <2>5. InviteByToken(db', id) = {}
    BY <2>2, <2>3, <2>4 DEF InviteByToken, ActiveInvites
  <2>6. id <= db'.last["invites"]
    BY <1>0, <1>1, <2>1 DEF Continues, InviteByToken, ActiveInvites
  <2>. QED
    BY <2>1, <2>5, <2>6
<1>3. ASSUME NEW secret \in Secrets, Does(SetPasswordWithToken(db, id, secret))
      PROVE  /\ ActiveReset(db, id) # {} /\ ActiveReset(db', id) = {}
             /\ id <= db'.last["resets"]
  <2>. DEFINE t == CHOOSE t \in ActiveReset(db, id) : TRUE
              with == Upsert(db, t.member, secret)
  <2>1. ActiveReset(db, id) # {} /\ db' = UpdateReset(with, id, "used")
    BY <1>3 DEF Does, SetPasswordWithToken
  <2>. HIDE DEF t
  <2>2. with.resets = db.resets
    BY <1>0 DEF Upsert, InsertPassword, UpdatePassword, Database
  <2>3. db'.resets = {IF r.id = id THEN [r EXCEPT !.state = "used"] ELSE r : r \in with.resets}
    BY <1>0, <2>1 DEF UpdateReset, Upsert, InsertPassword, UpdatePassword, Database
  <2>. HIDE DEF with
  <2>4. \A r \in db.resets : [r EXCEPT !.state = "used"].state = "used"
    BY <1>0 DEF Database, ResetRow
  <2>5. ActiveReset(db', id) = {}
    BY <2>2, <2>3, <2>4 DEF ActiveReset, ActiveResets
  <2>6. id <= db'.last["resets"]
    BY <1>0, <1>1, <2>1 DEF Continues, ActiveReset, ActiveResets
  <2>. QED
    BY <2>1, <2>5, <2>6
<1>. QED
  BY <1>2, <1>3

(* Somebody is let past the denied keys. *)
LEMMA PassesTo ==
    ASSUME Inv, Known, NEW i \in Requests, NEW stage, NEW feed, NEW next, next \notin Forgets,
           PassDenied(i, stage, feed, next)
    PROVE  /\ run[i].at = stage /\ db' = db /\ seen' = seen
           /\ \/ run'[i].at = "refused"
              \/ run'[i].at = next /\ (run'[i].blind \/ \E d \in seen : ~HasFeed(d, feed))
<1>1. CASE Goto(i, IF HasFeed(db, feed) THEN "refused" ELSE next)
  <2>1. HasFeed(db, feed) \/ \E d \in seen : ~HasFeed(d, feed)
    BY DEF Known, HasFeed, DeniedWithFeed
  <2>. QED
    BY <1>1, <2>1, GoesTo DEF PassDenied, At
<1>2. CASE run' = [run EXCEPT ![i].at = next, ![i].blind = TRUE] /\ UNCHANGED <<db, seen>>
  BY <1>2 DEF PassDenied, At, Inv, TypeOK, Run
<1>. QED
  BY <1>1, <1>2 DEF PassDenied

(* The invite is used up by whoever was not denied. *)
LEMMA ConsumeFacts ==
    ASSUME Inv, Known, NEW i \in Requests, Facts(form[i], run[i], db, seen), Asks(i, "consume"),
           consume(i), Continues(db, db')
    PROVE  /\ Facts(form[i], run'[i], db', seen')
           /\ run'[i].at = "done" => InviteByToken(db, form[i].id) # {}
<1>0. form[i].op = "consume" /\ form[i].op \notin Signing
  BY DEF Asks, Signing
<1>1. CASE PassDenied(i, "ready", form[i].feed, "granted")
  <2>1. "granted" \notin Forgets
    BY DEF Forgets
  <2>. QED
    BY <1>0, <1>1, <2>1, PassesTo DEF Facts, Answered, Spent, Justified
<1>2. CASE Transact(i, "granted", Consume(db, form[i].id, form[i].feed))
  <2>1. Consume(db, form[i].id, form[i].feed).may <=> MayCommit(form[i], db, run[i])
    BY <1>0 DEF MayCommit
  <2>2. \/ run'[i].at = "failed"
        \/ /\ run[i].at = "granted" /\ run'[i].at = "open" /\ seen' = seen
           /\ run'[i].blind = run[i].blind
        \/ /\ run[i].at = "open" /\ run'[i].at = "done" /\ seen' = seen \cup {db'}
           /\ Does(Consume(db, form[i].id, form[i].feed)) /\ run'[i].blind = run[i].blind
    BY <1>2, <2>1, TransactsTo DEF Keeps
  <2>3. run'[i].at = "done" => Does(Consume(db, form[i].id, form[i].feed))
    BY <2>2
  <2>4. Sound(db)
    BY DEF Inv, Integrity
  <2>5. Spent(form[i], run'[i], db') /\ (run'[i].at = "done" => InviteByToken(db, form[i].id) # {})
    BY <1>0, <2>3, <2>4, UsedUp DEF Spent
  <2>6. Justified(form[i], run'[i], seen')
    BY <1>0, <2>2 DEF Facts, Justified
  <2>. QED
    BY <1>0, <2>5, <2>6 DEF Facts, Answered
<1>. QED
  BY <1>1, <1>2 DEF consume

(* So is a reset link. *)
LEMMA ChangePasswordFacts ==
    ASSUME Inv, NEW i \in Requests, Facts(form[i], run[i], db, seen), Asks(i, "changePassword"),
           changePassword(i), Continues(db, db')
    PROVE  /\ Facts(form[i], run'[i], db', seen')
           /\ run'[i].at = "done" /\ form[i].id # 0 => ActiveReset(db, form[i].id) # {}
<1>0. form[i].op = "changePassword" /\ form[i].op \notin Signing
  BY DEF Asks, Signing
<1>1. run'[i].at = "done" /\ form[i].id # 0 => Does(SetPasswordWithToken(db, form[i].id, form[i].secret))
  <2>1. SUFFICES ASSUME form[i].id # 0, run'[i].at = "done"
                 PROVE  Does(SetPasswordWithToken(db, form[i].id, form[i].secret))
    OBVIOUS
  <2>2. SetPasswordWithToken(db, form[i].id, form[i].secret).may <=> MayCommit(form[i], db, run[i])
    BY <1>0, <2>1 DEF MayCommit
  <2>3. CASE Transact(i, "granted", SetPasswordWithToken(db, form[i].id, form[i].secret))
    BY <2>1, <2>2, <2>3, TransactsTo
  <2>4. ASSUME NEW ok, Permit(i, ok) PROVE run'[i].at # "done"
    BY <2>4, GoesTo DEF Permit
  <2>. QED
    BY <2>1, <2>3, <2>4 DEF changePassword
<1>2. Sound(db) /\ form[i].secret \in Secrets
  BY FormTypes
<1>3. Spent(form[i], run'[i], db')
      /\ (run'[i].at = "done" /\ form[i].id # 0 => ActiveReset(db, form[i].id) # {})
  BY <1>0, <1>1, <1>2, UsedUp DEF Spent
<1>. QED
  BY <1>0, <1>3 DEF Facts, Answered, Justified

(* A stranger is let into a restricted room only before it was one.        *)
LEMMA AdmissionFacts ==
    ASSUME Inv, Known, NEW i \in Requests, Facts(form[i], run[i], db, seen), Asks(i, "admission"),
           mkHandler(i)
    PROVE  Facts(form[i], run'[i], db', seen')
<1>0. form[i].op = "admission" /\ form[i].op \notin Signing
  BY DEF Asks, Signing
<1>1. CASE At(i, "ready") /\ Goto(i, IF GetPrivacyMode(db) = "restricted" THEN "asked" ELSE "granted")
  <2>1. GetPrivacyMode(db) = "restricted" \/ \E d \in seen : GetPrivacyMode(d) # "restricted"
    BY DEF Known, GetPrivacyMode, FindConfig
  <2>. QED
    BY <1>0, <1>1, <2>1, GoesTo DEF Facts, Answered, Spent, Justified
<1>2. CASE At(i, "asked") /\ Goto(i, IF GetByFeed(db, form[i].owner) # {} THEN "granted" ELSE "refused")
  <2>1. GetByFeed(db, form[i].owner) = {} \/ \E d \in seen : GetByFeed(d, form[i].owner) # {}
    BY DEF Known, GetByFeed, MembersWithFeed
  <2>. QED
    BY <1>0, <1>2, <2>1, GoesTo DEF Facts, Answered, Spent, Justified
<1>3. CASE PassDenied(i, "granted", form[i].owner, "done")
  <2>1. "done" \notin Forgets
    BY DEF Forgets
  <2>. QED
    BY <1>0, <1>3, <2>1, PassesTo DEF Facts, Answered, Spent, Justified
<1>. QED
  BY <1>1, <1>2, <1>3 DEF mkHandler

(* Nor is the list of members shown to one. *)
LEMMA MembersListFacts ==
    ASSUME Inv, Known, NEW i \in Requests, Facts(form[i], run[i], db, seen), Asks(i, "members.list"),
           members(i)
    PROVE  Facts(form[i], run'[i], db', seen')
<1>0. form[i].op = "members.list" /\ form[i].op \notin Signing
  BY DEF Asks, Signing
<1>1. CASE At(i, "ready") /\ Goto(i, IF GetPrivacyMode(db) = "open" THEN "granted" ELSE "asked")
  <2>1. GetPrivacyMode(db) # "open" \/ \E d \in seen : GetPrivacyMode(d) = "open"
    BY DEF Known, GetPrivacyMode, FindConfig
  <2>. QED
    BY <1>0, <1>1, <2>1, GoesTo DEF Facts, Answered, Spent, Justified
<1>2. CASE At(i, "asked") /\ Goto(i, IF GetByFeed(db, form[i].owner) # {} THEN "granted" ELSE "refused")
  <2>1. GetByFeed(db, form[i].owner) = {} \/ \E d \in seen : GetByFeed(d, form[i].owner) # {}
    BY DEF Known, GetByFeed, MembersWithFeed
  <2>. QED
    BY <1>0, <1>2, <2>1, GoesTo DEF Facts, Answered, Spent, Justified
<1>3. CASE At(i, "granted") /\ Goto(i, "done")
  <2>1. "done" \notin Forgets
    BY DEF Forgets
  <2>. QED
    BY <1>0, <1>3, <2>1, GoesTo DEF Facts, Answered, Spent, Justified, At
<1>. QED
  BY <1>1, <1>2, <1>3 DEF members

(* The row of a member belongs to that member in every database there was. *)
LEMMA RowBelongs ==
    ASSUME Inv, History, NEW m \in db.members
    PROVE  \A feeds : m.feed \in feeds => Belongs(m.id, feeds, db, seen)
<1>1. /\ m.id \in Nat /\ m.id <= db.last["members"]
      /\ \A n \in db.members : n.id = m.id => n = m
  BY RowTypes DEF Inv, Integrity, Sound, AllIdsUnique, IdsUnique, TableNames
<1>2. ASSUME NEW e \in seen, NEW n \in FindMember(e, m.id) PROVE n.feed = m.feed
  <2>1. Sound(e) /\ Continues(e, db)
    BY DEF History
  <2>2. n \in e.members /\ n.id = m.id
    BY DEF FindMember
  <2>3. /\ n.id \in Nat /\ e.last["members"] \in Nat /\ n.id <= e.last["members"]
        /\ \A k \in e.members : k.id = n.id => k = n
    BY <2>1, <2>2, RowTypes DEF Sound, AllIdsUnique, IdsUnique, TableNames, Continues
  <2>4. \E k \in e.members : k.id = m.id /\ k.feed = m.feed
    BY <1>1, <2>1, <2>2, <2>3 DEF Continues
  <2>. QED
    BY <2>2, <2>3, <2>4
<1>. QED
  BY <1>1, <1>2 DEF Belongs, FindMember

(* The member a solution is asked for is one of those who were asked.      *)
LEMMA SigningFacts ==
    ASSUME Inv, History, NEW i \in Requests, Facts(form[i], run[i], db, seen),
           form[i].op \in Signing, DecideMethod(i) \/ clientInitiated(i), Continues(db, db')
    PROVE  Facts(form[i], run'[i], db', seen')
<1>0. /\ form[i].op \notin {"consume", "changePassword", "admission", "members.list"}
      /\ run \in [Requests -> Run]
  BY DEF Signing, Inv, TypeOK
<1>1. SUFFICES Answered(form[i], run'[i], db', seen')
  BY <1>0 DEF Facts, Spent, Justified
<1>2. CASE DecideMethod(i)
  <2>1. ASSUME NEW stage, NEW client, run' = [run EXCEPT ![i].at = stage, ![i].client = client]
        PROVE  run'[i].at = stage
    <3>1. run'[i] = [run[i] EXCEPT !.at = stage, !.client = client]
      BY <1>0, <2>1
    <3>. QED
      BY <1>0, <3>1 DEF Run
  <2>2. ASSUME NEW stage, NEW client, run' = [run EXCEPT ![i].client = client, ![i].at = stage]
        PROVE  run'[i].at = stage
    <3>1. run'[i] = [run[i] EXCEPT !.client = client, !.at = stage]
      BY <1>0, <2>2
    <3>. QED
      BY <1>0, <3>1 DEF Run
  <2>3. ASSUME run' = [run EXCEPT ![i] = Fresh("refused")] PROVE run'[i].at = "refused"
    BY <1>0, <2>3 DEF Fresh
  <2>4. ASSUME NEW found, Find(i, "ready", found, "found") PROVE run'[i].at \in {"found", "failed"}
    BY <2>4, FindsTo
  <2>5. run'[i].at \in {"second", "refused", "found", "failed", "panicked"}
    BY <1>2, <2>1, <2>2, <2>3, <2>4 DEF DecideMethod
  <2>. QED
    BY <2>5 DEF Answered
<1>3. CASE clientInitiated(i)
  <2>. DEFINE found == {[row |-> 0, of |-> m.id] : m \in {n \in db.members : n.feed \in run[i].client}}
  <2>1. CASE Find(i, "second", found, "asked")
    <3>1. \A r \in found : Belongs(r.of, run[i].client, db, seen)
      BY RowBelongs
    <3>. HIDE DEF found
    <3>. QED
      BY <2>1, <3>1, FindsTo DEF Answered, Keeps
  <2>2. CASE At(i, "asked") /\ Goto(i, "granted")
    <3>1. "granted" \notin Forgets
      BY DEF Forgets
    <3>. QED
      BY <2>2, <3>1, GoesTo DEF Facts, Answered, At, Keeps
  <2>3. CASE Transact(i, "granted", CreateToken(db, run[i].of))
    <3>1. CreateToken(db, run[i].of).may <=> MayCommit(form[i], db, run[i])
      BY <1>0 DEF MayCommit, CreateToken, Signing
    <3>2. \/ run'[i].at = "failed"
          \/ /\ run[i].at \in {"granted", "open"} /\ seen' \subseteq seen \cup {db'}
             /\ run'[i].of = run[i].of /\ run'[i].client = run[i].client
      BY <2>3, <3>1, TransactsTo DEF Keeps
    <3>3. CASE /\ run[i].at \in {"granted", "open"} /\ seen' \subseteq seen \cup {db'}
               /\ run'[i].of = run[i].of /\ run'[i].client = run[i].client
      <4>1. Belongs(run[i].of, run[i].client, db, seen)
        BY <3>3 DEF Facts, Answered
      <4>2. Belongs(run[i].of, run[i].client, db', seen')
        BY <3>3, <4>1, BelongsOn
      <4>. QED
        BY <3>3, <4>2 DEF Answered
    <3>. QED
      BY <3>2, <3>3 DEF Answered
  <2>. QED
    BY <1>3, <2>1, <2>2, <2>3 DEF clientInitiated
<1>. QED
  BY <1>2, <1>3

(* Whatever the step of a request, it knows what it did; and whoever comes *)
(* to be done with a token found it unused.                                *)
LEMMA StepFacts ==
    ASSUME Inv, History, Known, FactsHold, Continues(db, db'), NEW i \in Requests,
           Handle(i) \/ Command(i)
    PROVE  /\ Facts(form[i], run'[i], db', seen')
           /\ Asks(i, "consume") /\ run'[i].at = "done" => InviteByToken(db, form[i].id) # {}
           /\ Asks(i, "changePassword") /\ form[i].id # 0 /\ run'[i].at = "done" =>
                 ActiveReset(db, form[i].id) # {}
<1>1. Facts(form[i], run[i], db, seen)
  BY DEF FactsHold
<1>2. CASE Authenticate(i) \/ Fail(i)
  <2>1. run'[i].at # "done"
    <3>1. run \in [Requests -> Run]
      BY DEF Inv, TypeOK
    <3>2. ASSUME NEW m, NEW stage, Become(i, m, stage) PROVE run'[i].at = stage
      BY <3>1, <3>2 DEF Become, Run
    <3>3. ReadPasswordCookie(i) => run'[i].at # "done"
      BY <3>1, <3>2 DEF ReadPasswordCookie, Run
    <3>4. ReadTokenCookie(i) => run'[i].at # "done"
      BY <3>1 DEF ReadTokenCookie, Run
    <3>5. ReadTokenMember(i) => run'[i].at # "done"
      BY <3>1, <3>2 DEF ReadTokenMember, Run
    <3>6. Fail(i) => run'[i].at = "failed"
      BY GoesTo DEF Fail
    <3>. QED
      BY <1>2, <3>3, <3>4, <3>5, <3>6 DEF Authenticate
  <2>. QED
    BY <1>2, <2>1, EarlyFacts
<1>3. CASE form[i].op \notin {"consume", "changePassword", "admission", "members.list"} \cup Signing
  BY <1>3 DEF Facts, Answered, Spent, Justified, Asks
<1>4. CASE ~(Authenticate(i) \/ Fail(i))
           /\ form[i].op \in {"consume", "changePassword", "admission", "members.list"} \cup Signing
  <2>1. CASE Asks(i, "consume")
    <3>1. consume(i)
      BY <1>4, <2>1, Pinned
    <3>. QED
      BY <1>1, <2>1, <3>1, ConsumeFacts DEF Asks
  <2>2. CASE Asks(i, "changePassword")
    <3>1. changePassword(i)
      BY <1>4, <2>2, Pinned
    <3>. QED
      BY <1>1, <2>2, <3>1, ChangePasswordFacts DEF Asks
  <2>3. CASE Asks(i, "admission")
    <3>1. mkHandler(i)
      BY <1>4, <2>3, Pinned
    <3>. QED
      BY <1>1, <2>3, <3>1, AdmissionFacts DEF Asks
  <2>4. CASE Asks(i, "members.list")
    <3>1. members(i)
      BY <1>4, <2>4, Pinned
    <3>. QED
      BY <1>1, <2>4, <3>1, MembersListFacts DEF Asks
  <2>5. CASE form[i].op \in Signing
    <3>1. DecideMethod(i) \/ clientInitiated(i)
      BY <1>4, <2>5, Pinned
    <3>. QED
      BY <1>1, <2>5, <3>1, SigningFacts DEF Asks, Signing
  <2>. QED
    BY <1>4, <2>1, <2>2, <2>3, <2>4, <2>5 DEF Asks
<1>. QED
  BY <1>2, <1>3, <1>4

(* What all requests know is kept, and no token is used twice.             *)
LEMMA NextKeepsHistory ==
    ASSUME HInv, [Next]_vars
    PROVE  HInv'
<1>1. Right /\ Logged /\ form' = form
  BY NextSteps DEF HInv, RightOf, Elsewhere
<1>2. History' /\ Known' /\ Continues(db, db')
  BY <1>1, HistoryOn DEF HInv
<1>3. seen' \subseteq seen \cup {db'} /\ seen \subseteq seen'
  BY <1>1 DEF Logged
<1>4. ASSUME NEW j \in Requests, Same(run'[j], run[j]) \/ run'[j] = Fresh("failed")
      PROVE  /\ Facts(form'[j], run'[j], db', seen')
             /\ run'[j].at = "done" => run[j].at = "done"
  <2>1. Facts(form[j], run[j], db', seen')
    <3>1. Facts(form[j], run[j], db, seen) /\ form[j].id \in Nat
      BY DEF HInv, FactsHold, Inv, TypeOK, Form
    <3>. QED
      BY <1>2, <1>3, <3>1, FactsOn
  <2>2. Facts(form[j], run'[j], db', seen')
    BY <1>4, <2>1, FactsSame
  <2>3. run'[j].at = "done" => run[j].at = "done"
    BY <1>4 DEF Same, Fresh
  <2>. QED
    BY <1>1, <2>2, <2>3
<1>5. CASE Elsewhere
  <2>1. FactsHold'
    BY <1>4, <1>5 DEF Elsewhere, FactsHold
  <2>2. TokensUsedOnce'
    BY <1>1, <1>4, <1>5 DEF Elsewhere, HInv, TokensUsedOnce, Done, Asks, At
  <2>. QED
    BY <1>1, <1>2, <2>1, <2>2 DEF HInv, Right
<1>6. ASSUME NEW i \in Requests, Handle(i) \/ Command(i), RightOf(i)
      PROVE  HInv'
  <2>1. /\ Facts(form[i], run'[i], db', seen')
        /\ Asks(i, "consume") /\ run'[i].at = "done" => InviteByToken(db, form[i].id) # {}
        /\ Asks(i, "changePassword") /\ form[i].id # 0 /\ run'[i].at = "done" =>
              ActiveReset(db, form[i].id) # {}
    BY <1>2, <1>6, StepFacts DEF HInv
  <2>2. \A j \in Requests \ {i} : Same(run'[j], run[j])
    BY <1>6 DEF RightOf
  <2>3. FactsHold'
    BY <1>1, <1>4, <2>1, <2>2 DEF FactsHold
  <2>4. ASSUME NEW j \in Requests, j # i, form[i].id = form[j].id, form[i].id # 0
        PROVE  /\ ~(Asks(i, "consume") /\ run'[i].at = "done" /\ Asks(j, "consume") /\ run'[j].at = "done")
               /\ ~(Asks(i, "changePassword") /\ run'[i].at = "done"
                       /\ Asks(j, "changePassword") /\ run'[j].at = "done")
    <3>1. run'[j].at = "done" => run[j].at = "done"
      BY <1>4, <2>2, <2>4
    <3>2. Spent(form[j], run[j], db)
      BY DEF HInv, FactsHold, Facts
    <3>. QED
      BY <2>1, <2>4, <3>1, <3>2 DEF Spent, Asks
  <2>5. ASSUME NEW j \in Requests, NEW k \in Requests, j # k, form[j].id = form[k].id, form[j].id # 0
        PROVE  /\ ~(Asks(j, "consume") /\ run'[j].at = "done" /\ Asks(k, "consume") /\ run'[k].at = "done")
               /\ ~(Asks(j, "changePassword") /\ run'[j].at = "done"
                       /\ Asks(k, "changePassword") /\ run'[k].at = "done")
    <3>1. CASE j = i \/ k = i
      BY <2>4, <2>5, <3>1
    <3>2. CASE j # i /\ k # i
      <4>1. /\ run'[j].at = "done" => run[j].at = "done"
            /\ run'[k].at = "done" => run[k].at = "done"
        BY <1>4, <2>2, <3>2
      <4>. QED
        BY <2>5, <4>1 DEF HInv, TokensUsedOnce, Done, Asks, At
    <3>. QED
      BY <3>1, <3>2
  <2>6. TokensUsedOnce'
    BY <1>1, <2>5 DEF TokensUsedOnce, Done, Asks, At
  <2>. QED
    BY <1>1, <1>2, <2>3, <2>6 DEF HInv, Right
<1>. QED
  BY <1>5, <1>6, NextSteps DEF HInv

(* At first nobody knows anything. *)
LEMMA InitHistory == Init => HInv
<1>. SUFFICES ASSUME Init PROVE HInv
  OBVIOUS
<1>1. Inv
  BY InitRight
<1>2. seen = {db}
  BY DEF Init
<1>3. History /\ Known
  <2>1. Continues(db, db)
    BY <1>1, DeletesContinue DEF Inv, Integrity, Sound
  <2>. QED
    BY <1>1, <1>2, <2>1 DEF History, Known, Inv, Integrity
<1>4. \A i \in Requests : run[i].at \in {"ready", "arrived"}
  BY DEF Init, Fresh
<1>5. FactsHold /\ TokensUsedOnce
  BY <1>4 DEF FactsHold, Facts, Answered, Spent, Justified, TokensUsedOnce, Done, At
<1>. QED
  BY <1>1, <1>3, <1>5 DEF HInv

(* So it is always. *)
LEMMA HistoryHolds == Spec => []HInv
BY InitHistory, NextKeepsHistory, PTL DEF Spec

\* A cookie never comes to act as somebody else than the member it was handed out to, and the
\* member whose client is asked to sign in is never another than the one that is signed in,
\* however many members are removed and added meanwhile (web/members/helper.go,
\* web/handlers/auth/withssb.go, clientInitiated).
THEOREM CookiesActAsThemselves == Spec => []ActsAsItself
<1>1. HInv => ActsAsItself
  <2>. SUFFICES ASSUME HInv PROVE ActsAsItself
    OBVIOUS
  <2>1. ASSUME NEW i \in Requests, NEW d \in seen, run[i].who # 0, ~Asks(i, "login")
        PROVE  \A m \in FindMember(d, run[i].who) : m.feed = form[i].owner
    <3>1. Memory(form[i], run[i], db, seen)
      BY DEF HInv, Inv, Remembered
    <3>. QED
      BY <2>1, <3>1 DEF Memory, Belongs, Asks
  <2>2. ASSUME NEW i \in Requests, NEW d \in seen, form[i].op \in Signing,
               run[i].at \in {"asked", "granted", "open", "done"}
        PROVE  \A m \in FindMember(d, run[i].of) : m.feed \in run[i].client
    BY <2>2 DEF HInv, FactsHold, Facts, Answered, Belongs
  <2>. QED
    BY <2>1, <2>2 DEF ActsAsItself
<1>. QED
  BY <1>1, HistoryHolds, PTL

\* An invite lets in one request and a reset link sets one password, whatever happens between
\* the queries of those that use it (roomdb/sqlite/invites.go, Consume, and
\* roomdb/sqlite/auth_fallback.go, SetPasswordWithToken).
THEOREM TokensAreUsedOnce == Spec => []TokensUsedOnce
BY HistoryHolds, PTL DEF HInv

\* Whoever was let in was not denied, or was a member, in a database there was meanwhile
\* (web/handlers/invites.go, consume, and roomsrv/init_network.go, mkHandler).
THEOREM AdmissionIsJustified == Spec => []AdmissionJustified
<1>1. HInv => AdmissionJustified
  <2>. SUFFICES ASSUME HInv PROVE AdmissionJustified
    OBVIOUS
  <2>1. \A i \in Requests : Justified(form[i], run[i], seen)
    BY DEF HInv, FactsHold, Facts
  <2>. QED
    BY <2>1 DEF Justified, AdmissionJustified, Done, Asks, At
<1>. QED
  BY <1>1, HistoryHolds, PTL

-----------------------------------------------------------------------------
(* What belongs to somebody: aliases and passwords.  Most of what the      *)
(* requests do leaves them alone, or takes them away with their member.    *)

Untouched(d, e) == e.aliases = d.aliases /\ e.passwords = d.passwords

Spares(d, e) ==
    /\ e.passwords \subseteq d.passwords
    /\ \A a \in d.aliases \ e.aliases : FindMember(e, a.member) = {}

(* Statements about other tables. *)
LEMMA StatementsLeaveAlone ==
    ASSUME NEW d \in Database
    PROVE  /\ \A feed, role : Untouched(d, InsertMember(d, feed, role))
           /\ \A id, role : Untouched(d, UpdateMember(d, id, role))
           /\ \A id : Untouched(d, InsertInvite(d, id))
           /\ \A id, state : Untouched(d, UpdateInvite(d, id, state))
           /\ \A feed, role, id, state : Untouched(d, UpdateInvite(InsertMember(d, feed, role), id, state))
           /\ \A id, creator : Untouched(d, InsertReset(d, creator, id))
           /\ \A id : Untouched(d, InsertSession(d, id))
           /\ \A id : Untouched(d, DeleteSession(d, id)) /\ Untouched(d, DeleteSessionsOf(d, id))
           /\ \A feed : Untouched(d, InsertDeniedKey(d, feed))
           /\ \A id : Untouched(d, DeleteDeniedKey(d, id))
           /\ \A language : Untouched(d, InsertNotice(d, language))
           /\ \A id, language : Untouched(d, UpdateNotice(d, id, language))
           /\ \A id : Untouched(d, DeleteNotice(d, id))
           /\ \A id, pin : Untouched(d, AddNotices(d, pin, id))
           /\ \A config : Untouched(d, UpdateConfig(d, config))
           /\ Untouched(d, DeleteOldSessions(d)) /\ Untouched(d, DeleteUsedInvites(d))
           /\ Untouched(d, DeleteUsedResets(d)) /\ Untouched(d, CleanUp(d))
           /\ \A id : Untouched(d, Older(d, id))
<1>1. /\ \A feed, role : Untouched(d, InsertMember(d, feed, role))
      /\ \A id, role : Untouched(d, UpdateMember(d, id, role))
  BY DEF Untouched, Database, InsertMember, UpdateMember
<1>2. /\ \A id : Untouched(d, InsertInvite(d, id))
      /\ \A id, state : Untouched(d, UpdateInvite(d, id, state))
  BY DEF Untouched, Database, InsertInvite, UpdateInvite
<1>3. \A feed, role, id, state : Untouched(d, UpdateInvite(InsertMember(d, feed, role), id, state))
  BY DEF Untouched, Database, UpdateInvite, InsertMember
<1>4. \A id, creator : Untouched(d, InsertReset(d, creator, id))
  BY DEF Untouched, Database, InsertReset
<1>5. /\ \A id : Untouched(d, InsertSession(d, id))
      /\ \A id : Untouched(d, DeleteSession(d, id)) /\ Untouched(d, DeleteSessionsOf(d, id))
  BY DEF Untouched, Database, InsertSession, DeleteSession, DeleteSessionsOf
<1>6. /\ \A feed : Untouched(d, InsertDeniedKey(d, feed))
      /\ \A id : Untouched(d, DeleteDeniedKey(d, id))
  BY DEF Untouched, Database, InsertDeniedKey, DeleteDeniedKey
<1>7. /\ \A language : Untouched(d, InsertNotice(d, language))
      /\ \A id, language : Untouched(d, UpdateNotice(d, id, language))
      /\ \A id : Untouched(d, DeleteNotice(d, id))
  BY DEF Untouched, Database, InsertNotice, UpdateNotice, DeleteNotice
<1>8. /\ \A id, pin : Untouched(d, AddNotices(d, pin, id))
      /\ \A config : Untouched(d, UpdateConfig(d, config))
  BY DEF Untouched, Database, AddNotices, UpdateConfig
<1>9. /\ Untouched(d, DeleteOldSessions(d)) /\ Untouched(d, DeleteUsedInvites(d))
      /\ Untouched(d, DeleteUsedResets(d))
  BY DEF Untouched, Database, DeleteOldSessions, DeleteUsedInvites, DeleteUsedResets
<1>10. Untouched(d, CleanUp(d))
  BY DEF Untouched, Database, CleanUp, DeleteOldSessions, DeleteUsedInvites, DeleteUsedResets
<1>11. \A id : Untouched(d, Older(d, id))
  BY DEF Untouched, Database, Older
<1>. QED
  BY <1>1, <1>2, <1>3, <1>4, <1>5, <1>6, <1>7, <1>8, <1>9, <1>10, <1>11

(* Statements about aliases and passwords, and the removal of a member. *)
LEMMA StatementsTouch ==
    ASSUME NEW d \in Database
    PROVE  /\ \A id : Spares(d, DeleteMember(d, id)) /\ DeleteMember(d, id).aliases \subseteq d.aliases
           /\ \A name, id, signer : LET e == InsertAlias(d, name, id, signer) IN
                 /\ e.passwords = d.passwords
                 /\ e.aliases = d.aliases \cup {[id |-> NextId(d, "aliases"), name |-> name,
                                                 member |-> id, signer |-> signer]}
           /\ \A id : LET e == DeleteAlias(d, id) IN
                 e.passwords = d.passwords /\ e.aliases = {a \in d.aliases : a.id # id}
           /\ \A id, secret : LET e == Upsert(d, id, secret) IN
                 e.aliases = d.aliases /\ \A p \in e.passwords \ d.passwords : p.member = id
           /\ \A id, secret, reset : LET e == UpdateReset(Upsert(d, id, secret), reset, "used") IN
                 e.aliases = d.aliases /\ \A p \in e.passwords \ d.passwords : p.member = id
<1>1. ASSUME NEW id
      PROVE  Spares(d, DeleteMember(d, id)) /\ DeleteMember(d, id).aliases \subseteq d.aliases
  <2>. DEFINE e == DeleteMember(d, id)
  <2>1. /\ e.passwords = {p \in d.passwords : p.member # id}
        /\ e.aliases = d.aliases \ MemberAliases(d, id)
        /\ e.members = {m \in d.members : m.id # id}
    BY DEF Database, DeleteMember
  <2>. HIDE DEF e
  <2>. QED
    BY <2>1 DEF Spares, MemberAliases, FindMember, e
<1>2. ASSUME NEW name, NEW id, NEW signer
      PROVE  LET e == InsertAlias(d, name, id, signer) IN
                 /\ e.passwords = d.passwords
                 /\ e.aliases = d.aliases \cup {[id |-> NextId(d, "aliases"), name |-> name,
                                                 member |-> id, signer |-> signer]}
  BY DEF Database, InsertAlias
<1>3. ASSUME NEW id
      PROVE  LET e == DeleteAlias(d, id) IN
                 e.passwords = d.passwords /\ e.aliases = {a \in d.aliases : a.id # id}
  BY DEF Database, DeleteAlias
<1>4. ASSUME NEW id, NEW secret
      PROVE  LET e == Upsert(d, id, secret) IN
                 e.aliases = d.aliases /\ \A p \in e.passwords \ d.passwords : p.member = id
  <2>. DEFINE row == [id |-> NextId(d, "passwords"), member |-> id, secret |-> secret]
  <2>1. CASE PasswordOf(d, id) = {}
    <3>1. /\ Upsert(d, id, secret).aliases = d.aliases
          /\ Upsert(d, id, secret).passwords = d.passwords \cup {row}
      BY <2>1 DEF Database, Upsert, InsertPassword
    <3>. QED
      BY <3>1
  <2>2. CASE PasswordOf(d, id) # {}
    <3>1. /\ Upsert(d, id, secret).aliases = d.aliases
          /\ Upsert(d, id, secret).passwords =
                {IF p.member = id THEN [p EXCEPT !.secret = secret] ELSE p : p \in d.passwords}
      BY <2>2 DEF Database, Upsert, UpdatePassword
    <3>2. \A p \in d.passwords : [p EXCEPT !.secret = secret].member = p.member
      BY DEF Database, PasswordRow
    <3>. QED
      BY <3>1, <3>2
  <2>. QED
    BY <2>1, <2>2
<1>5. ASSUME NEW id, NEW secret, NEW reset
      PROVE  LET e == UpdateReset(Upsert(d, id, secret), reset, "used") IN
                 e.aliases = d.aliases /\ \A p \in e.passwords \ d.passwords : p.member = id
  <2>1. /\ UpdateReset(Upsert(d, id, secret), reset, "used").aliases = Upsert(d, id, secret).aliases
        /\ UpdateReset(Upsert(d, id, secret), reset, "used").passwords = Upsert(d, id, secret).passwords
    BY DEF Database, UpdateReset, Upsert, InsertPassword, UpdatePassword
  <2>. QED
    BY <1>4, <2>1
<1>. QED
  BY <1>1, <1>2, <1>3, <1>4, <1>5

(* Whoever is untouched is spared. *)
LEMMA UntouchedSpares ==
    ASSUME NEW d, NEW e, Untouched(d, e)
    PROVE  Spares(d, e)
BY DEF Untouched, Spares

(* A new alias has a new id. *)
LEMMA AliasSteps ==
    ASSUME Sound(db), [DBNext]_db
    PROVE  \A a \in db'.aliases : a \in db.aliases \/ a.id = NextId(db, "aliases")
<1>0. db \in Database
  BY DEF Sound
<1>. DEFINE Old == db'.aliases \subseteq db.aliases
<1>1. CASE MembersChange
  BY <1>0, <1>1, StatementsLeaveAlone, StatementsTouch
  DEF MembersChange, Does, AddMember, RemoveID, SetRole, Untouched
<1>2. CASE InvitesChange
  <2>1. ASSUME NEW id, NEW feed, Does(Consume(db, id, feed)) PROVE Old
    BY <1>0, <2>1, StatementsLeaveAlone DEF Does, Consume, Untouched
  <2>. QED
    BY <1>0, <1>2, <2>1, StatementsLeaveAlone
    DEF InvitesChange, Does, CreateInvite, CreateOpenInvite, RevokeInvite, Untouched
<1>3. CASE AliasesChange
  <2>1. ASSUME NEW name, NEW feed, Does(Register(db, name, feed))
        PROVE  \A a \in db'.aliases : a \in db.aliases \/ a.id = NextId(db, "aliases")
    <3>. DEFINE member == (CHOOSE m \in db.members : m.feed = feed).id
    <3>1. db' = InsertAlias(db, name, member, feed)
      BY <2>1 DEF Does, Register
    <3>. HIDE DEF member
    <3>. QED
      BY <1>0, <3>1, StatementsTouch
  <2>2. ASSUME NEW id, Does(RevokeAlias(db, id)) PROVE Old
    BY <1>0, <2>2, StatementsTouch DEF Does, RevokeAlias
  <2>. QED
    BY <1>3, <2>1, <2>2 DEF AliasesChange
<1>4. CASE PasswordsChange
  <2>1. ASSUME NEW id, NEW secret, Does(SetPasswordWithToken(db, id, secret)) PROVE Old
    BY <1>0, <2>1, StatementsTouch DEF Does, SetPasswordWithToken
  <2>. QED
    BY <1>0, <1>4, <2>1, StatementsLeaveAlone, StatementsTouch
    DEF PasswordsChange, Does, SetPassword, CreateResetToken, Untouched
<1>5. CASE SessionsChange
  BY <1>0, <1>5, StatementsLeaveAlone
  DEF SessionsChange, Does, CreateToken, WipeTokens, RemoveToken, Untouched
<1>6. CASE DeniedChange
  BY <1>0, <1>6, StatementsLeaveAlone DEF DeniedChange, Does, AddDenied, RemoveDenied, Untouched
<1>7. CASE NoticesChange
  <2>1. PICK id, pin, language :
            db' \in {InsertNotice(db, language), UpdateNotice(db, id, language), AddNotices(db, pin, id),
                    DeleteNotice(db, id)}
    BY <1>7 DEF NoticesChange, Does, SaveNew, SaveNotice, PinNotice, RemoveNotice
  <2>. QED
    BY <1>0, <2>1, StatementsLeaveAlone DEF Untouched
<1>8. CASE ConfigChange
  <2>1. PICK config : db' = UpdateConfig(db, config)
    BY <1>8 DEF ConfigChange, Does, SetPrivacyMode, SetDefaultLanguage
  <2>. QED
    BY <1>0, <2>1, StatementsLeaveAlone DEF Untouched
<1>9. CASE \/ db' = DeleteOldSessions(db) \/ db' = DeleteUsedInvites(db)
           \/ db' = DeleteUsedResets(db) \/ db' = CleanUp(db)
  BY <1>0, <1>9, StatementsLeaveAlone DEF Untouched
<1>. QED
  BY <1>1, <1>2, <1>3, <1>4, <1>5, <1>6, <1>7, <1>8, <1>9 DEF DBNext

(* The methods of the services but those for aliases and passwords. *)
LEMMA MethodsSpare ==
    ASSUME NEW d \in Database
    PROVE  /\ \A feed, role : Spares(d, AddMember(d, feed, role).then)
           /\ \A id, role : Spares(d, RemoveID(d, id).then) /\ Spares(d, SetRole(d, id, role).then)
           /\ \A id : Spares(d, CreateInvite(d, id).then) /\ Spares(d, CreateOpenInvite(d, id).then)
           /\ \A id, feed : Spares(d, RevokeInvite(d, id).then) /\ Spares(d, Consume(d, id, feed).then)
           /\ \A name, feed : Spares(d, Register(d, name, feed).then)
           /\ \A id, creator : Spares(d, CreateResetToken(d, creator, id).then)
           /\ \A id : Spares(d, CreateToken(d, id).then)
           /\ \A id : Spares(d, RemoveToken(d, id).then) /\ Spares(d, WipeTokens(d, id).then)
           /\ \A feed : Spares(d, AddDenied(d, feed).then)
           /\ \A id : Spares(d, RemoveDenied(d, id).then)
           /\ \A language : Spares(d, SaveNew(d, language).then)
           /\ \A id, language : Spares(d, SaveNotice(d, id, language).then)
           /\ \A id, pin : Spares(d, PinNotice(d, pin, id).then)
           /\ \A mode : Spares(d, SetPrivacyMode(d, mode).then)
           /\ \A language : Spares(d, SetDefaultLanguage(d, language).then)
<1>1. /\ \A feed, role : Spares(d, AddMember(d, feed, role).then)
      /\ \A id, role : Spares(d, RemoveID(d, id).then) /\ Spares(d, SetRole(d, id, role).then)
  BY StatementsLeaveAlone, StatementsTouch, UntouchedSpares DEF AddMember, RemoveID, SetRole
<1>2. \A id : Spares(d, CreateInvite(d, id).then) /\ Spares(d, CreateOpenInvite(d, id).then)
  BY StatementsLeaveAlone, UntouchedSpares DEF CreateInvite, CreateOpenInvite
<1>3. \A id, feed : Spares(d, RevokeInvite(d, id).then) /\ Spares(d, Consume(d, id, feed).then)
  BY StatementsLeaveAlone, UntouchedSpares DEF RevokeInvite, Consume
<1>4. ASSUME NEW name, NEW feed PROVE Spares(d, Register(d, name, feed).then)
  <2>. DEFINE member == (CHOOSE m \in d.members : m.feed = feed).id
  <2>1. Register(d, name, feed).then \in {d, InsertAlias(d, name, member, feed)}
    BY DEF Register
  <2>. HIDE DEF member
  <2>. QED
    BY <2>1, StatementsTouch DEF Spares
<1>5. /\ \A id, creator : Spares(d, CreateResetToken(d, creator, id).then)
      /\ \A id : Spares(d, CreateToken(d, id).then)
      /\ \A id : Spares(d, RemoveToken(d, id).then) /\ Spares(d, WipeTokens(d, id).then)
  BY StatementsLeaveAlone, UntouchedSpares DEF CreateResetToken, CreateToken, RemoveToken, WipeTokens
<1>6. /\ \A feed : Spares(d, AddDenied(d, feed).then)
      /\ \A id : Spares(d, RemoveDenied(d, id).then)
  BY StatementsLeaveAlone, UntouchedSpares DEF AddDenied, RemoveDenied
<1>7. /\ \A language : Spares(d, SaveNew(d, language).then)
      /\ \A id, language : Spares(d, SaveNotice(d, id, language).then)
      /\ \A id, pin : Spares(d, PinNotice(d, pin, id).then)
  BY StatementsLeaveAlone, UntouchedSpares DEF SaveNew, SaveNotice, PinNotice
<1>8. /\ \A mode : Spares(d, SetPrivacyMode(d, mode).then)
      /\ \A language : Spares(d, SetDefaultLanguage(d, language).then)
  BY StatementsLeaveAlone, UntouchedSpares DEF SetPrivacyMode, SetDefaultLanguage
<1>. QED
  BY <1>1, <1>2, <1>3, <1>4, <1>5, <1>6, <1>7, <1>8

(* The database after a step of a handler: as it was, or written. *)
LEMMA DatabaseAfter ==
    ASSUME NEW i
    PROVE  /\ \A stage : Goto(i, stage) => db' = db
           /\ \A ok : Permit(i, ok) => db' = db
           /\ \A ok, found : Show(i, ok, found) => db' = db
           /\ \A stage, found, next : Find(i, stage, found, next) => db' = db
           /\ \A next : LoadMemberOf(i, next) \/ LoadCreatorOf(i, next) => db' = db
           /\ \A stage, feed, next : PassDenied(i, stage, feed, next) => db' = db
           /\ \A stage, d : Write(i, stage, d) => db' = d
           /\ \A stage, d, row : WriteRow(i, stage, d, row) => db' = d
           /\ \A stage, method, next : Exec(i, stage, method, next) => db' \in {db, method.then}
           /\ \A stage, method : Transact(i, stage, method) => db' \in {db, method.then}
           /\ \A method : Commit(i, method) => db' = method.then
           /\ \A stage, method : LookUpAndDelete(i, stage, method) => db' \in {db, method.then}
BY DEF Goto, Permit, Show, Find, LoadMemberOf, LoadCreatorOf, PassDenied, Write, WriteRow, Exec,
       Transact, Begin, Commit, LookUpAndDelete

(* Handlers that are not about aliases or passwords. *)
LEMMA DashboardSpares ==
    ASSUME db \in Database, NEW i, Dashboard(i), ~revokeAlias(i)
    PROVE  Spares(db, db')
<1>0. Spares(db, db)
  BY DEF Spares
<1>1. CASE add(i)
  BY <1>0, <1>1, DatabaseAfter, MethodsSpare DEF add
<1>2. CASE changeRole(i) \/ remove(i)
  BY <1>0, <1>2, DatabaseAfter, MethodsSpare DEF changeRole, remove
<1>3. CASE createPasswordResetToken(i)
  BY <1>0, <1>3, DatabaseAfter, MethodsSpare DEF createPasswordResetToken
<1>4. CASE deny(i) \/ undeny(i)
  BY <1>0, <1>4, DatabaseAfter, MethodsSpare DEF deny, undeny
<1>5. CASE createInvite(i) \/ revokeInvite(i) \/ revokeInviteConfirm(i)
  BY <1>0, <1>5, DatabaseAfter, MethodsSpare DEF createInvite, revokeInvite, revokeInviteConfirm
<1>6. CASE setPrivacy(i) \/ setLanguage(i)
  BY <1>0, <1>6, DatabaseAfter, MethodsSpare DEF setPrivacy, setLanguage
<1>7. CASE revokeAliasConfirm(i)
  BY <1>0, <1>7, DatabaseAfter DEF revokeAliasConfirm
<1>8. CASE addTranslation(i) \/ saveNotice(i)
  BY <1>0, <1>8, DatabaseAfter, MethodsSpare DEF addTranslation, saveNotice
<1>. QED
  BY <1>1, <1>2, <1>3, <1>4, <1>5, <1>6, <1>7, <1>8 DEF Dashboard

(* So do those for everybody, and those over muxrpc. *)
LEMMA HandlersSpare ==
    ASSUME db \in Database, NEW i, Handle(i) \/ Command(i),
           ~revokeAlias(i), ~RevokeCall(i), ~changePassword(i), ~Asks(i, "insert-user")
    PROVE  Spares(db, db')
<1>0. Spares(db, db)
  BY DEF Spares
<1>1. CASE Authenticate(i) \/ CheckPanics(i) \/ Fail(i)
  BY <1>0, <1>1, DatabaseAfter
  DEF Authenticate, ReadPasswordCookie, ReadTokenCookie, ReadTokenMember, CheckPanics, Fail
<1>2. CASE Dashboard(i)
  BY <1>2, DashboardSpares
<1>3. CASE ReadOnly(i)
  <2>1. CASE overviewInvites(i)
    BY <1>0, <2>1, DatabaseAfter DEF overviewInvites
  <2>2. CASE \E ok, found : Show(i, ok, found)
    BY <1>0, <2>2, DatabaseAfter
  <2>. QED
    BY <1>3, <2>1, <2>2
    DEF ReadOnly, overview, setCookieLanguage, overviewMembers, details,
        removeConfirm, overviewDenied, undenyConfirm, overviewSettings, edit, draftTranslation,
        listNotices, showNotice, changePasswordForm
<1>4. CASE Pages(i)
  <2>1. CASE landing(i) \/ facade(i) \/ presentFacadeFallback(i) \/ resolve(i) \/ finalizeCookie(i)
    BY <1>0, <2>1, DatabaseAfter
    DEF landing, facade, presentFacadeFallback, GetByToken, resolve, finalizeCookie
  <2>2. CASE consume(i)
    BY <1>0, <2>2, DatabaseAfter, MethodsSpare DEF consume
  <2>3. CASE createOpenMode(i)
    BY <1>0, <2>3, DatabaseAfter, MethodsSpare DEF createOpenMode
  <2>4. CASE login(i) \/ DecideMethod(i)
    BY <1>0, <2>4, DatabaseAfter DEF login, DecideMethod
  <2>5. CASE clientInitiated(i)
    BY <1>0, <2>5, DatabaseAfter, MethodsSpare DEF clientInitiated
  <2>6. CASE Logout(i)
    BY <1>0, <2>6, DatabaseAfter, MethodsSpare DEF Logout
  <2>. QED
    BY <1>4, <2>1, <2>2, <2>3, <2>4, <2>5, <2>6 DEF Pages
<1>5. CASE Calls(i)
  <2>1. CASE RegisterCall(i)
    BY <1>0, <2>1, DatabaseAfter, MethodsSpare DEF RegisterCall
  <2>2. CASE ListCall(i)
    BY <1>0, <2>2, DatabaseAfter DEF ListCall, ListAliases
  <2>3. CASE invalidateAllSolutions(i)
    BY <1>0, <2>3, DatabaseAfter, MethodsSpare DEF invalidateAllSolutions
  <2>4. CASE mkHandler(i) \/ members(i)
    BY <1>0, <2>4, DatabaseAfter DEF mkHandler, members
  <2>5. CASE metadata(i) \/ whoami(i) \/ Ping(i)
    BY <1>0, <2>5, DatabaseAfter DEF metadata, whoami, Ping, actualPingPong
  <2>. QED
    BY <1>5, <2>1, <2>2, <2>3, <2>4, <2>5 DEF Calls
<1>. QED
  BY <1>1, <1>2, <1>3, <1>4, <1>5 DEF Handle, Command

-----------------------------------------------------------------------------
(* What a request that revokes an alias knows, and insert-user.            *)

Revoking == {"aliases/revoke", "alias.revoke"}

(* Whoever asks owned an alias of that name, in one of the databases s.    *)
HadAlias(f, s) == \E e \in s : \E b \in AliasesNamed(e, f.name) : b.signer = f.owner

(* Who comes to look the alias up once more had found its owner to be the  *)
(* one who asks, or is an administrator; the row to be deleted has that    *)
(* name, now and later.                                                    *)
Claimed(f, r, d, s) ==
    f.op \in Revoking =>
        /\ f.op = "aliases/revoke" => r.client \subseteq {f.owner}
        /\ r.at = "found" =>
              \E e \in s : \E b \in AliasesNamed(e, f.name) : Belongs(r.of, {b.signer}, d, s)
        /\ r.at \in {"second", "open"} => HadAlias(f, s) \/ (r.role = "admin" /\ r.who # 0)
        /\ r.at = "open" =>
              /\ r.row \in Nat /\ r.row <= d.last["aliases"]
              /\ \A a \in d.aliases : a.id = r.row => a.name = f.name

(* The member whose password insert-user sets is the one it has added.     *)
Created(f, r, d, s) ==
    f.op = "insert-user" /\ r.at \in {"second", "open"} => Belongs(r.row, {f.feed}, d, s)

Claims(f, r, d, s) == Claimed(f, r, d, s) /\ Created(f, r, d, s)
ClaimsHold == \A i \in Requests : Claims(form[i], run[i], db, seen)

KnownAliases == \E d \in seen : d.aliases = db.aliases

AInv == HInv /\ KnownAliases /\ ClaimsHold

(* What it knows stays true while others go on. *)
LEMMA ClaimsOn ==
    ASSUME NEW d, NEW e, NEW s, NEW t, Continues(d, e), t \subseteq s \cup {e}, s \subseteq t,
           \A a \in e.aliases : a \in d.aliases \/ a.id = NextId(d, "aliases"),
           NEW f, NEW r, Claims(f, r, d, s)
    PROVE  Claims(f, r, e, t)
<1>0. d.last["aliases"] \in Nat /\ e.last["aliases"] \in Nat /\ d.last["aliases"] <= e.last["aliases"]
  BY DEF Continues, TableNames
<1>1. \A id, feeds : Belongs(id, feeds, d, s) => Belongs(id, feeds, e, t)
  BY BelongsOn
<1>2. ASSUME f.op \in Revoking, r.at = "open"
      PROVE  /\ r.row \in Nat /\ r.row <= e.last["aliases"]
             /\ \A a \in e.aliases : a.id = r.row => a.name = f.name
  <2>1. /\ r.row \in Nat /\ r.row <= d.last["aliases"]
        /\ \A a \in d.aliases : a.id = r.row => a.name = f.name
    BY <1>2 DEF Claims, Claimed
  <2>. QED
    BY <1>0, <2>1 DEF NextId
<1>3. HadAlias(f, s) => HadAlias(f, t)
  BY DEF HadAlias
<1>4. ASSUME f.op \in Revoking, r.at = "found"
      PROVE  \E x \in t : \E b \in AliasesNamed(x, f.name) : Belongs(r.of, {b.signer}, e, t)
  <2>1. PICK x \in s : \E b \in AliasesNamed(x, f.name) : Belongs(r.of, {b.signer}, d, s)
    BY <1>4 DEF Claims, Claimed
  <2>. QED
    BY <1>1, <2>1
<1>5. Claimed(f, r, e, t)
  BY <1>2, <1>3, <1>4 DEF Claims, Claimed
<1>. QED
  BY <1>1, <1>5 DEF Claims, Created

(* So it does for a request that changes nothing that matters, or fails. *)
LEMMA ClaimsSame ==
    ASSUME NEW f, NEW d, NEW s, NEW r, NEW q, Same(q, r) \/ q = Fresh("failed"), Claims(f, r, d, s)
    PROVE  Claims(f, q, d, s)
<1>1. CASE Same(q, r)
  BY <1>1 DEF Claims, Claimed, Created, Same
<1>2. CASE q = Fresh("failed")
  BY <1>2 DEF Claims, Claimed, Created, Fresh
<1>. QED
  BY <1>1, <1>2

(* The handlers the claims are about. *)
LEMMA PinnedToo ==
    ASSUME NEW i, Handle(i) \/ Command(i)
    PROVE  /\ Asks(i, "aliases/revoke") => revokeAlias(i) \/ Authenticate(i) \/ Fail(i)
           /\ Asks(i, "alias.revoke") => RevokeCall(i) \/ Authenticate(i) \/ Fail(i)
           /\ Asks(i, "insert-user") => insertUser(i) \/ Fail(i)
<1>1. Dashboard(i) => /\ Asks(i, "aliases/revoke") => revokeAlias(i)
                      /\ ~Asks(i, "alias.revoke")
  <2>1. add(i) \/ changeRole(i) \/ remove(i) \/ createPasswordResetToken(i) \/ deny(i) \/ undeny(i)
            => ~Asks(i, "aliases/revoke")
    BY DEF add, changeRole, remove, createPasswordResetToken, deny, undeny, Asks
  <2>2. createInvite(i) \/ revokeInvite(i) \/ revokeInviteConfirm(i) \/ revokeAliasConfirm(i)
            => ~Asks(i, "aliases/revoke")
    BY DEF createInvite, revokeInvite, revokeInviteConfirm, revokeAliasConfirm, Asks
  <2>3. setPrivacy(i) \/ setLanguage(i) \/ addTranslation(i) \/ saveNotice(i)
            => ~Asks(i, "aliases/revoke")
    BY DEF setPrivacy, setLanguage, addTranslation, saveNotice, Asks
  <2>4. Dashboard(i) => ~Asks(i, "alias.revoke")
    BY DashboardAsks DEF InDashboard, Asks
  <2>. QED
    BY <2>1, <2>2, <2>3, <2>4 DEF Dashboard
<1>2. ReadOnly(i) => ~Asks(i, "aliases/revoke") /\ ~Asks(i, "alias.revoke")
  BY DEF ReadOnly, overview, setCookieLanguage, overviewMembers, details,
         removeConfirm, overviewDenied, undenyConfirm, overviewInvites, overviewSettings, edit,
         draftTranslation, listNotices, showNotice, changePasswordForm, Asks
<1>3. Pages(i) => ~Asks(i, "aliases/revoke") /\ ~Asks(i, "alias.revoke")
  BY DEF Pages, landing, facade, presentFacadeFallback, consume, createOpenMode, resolve,
         changePassword, login,
         DecideMethod, clientInitiated, finalizeCookie, Logout, Asks, Signing
<1>4. Calls(i) => /\ Asks(i, "alias.revoke") => RevokeCall(i)
                  /\ ~Asks(i, "aliases/revoke")
  <2>1. RegisterCall(i) \/ ListCall(i) \/ invalidateAllSolutions(i)
            => ~Asks(i, "alias.revoke") /\ ~Asks(i, "aliases/revoke")
    BY DEF RegisterCall, ListCall, invalidateAllSolutions, Asks
  <2>2. mkHandler(i) \/ members(i) \/ metadata(i) \/ whoami(i) \/ Ping(i)
            => ~Asks(i, "alias.revoke") /\ ~Asks(i, "aliases/revoke")
    BY DEF mkHandler, members, metadata, whoami, Ping, Asks
  <2>3. RevokeCall(i) => ~Asks(i, "aliases/revoke")
    BY DEF RevokeCall, Asks
  <2>. QED
    BY <2>1, <2>2, <2>3 DEF Calls
<1>5. CheckPanics(i) => Asks(i, "login")
  BY DEF CheckPanics
<1>. QED
  BY <1>1, <1>2, <1>3, <1>4, <1>5 DEF Handle, Command, Asks

(* Whoever has only shown a cookie claims to be who it was handed out to.  *)
LEMMA EarlyClaims ==
    ASSUME Inv, NEW i \in Requests, Authenticate(i) \/ Fail(i), Claims(form[i], run[i], db, seen)
    PROVE  Claims(form[i], run'[i], db', seen')
<1>0. run \in [Requests -> Run] /\ Cookies(form[i], db, seen) /\ Memory(form[i], run[i], db, seen)
  BY DEF Inv, TypeOK, Remembered
<1>1. CASE Authenticate(i)
  <2>1. ASSUME NEW m, NEW stage, Become(i, m, stage), m.feed = form[i].owner
        PROVE  run'[i].at = stage /\ run'[i].client = {form[i].owner}
    BY <1>0, <2>1 DEF Become, Run
  <2>2. /\ \A m \in GetByID(db, form[i].password) : m.feed = form[i].owner
        /\ At(i, "member") => \A m \in GetByID(db, run[i].of) : m.feed = form[i].owner
    BY <1>0 DEF Cookies, Memory, Belongs, GetByID, At
  <2>3. ReadPasswordCookie(i) =>
            run'[i].at \in {"token", "ready"} /\ run'[i].client \in {run[i].client, {form[i].owner}}
    BY <1>0, <2>1, <2>2 DEF ReadPasswordCookie, Run
  <2>4. ReadTokenCookie(i) =>
            run'[i].at \in {"member", "ready"} /\ run'[i].client = run[i].client
    BY <1>0 DEF ReadTokenCookie, Run
  <2>5. ReadTokenMember(i) =>
            run'[i].at = "ready" /\ run'[i].client \in {run[i].client, {form[i].owner}}
    BY <1>0, <2>1, <2>2 DEF ReadTokenMember, Run
  <2>6. /\ run'[i].at \in {"token", "member", "ready"}
        /\ run'[i].client \in {run[i].client, {form[i].owner}}
    BY <1>1, <2>3, <2>4, <2>5 DEF Authenticate
  <2>. QED
    BY <2>6 DEF Claims, Claimed, Created
<1>2. CASE Fail(i)
  <2>1. run'[i].at = "failed" /\ run'[i].client = {}
    BY <1>2, GoesTo DEF Fail, Forgets
  <2>. QED
    BY <2>1 DEF Claims, Claimed, Created
<1>. QED
  BY <1>1, <1>2

(* The queries of a handler that revokes an alias. *)
LEMMA FindsAlias ==
    ASSUME Inv, History, KnownAliases, NEW i \in Requests, form[i].op \in Revoking, NEW stage,
           Claims(form[i], run[i], db, seen),
           Find(i, stage, OfAliases(AliasesNamed(db, form[i].name)), "found")
    PROVE  Claims(form[i], run'[i], db', seen')
<1>0. form[i].op # "insert-user"
  BY DEF Revoking
<1>1. db' = db /\ seen' = seen
  BY FindsTo
<1>2. CASE run'[i].at = "failed" /\ run'[i].client = {}
  BY <1>2 DEF Claims, Claimed, Created
<1>3. CASE run'[i].at = "found"
  <2>1. PICK b \in AliasesNamed(db, form[i].name) :
            run'[i].of = b.member /\ run'[i].client = run[i].client
    BY <1>3, FindsTo DEF OfAliases, Keeps
  <2>2. b \in db.aliases /\ b.name = form[i].name
    BY DEF AliasesNamed
  <2>3. PICK m \in db.members : m.id = b.member /\ m.feed = b.signer
    BY <2>2 DEF Inv, Integrity, Sound, KeysExist
  <2>4. Belongs(b.member, {b.signer}, db, seen)
    BY <2>3, RowBelongs
  <2>5. PICK e \in seen : e.aliases = db.aliases
    BY DEF KnownAliases
  <2>6. b \in AliasesNamed(e, form[i].name)
    BY <2>2, <2>5 DEF AliasesNamed
  <2>. QED
    BY <1>0, <1>1, <1>3, <2>1, <2>4, <2>5, <2>6 DEF Claims, Claimed, Created
<1>. QED
  BY <1>2, <1>3, FindsTo

(* Its owner asks, or an administrator. *)
LEMMA LoadsOwner ==
    ASSUME Inv, NEW i \in Requests, form[i].op \in Revoking, Claims(form[i], run[i], db, seen),
           NEW ok, LoadMemberOf(i, IF ok THEN "second" ELSE "refused"),
           ok => \/ \E m \in FindMember(db, run[i].of) : m.feed = form[i].owner
                 \/ IsAdmin(i)
    PROVE  Claims(form[i], run'[i], db', seen')
<1>0. form[i].op # "insert-user" /\ run[i].at = "found"
  BY DEF Revoking, LoadMemberOf, At
<1>1. CASE Goto(i, "panicked") \/ Goto(i, "refused")
  <2>1. /\ run'[i].at \in {"panicked", "refused"}
        /\ run'[i].client \in {run[i].client, {}}
    BY <1>1, GoesTo DEF Forgets, Keeps
  <2>. QED
    BY <1>0, <2>1 DEF Claims, Claimed, Created
<1>2. CASE ok /\ Goto(i, "second")
  <2>1. /\ run'[i].at = "second" /\ db' = db /\ seen' = seen
        /\ Keeps(run'[i], run[i])
    BY <1>2, GoesTo DEF Forgets
  <2>2. HadAlias(form[i], seen) \/ (run[i].role = "admin" /\ run[i].who # 0)
    <3>1. CASE \E m \in FindMember(db, run[i].of) : m.feed = form[i].owner
      <4>1. PICK e \in seen : \E b \in AliasesNamed(e, form[i].name) :
                Belongs(run[i].of, {b.signer}, db, seen)
        BY <1>0 DEF Claims, Claimed
      <4>2. PICK b \in AliasesNamed(e, form[i].name) : Belongs(run[i].of, {b.signer}, db, seen)
        BY <4>1
      <4>3. b.signer = form[i].owner
        BY <3>1, <4>2 DEF Belongs
      <4>. QED
        BY <4>2, <4>3 DEF HadAlias
    <3>. QED
      BY <1>2, <3>1 DEF IsAdmin
  <2>. QED
    BY <1>0, <2>1, <2>2 DEF Claims, Claimed, Created, Keeps
<1>. QED
  BY <1>1, <1>2 DEF LoadMemberOf

(* The row that is to be deleted has the name that is asked for. *)
LEMMA FindsRow ==
    ASSUME Inv, NEW i \in Requests, form[i].op \in Revoking, Claims(form[i], run[i], db, seen),
           RevokeByName(i, "second"), Continues(db, db'), Sound(db)
    PROVE  Claims(form[i], run'[i], db', seen')
<1>0. form[i].op # "insert-user"
  BY DEF Revoking
<1>1. CASE Find(i, "second", OfAliases(AliasesNamed(db, form[i].name)), "open")
  <2>1. db' = db /\ seen' = seen
    BY <1>1, FindsTo
  <2>2. CASE run'[i].at = "failed" /\ run'[i].client = {}
    BY <1>0, <2>2 DEF Claims, Claimed, Created
  <2>3. CASE run'[i].at = "open"
    <3>1. PICK b \in AliasesNamed(db, form[i].name) :
              run[i].at = "second" /\ run'[i].row = b.id /\ Keeps(run'[i], run[i])
      BY <1>1, <2>3, FindsTo DEF OfAliases
    <3>2. b \in db.aliases /\ b.name = form[i].name
      BY DEF AliasesNamed
    <3>3. /\ b.id \in Nat /\ b.id <= db.last["aliases"]
          /\ \A a \in db.aliases : a.id = b.id => a = b
      BY <3>2, LastTypes DEF Sound, AllIdsUnique, IdsUnique, TableNames
    <3>. QED
      BY <1>0, <2>1, <2>3, <3>1, <3>2, <3>3 DEF Claims, Claimed, Created, Keeps
  <2>. QED
    BY <1>1, <2>2, <2>3, FindsTo
<1>2. CASE Write(i, "done", RevokeAlias(db, run[i].row).then)
  <2>1. run'[i].at = "done" /\ Keeps(run'[i], run[i])
    BY <1>2, WritesTo
  <2>. QED
    BY <1>0, <2>1 DEF Claims, Claimed, Created, Keeps
<1>. QED
  BY <1>1, <1>2 DEF RevokeByName

(* An alias is revoked, in the dashboard or over muxrpc. *)
LEMMA RevokeClaims ==
    ASSUME Inv, History, KnownAliases, Continues(db, db'), NEW i \in Requests,
           revokeAlias(i) \/ RevokeCall(i), Claims(form[i], run[i], db, seen)
    PROVE  Claims(form[i], run'[i], db', seen')
<1>0. form[i].op \in Revoking /\ form[i].op # "insert-user" /\ Sound(db)
  BY DEF revokeAlias, RevokeCall, Asks, Revoking, Inv, Integrity
<1>1. CASE revokeAlias(i)
  <2>. DEFINE ok == (\E m \in FindMember(db, run[i].of) : m.feed \in run[i].client) \/ IsAdmin(i)
  <2>1. CASE Permit(i, AuthenticateFromContext(i))
    <3>1. /\ run'[i].at \in {"granted", "refused"}
          /\ run'[i].client \in {run[i].client, {}}
      BY <2>1, GoesTo DEF Permit, Forgets, Keeps
    <3>. QED
      BY <1>0, <3>1 DEF Claims, Claimed, Created
  <2>2. CASE LoadMemberOf(i, IF ok THEN "second" ELSE "refused")
    <3>1. run[i].client \subseteq {form[i].owner}
      BY <1>0, <1>1 DEF Claims, Claimed, revokeAlias, Asks
    <3>2. ok => (\E m \in FindMember(db, run[i].of) : m.feed = form[i].owner) \/ IsAdmin(i)
      BY <3>1
    <3>. HIDE DEF ok
    <3>. QED
      BY <1>0, <2>2, <3>2, LoadsOwner
  <2>. QED
    BY <1>0, <1>1, <2>1, <2>2, FindsAlias, FindsRow DEF revokeAlias
<1>2. CASE RevokeCall(i)
  <2>. DEFINE ok == \E m \in FindMember(db, run[i].of) : m.feed = form[i].owner
  <2>1. CASE LoadMemberOf(i, IF ok THEN "second" ELSE "refused")
    <3>1. ok => (\E m \in FindMember(db, run[i].of) : m.feed = form[i].owner) \/ IsAdmin(i)
      OBVIOUS
    <3>. HIDE DEF ok
    <3>. QED
      BY <1>0, <2>1, <3>1, LoadsOwner
  <2>. QED
    BY <1>0, <1>2, <2>1, FindsAlias, FindsRow DEF RevokeCall
<1>. QED
  BY <1>1, <1>2

(* The new member has a new id. *)
LEMMA AddedBelongs ==
    ASSUME Inv, History, NEW feed, NEW role, db' = InsertMember(db, feed, role),
           seen' = seen \cup {db'}
    PROVE  Belongs(NextId(db, "members"), {feed}, db', seen')
<1>. DEFINE id == NextId(db, "members")
<1>0. db \in Database /\ Sound(db) /\ "members" \in TableNames
  BY DEF Inv, Integrity, Sound, TableNames
<1>1. db.last["members"] \in Nat /\ id = db.last["members"] + 1 /\ id \in Nat
  BY <1>0, LastTypes
<1>2. /\ db'.members = db.members \cup {[id |-> id, feed |-> feed, role |-> role]}
      /\ db'.last["members"] = id
  BY <1>0, <1>1 DEF InsertMember, Database
<1>. HIDE DEF id
<1>3. FindMember(db, id) = {}
  BY <1>0, <1>1, RowTypes DEF Sound, AllIdsUnique, IdsUnique, FindMember
<1>4. \A m \in FindMember(db', id) : m.feed = feed
  BY <1>2, <1>3 DEF FindMember
<1>5. ASSUME NEW e \in seen PROVE FindMember(e, id) = {}
  <2>1. Sound(e) /\ e.last["members"] \in Nat /\ e.last["members"] <= db.last["members"]
    BY <1>0 DEF History, Continues
  <2>2. \A m \in e.members : m.id \in Nat /\ m.id <= e.last["members"]
    BY <2>1, RowTypes DEF Sound, AllIdsUnique, IdsUnique
  <2>. QED
    BY <1>1, <2>1, <2>2 DEF FindMember
<1>6. Belongs(id, {feed}, db', seen')
  BY <1>1, <1>2, <1>4, <1>5 DEF Belongs
<1>. QED
  BY <1>6 DEF id

(* insert-user sets the password of the member it has added. *)
LEMMA InsertUserClaims ==
    ASSUME Inv, History, Continues(db, db'), NEW i \in Requests, Asks(i, "insert-user"),
           insertUser(i), Claims(form[i], run[i], db, seen)
    PROVE  Claims(form[i], run'[i], db', seen')
<1>0. form[i].op = "insert-user" /\ form[i].op \notin Revoking /\ form[i].op \notin Signing
  BY DEF Asks, Revoking, Signing
<1>1. SUFFICES run'[i].at \in {"second", "open"} => Belongs(run'[i].row, {form[i].feed}, db', seen')
  BY <1>0 DEF Claims, Claimed, Created
<1>2. ASSUME NEW stage, NEW d, Write(i, stage, d) PROVE run'[i].at = stage
  BY <1>2, WritesTo
<1>3. CASE LET method == AddMember(db, form[i].feed, form[i].role) IN
           /\ At(i, "granted")
           /\ IF method.may THEN WriteRow(i, "second", method.then, NextId(db, "members"))
                            ELSE Goto(i, "failed")
  <2>1. CASE Goto(i, "failed")
    BY <2>1, GoesTo
  <2>2. CASE WriteRow(i, "second", InsertMember(db, form[i].feed, form[i].role), NextId(db, "members"))
    <3>1. run'[i].row = NextId(db, "members")
      BY <2>2 DEF WriteRow, Inv, TypeOK, Run
    <3>2. /\ db' = InsertMember(db, form[i].feed, form[i].role)
          /\ seen' = seen \cup {db'}
      BY <2>2 DEF WriteRow
    <3>. QED
      BY <3>1, <3>2, AddedBelongs
  <2>. QED
    BY <1>3, <2>1, <2>2 DEF AddMember
<1>4. CASE Transact(i, "second", SetPassword(db, run[i].row, form[i].secret))
  <2>1. SetPassword(db, run[i].row, form[i].secret).may <=> MayCommit(form[i], db, run[i])
    BY <1>0 DEF MayCommit
  <2>2. \/ run'[i].at = "failed"
        \/ run'[i].at = "done"
        \/ run[i].at = "second" /\ run'[i].row = run[i].row /\ db' = db /\ seen' = seen
    BY <1>4, <2>1, TransactsTo
  <2>. QED
    BY <1>0, <2>2 DEF Claims, Created
<1>. QED
  BY <1>2, <1>3, <1>4 DEF insertUser

(* Whatever the step of a request, it is entitled to what it claims. *)
LEMMA StepClaims ==
    ASSUME Inv, History, KnownAliases, ClaimsHold, Continues(db, db'), NEW i \in Requests,
           Handle(i) \/ Command(i)
    PROVE  Claims(form[i], run'[i], db', seen')
<1>1. Claims(form[i], run[i], db, seen)
  BY DEF ClaimsHold
<1>2. CASE form[i].op \notin Revoking \cup {"insert-user"}
  BY <1>2 DEF Claims, Claimed, Created
<1>3. CASE form[i].op \in Revoking
  BY <1>1, <1>3, PinnedToo, EarlyClaims, RevokeClaims DEF Revoking, Asks
<1>4. CASE Asks(i, "insert-user")
  BY <1>1, <1>4, PinnedToo, EarlyClaims, InsertUserClaims
<1>. QED
  BY <1>2, <1>3, <1>4 DEF Asks

(* So it is whatever happens. *)
LEMMA NextKeepsClaims ==
    ASSUME AInv, [Next]_vars
    PROVE  AInv'
<1>1. HInv' /\ Inv /\ HInv
  BY NextKeepsHistory DEF AInv, HInv
<1>2. Right /\ Logged /\ form' = form
  BY <1>1, NextSteps DEF RightOf, Elsewhere
<1>3. Continues(db, db') /\ History
  BY <1>1, <1>2, HistoryOn DEF HInv
<1>4. KnownAliases'
  BY <1>2 DEF AInv, KnownAliases, Logged
<1>5. seen' \subseteq seen \cup {db'} /\ seen \subseteq seen'
  BY <1>2 DEF Logged
<1>6. \A a \in db'.aliases : a \in db.aliases \/ a.id = NextId(db, "aliases")
  BY <1>1, <1>2, AliasSteps DEF Right, Inv, Integrity
<1>7. ASSUME NEW j \in Requests, Same(run'[j], run[j]) \/ run'[j] = Fresh("failed")
      PROVE  Claims(form'[j], run'[j], db', seen')
  <2>1. Claims(form[j], run[j], db, seen)
    BY DEF AInv, ClaimsHold
  <2>2. Claims(form[j], run[j], db', seen')
    BY <1>3, <1>5, <1>6, <2>1, ClaimsOn
  <2>. QED
    BY <1>2, <1>7, <2>2, ClaimsSame
<1>8. CASE Elsewhere
  BY <1>1, <1>4, <1>7, <1>8 DEF Elsewhere, AInv, ClaimsHold
<1>9. ASSUME NEW i \in Requests, Handle(i) \/ Command(i), RightOf(i)
      PROVE  AInv'
  <2>1. Claims(form'[i], run'[i], db', seen')
    BY <1>1, <1>2, <1>3, <1>9, StepClaims DEF AInv
  <2>. QED
    BY <1>1, <1>4, <1>7, <1>9, <2>1 DEF RightOf, AInv, ClaimsHold
<1>. QED
  BY <1>1, <1>8, <1>9, NextSteps

(* At first nobody claims anything. *)
LEMMA InitClaims == Init => AInv
<1>. SUFFICES ASSUME Init PROVE AInv
  OBVIOUS
<1>1. HInv
  BY InitHistory
<1>2. KnownAliases
  BY DEF Init, KnownAliases
<1>3. \A i \in Requests : run[i].at \in {"ready", "arrived"} /\ run[i].client = {}
  BY DEF Init, Fresh
<1>4. ClaimsHold
  BY <1>3 DEF ClaimsHold, Claims, Claimed, Created
<1>. QED
  BY <1>1, <1>2, <1>4 DEF AInv

(* So it is always. *)
LEMMA ClaimsAreRight == Spec => []AInv
BY InitClaims, NextKeepsClaims, PTL DEF Spec

(* The clock, cleaning up and a crash take nothing that somebody owns.     *)
LEMMA NobodyTakes ==
    ASSUME Inv, Age \/ Tick \/ Crash \/ Open \/ UNCHANGED vars
    PROVE  Untouched(db, db')
<1>0. db \in Database
  BY DEF Inv, TypeOK
<1>1. CASE Age
  BY <1>0, <1>1, StatementsLeaveAlone DEF Age
<1>2. CASE Tick
  BY <1>0, <1>2, StatementsLeaveAlone DEF Tick, Cleaned
<1>3. CASE Crash \/ UNCHANGED vars
  BY <1>3 DEF Crash, vars, Untouched
<1>4. CASE Open
  <2>1. boot \in 1..3
    BY <1>4 DEF Open, Inv, TypeOK
  <2>2. db' \in {DeleteOldSessions(db), DeleteUsedInvites(db), DeleteUsedResets(db)}
    BY <1>4, <2>1 DEF Open, Cleaned
  <2>. QED
    BY <1>0, <2>2, StatementsLeaveAlone
<1>. QED
  BY <1>1, <1>2, <1>3, <1>4

(* An alias that goes without its member goes by a request that may take it. *)
LEMMA TakenByRight ==
    ASSUME AInv, [Next]_vars, NEW a \in db.aliases \ db'.aliases, FindMember(db', a.member) # {}
    PROVE  \E i \in Requests :
                /\ form[i].op \in {"aliases/revoke", "alias.revoke"}
                /\ form[i].name = a.name /\ run'[i].at = "done"
                /\ \/ run[i].role = "admin" /\ run[i].who # 0
                   \/ \E d \in seen : \E b \in AliasesNamed(d, a.name) :
                         b.signer = form[i].owner
<1>0. Inv /\ db \in Database
  BY DEF AInv, HInv, Inv, TypeOK
<1>1. ~Untouched(db, db') /\ ~Spares(db, db')
  BY DEF Untouched, Spares
<1>2. PICK i \in Requests : Handle(i) \/ Command(i)
  BY <1>0, <1>1, NobodyTakes DEF Next
<1>3. revokeAlias(i) \/ RevokeCall(i)
  <2>1. CASE changePassword(i)
    <3>1. /\ \A ok : Permit(i, ok) => db' = db
          /\ \A method : Transact(i, "granted", method) => db' \in {db, method.then}
      BY DatabaseAfter
    <3>2. /\ SetPassword(db, run[i].who, form[i].secret).then.aliases = db.aliases
          /\ SetPasswordWithToken(db, form[i].id, form[i].secret).then.aliases = db.aliases
      BY <1>0, StatementsTouch DEF SetPassword, SetPasswordWithToken
    <3>. QED
      BY <2>1, <3>1, <3>2 DEF changePassword
  <2>2. CASE Asks(i, "insert-user")
    <3>1. insertUser(i) \/ Fail(i)
      BY <1>2, <2>2, PinnedToo
    <3>2. /\ \A stage, d : Write(i, stage, d) => db' = d
          /\ \A stage, d, row : WriteRow(i, stage, d, row) => db' = d
          /\ \A stage : Goto(i, stage) => db' = db
          /\ \A stage, method : Transact(i, stage, method) => db' \in {db, method.then}
      BY DatabaseAfter
    <3>3. SetPassword(db, run[i].row, form[i].secret).then.aliases = db.aliases
      BY <1>0, StatementsTouch DEF SetPassword
    <3>4. /\ DeleteOldSessions(db).aliases = db.aliases
          /\ DeleteUsedInvites(db).aliases = db.aliases
          /\ DeleteUsedResets(db).aliases = db.aliases
          /\ AddMember(db, form[i].feed, form[i].role).then.aliases = db.aliases
      BY <1>0, StatementsLeaveAlone DEF Untouched, AddMember
    <3>. QED
      BY <3>1, <3>2, <3>3, <3>4 DEF insertUser, Fail
  <2>. QED
    BY <1>0, <1>1, <1>2, <2>1, <2>2, HandlersSpare
<1>4. form[i].op \in Revoking
  BY <1>3 DEF revokeAlias, RevokeCall, Asks, Revoking
<1>5. run[i].at = "open" /\ Write(i, "done", RevokeAlias(db, run[i].row).then)
  <2>1. /\ \A ok : Permit(i, ok) => db' = db
        /\ \A stage, found, next : Find(i, stage, found, next) => db' = db
        /\ \A next : LoadMemberOf(i, next) => db' = db
    BY DatabaseAfter
  <2>. QED
    BY <1>3, <2>1 DEF revokeAlias, RevokeCall, RevokeByName, At
<1>6. run'[i].at = "done" /\ db' = DeleteAlias(db, run[i].row)
  BY <1>0, <1>5, WritesTo DEF RevokeAlias
<1>7. a.id = run[i].row
  BY <1>0, <1>6, StatementsTouch
<1>8. Claimed(form[i], run[i], db, seen)
  BY DEF AInv, ClaimsHold, Claims
<1>9. /\ form[i].name = a.name
      /\ HadAlias(form[i], seen) \/ (run[i].role = "admin" /\ run[i].who # 0)
  BY <1>4, <1>5, <1>7, <1>8 DEF Claimed
<1>. QED
  BY <1>4, <1>6, <1>9 DEF HadAlias, Revoking

(* A password that is new is set by somebody who may set it. *)
LEMMA SetByRight ==
    ASSUME AInv, [Next]_vars, NEW p \in db'.passwords \ db.passwords
    PROVE  \E i \in Requests :
             /\ form[i].op \in {"changePassword", "insert-user"} /\ run'[i].at = "done"
             /\ \/ Asks(i, "insert-user") /\ \E m \in FindMember(db, p.member) : m.feed = form[i].feed
                \/ form[i].id = 0 /\ \E m \in FindMember(db, p.member) : m.feed = form[i].owner
                \/ \E t \in ActiveResets(db) : t.id = form[i].id /\ t.member = p.member
<1>0. Inv /\ db \in Database /\ Sound(db)
  BY DEF AInv, HInv, Inv, TypeOK, Integrity
<1>1. ~Untouched(db, db') /\ ~Spares(db, db')
  BY DEF Untouched, Spares
<1>2. PICK i \in Requests : Handle(i) \/ Command(i)
  BY <1>0, <1>1, NobodyTakes DEF Next
<1>3. changePassword(i) \/ Asks(i, "insert-user")
  <2>1. ASSUME revokeAlias(i) \/ RevokeCall(i) PROVE FALSE
    <3>1. /\ \A ok : Permit(i, ok) => db' = db
          /\ \A stage, found, next : Find(i, stage, found, next) => db' = db
          /\ \A next : LoadMemberOf(i, next) => db' = db
          /\ \A stage, d : Write(i, stage, d) => db' = d
      BY DatabaseAfter
    <3>2. RevokeAlias(db, run[i].row).then.passwords = db.passwords
      BY <1>0, StatementsTouch DEF RevokeAlias
    <3>. QED
      BY <2>1, <3>1, <3>2 DEF revokeAlias, RevokeCall, RevokeByName
  <2>. QED
    BY <1>0, <1>1, <1>2, <2>1, HandlersSpare
<1>4. CASE changePassword(i) /\ form[i].id = 0
  <2>1. form[i].op = "changePassword" /\ form[i].op \notin Signing
    BY <1>4 DEF changePassword, Asks, Signing
  <2>2. SetPassword(db, run[i].who, form[i].secret).may <=> MayCommit(form[i], db, run[i])
    BY <1>4, <2>1 DEF MayCommit
  <2>3. run'[i].at = "done" /\ Does(SetPassword(db, run[i].who, form[i].secret))
    <3>1. Transact(i, "granted", SetPassword(db, run[i].who, form[i].secret))
      BY <1>4, DatabaseAfter DEF changePassword
    <3>2. ~Begin(i, "granted", SetPassword(db, run[i].who, form[i].secret))
      BY DEF Begin, Goto
    <3>3. Commit(i, SetPassword(db, run[i].who, form[i].secret))
      BY <3>1, <3>2 DEF Transact
    <3>4. MayCommit(form[i], db, run[i])
      BY <1>0, <3>3 DEF Inv, ReadsHold, Holds, Commit, At
    <3>. QED
      BY <1>0, <2>2, <3>3, <3>4, WritesTo DEF Commit, Does
  <2>4. p.member = run[i].who
    BY <1>0, <2>3, StatementsTouch DEF Does, SetPassword
  <2>5. PICK m \in FindMember(db, run[i].who) : TRUE
    BY <2>3 DEF Does, SetPassword
  <2>6. run[i].who # 0
    BY <1>0, <2>5 DEF FindMember, Sound, AllIdsUnique, IdsUnique
  <2>7. m.feed = form[i].owner
    BY <1>0, <2>1, <2>5, <2>6 DEF Inv, Remembered, Memory, Belongs
  <2>. QED
    BY <1>4, <2>1, <2>3, <2>4, <2>5, <2>7
<1>5. CASE changePassword(i) /\ form[i].id # 0
  <2>. DEFINE method == SetPasswordWithToken(db, form[i].id, form[i].secret)
  <2>1. form[i].op = "changePassword" /\ form[i].op \notin Signing
    BY <1>5 DEF changePassword, Asks, Signing
  <2>2. method.may <=> MayCommit(form[i], db, run[i])
    BY <1>5, <2>1 DEF MayCommit
  <2>3. run'[i].at = "done" /\ Does(method)
    <3>1. Transact(i, "granted", method)
      BY <1>5, DatabaseAfter DEF changePassword
    <3>. HIDE DEF method
    <3>2. Commit(i, method)
      BY <3>1 DEF Transact, Begin, Goto
    <3>3. MayCommit(form[i], db, run[i])
      BY <1>0, <3>2 DEF Inv, ReadsHold, Holds, Commit, At
    <3>. QED
      BY <1>0, <2>2, <3>2, <3>3, WritesTo DEF Commit, Does
  <2>4. PICK t \in ActiveReset(db, form[i].id) :
            db' = UpdateReset(Upsert(db, t.member, form[i].secret), form[i].id, "used")
    BY <2>3 DEF Does, SetPasswordWithToken
  <2>5. p.member = t.member
    BY <1>0, <2>4, StatementsTouch
  <2>. QED
    BY <2>1, <2>3, <2>4, <2>5 DEF ActiveReset
<1>6. CASE Asks(i, "insert-user")
  <2>. DEFINE method == SetPassword(db, run[i].row, form[i].secret)
  <2>1. form[i].op = "insert-user" /\ form[i].op \notin Signing
    BY <1>6 DEF Asks, Signing
  <2>2. method.may <=> MayCommit(form[i], db, run[i])
    BY <2>1 DEF MayCommit
  <2>3. Transact(i, "second", method)
    <3>1. insertUser(i) \/ Fail(i)
      BY <1>2, <1>6, PinnedToo
    <3>2. /\ \A stage, d : Write(i, stage, d) => db' = d
          /\ \A stage, d, row : WriteRow(i, stage, d, row) => db' = d
          /\ \A stage : Goto(i, stage) => db' = db
      BY DatabaseAfter
    <3>3. /\ DeleteOldSessions(db).passwords = db.passwords
          /\ DeleteUsedInvites(db).passwords = db.passwords
          /\ DeleteUsedResets(db).passwords = db.passwords
          /\ AddMember(db, form[i].feed, form[i].role).then.passwords = db.passwords
      BY <1>0, StatementsLeaveAlone DEF Untouched, AddMember
    <3>. QED
      BY <3>1, <3>2, <3>3 DEF insertUser, Fail
  <2>4. run[i].at = "open" /\ run'[i].at = "done" /\ Does(method)
    <3>. HIDE DEF method
    <3>1. Commit(i, method)
      BY <2>3 DEF Transact, Begin, Goto
    <3>2. MayCommit(form[i], db, run[i])
      BY <1>0, <3>1 DEF Inv, ReadsHold, Holds, Commit, At
    <3>. QED
      BY <1>0, <2>2, <3>1, <3>2, WritesTo DEF Commit, Does, At
  <2>5. p.member = run[i].row
    BY <1>0, <2>4, StatementsTouch DEF Does, SetPassword
  <2>6. PICK m \in FindMember(db, run[i].row) : TRUE
    BY <2>4 DEF Does, SetPassword
  <2>7. m.feed = form[i].feed
    BY <2>1, <2>4, <2>6 DEF AInv, ClaimsHold, Claims, Created, Belongs
  <2>. QED
    BY <1>6, <2>1, <2>4, <2>5, <2>6, <2>7
<1>. QED
  BY <1>3, <1>4, <1>5, <1>6

\* An alias goes with its member, or because a request revoked that name whose sender had owned
\* it or was an administrator, whoever registers and revokes meanwhile
\* (web/handlers/admin/aliases.go, revoke, and muxrpc/handlers/alias/handler.go, Revoke).
THEOREM AliasesRevokedByOwners == Spec => AliasRevokedByOwner
<1>1. AInv /\ [Next]_vars =>
        [ \A a \in db.aliases \ db'.aliases :
          \/ FindMember(db', a.member) = {}
          \/ \E i \in Requests :
                /\ form[i].op \in {"aliases/revoke", "alias.revoke"}
                /\ form[i].name = a.name /\ run'[i].at = "done"
                /\ \/ run[i].role = "admin" /\ run[i].who # 0
                   \/ \E d \in seen : \E b \in AliasesNamed(d, a.name) :
                         b.signer = form[i].owner ]_vars
  BY TakenByRight
<1>. QED
  BY <1>1, ClaimsAreRight, PTL DEF Spec, AliasRevokedByOwner

\* A password is set by its member, by whoever holds a reset link made for that member, or by
\* insert-user for the member it has added (web/handlers/members_password.go, changePassword,
\* and cmd/insert-user/main.go).
THEOREM PasswordsSetByOwners == Spec => PasswordSetByOwner
<1>1. AInv /\ [Next]_vars =>
        [ \A p \in db'.passwords \ db.passwords :
          \E i \in Requests :
             /\ form[i].op \in {"changePassword", "insert-user"} /\ run'[i].at = "done"
             /\ \/ Asks(i, "insert-user") /\ \E m \in FindMember(db, p.member) : m.feed = form[i].feed
                \/ form[i].id = 0 /\ \E m \in FindMember(db, p.member) : m.feed = form[i].owner
                \/ \E t \in ActiveResets(db) : t.id = form[i].id /\ t.member = p.member ]_vars
  BY SetByRight
<1>. QED
  BY <1>1, ClaimsAreRight, PTL DEF Spec, PasswordSetByOwner
=============================================================================
