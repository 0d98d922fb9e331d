----------------------------- MODULE MCRequests -----------------------------
(***************************************************************************)
(* Two administrators, a member and a visitor; agendas that bring two or   *)
(* three requests against each other.                                      *)
(***************************************************************************)
EXTENDS Requests

CONSTANTS ann, bob, cel, dan

Member(id, feed, role) == [id |-> id, feed |-> feed, role |-> role]

(* Ann and Bob are administrators, Cel is a member. *)
Room == [members |-> {Member(1, ann, "admin"), Member(2, bob, "admin"), Member(3, cel, "member")},
         aliases |-> {}, invites |-> {}, passwords |-> {}, resets |-> {}, sessions |-> {},
         denied |-> {}, notices |-> {[id |-> 1, language |-> "en"]},
         pinned |-> {[pin |-> "description", notice |-> 1]},
         config |-> [mode |-> "community", language |-> "en"],
         last |-> [t \in TableNames |-> IF t = "members" THEN 3 ELSE IF t = "notices" THEN 1 ELSE 0]]

Invited == InsertInvite(Room, 1)
Owned == InsertAlias(Room, "x", 3, cel)
Restricted == [Room EXCEPT !.config.mode = "restricted"]
Denying == InsertDeniedKey(Invited, dan)
Resets == InsertReset(InsertPassword(Room, 1, "old"), 1, 3)
SignedIn == InsertSession(Room, 3)

Ask(op, owner, password) ==
    [op |-> op, owner |-> owner, password |-> password, token |-> 0, id |-> 0, feed |-> dan,
     name |-> "x", role |-> "member", mode |-> "restricted", language |-> "de",
     secret |-> "new", pin |-> "description"]
On(op, owner, password, id) == [Ask(op, owner, password) EXCEPT !.id = id]
WithToken(op, owner, token) == [Ask(op, owner, 0) EXCEPT !.token = token]
Signed(r) == [r EXCEPT !.feed = r.owner]
InEnglish(r) == [r EXCEPT !.language = "en"]

Plan(d, r, s, t) == [db |-> d, form |-> <<r, s, t>>, crashes |-> 1]

MCAgenda ==
  { \* Two administrators against each other.
    Plan(Room, On("members/change-role", ann, 1, 2), On("members/change-role", bob, 2, 1),
               On("members/remove", bob, 2, 1)),
    \* A member is removed and somebody joins, while its cookies are in use.
    Plan(Invited, On("members/remove", ann, 1, 3), On("consume", dan, 0, 1),
                  InEnglish(On("notice/save", cel, 3, 1))),
    Plan(SignedIn, On("members/remove", ann, 1, 3), Ask("login/cid", cel, 0),
                   WithToken("invites/create", cel, 1)),
    \* A denied key, an invite and a connection.
    Plan(Denying, On("consume", dan, 0, 1), On("denied/remove", cel, 3, 1),
                  Ask("admission", dan, 0)),
    Plan(Restricted, Ask("admission", cel, 0), On("members/remove", ann, 1, 3),
                     [Ask("settings/set-privacy", bob, 2) EXCEPT !.mode = "open"]),
    \* An invite for two.
    Plan(Invited, On("consume", dan, 0, 1), [On("consume", cel, 0, 1) EXCEPT !.feed = cel],
                  On("invites/revoke", cel, 3, 1)),
    \* An alias changes hands, or its owner goes.
    Plan(Owned, Ask("alias.revoke", cel, 0), Ask("aliases/revoke", bob, 2),
                Signed(Ask("alias.register", bob, 0))),
    Plan(InsertAlias(Room, "x", 1, ann), Ask("aliases/revoke", cel, 3),
                Ask("alias.revoke", cel, 0), Signed(Ask("alias.register", cel, 0))),
    Plan(Owned, On("members/remove", ann, 1, 3), Ask("alias.list", dan, 0),
                Ask("resolve", dan, 0)),
    Plan(InsertInvite(Owned, 3), On("members/remove", ann, 1, 3), On("facade", dan, 0, 1),
                On("aliases/revoke/confirm", bob, 2, 1)),
    Plan(InsertInvite(Owned, 3), On("members/remove", ann, 1, 3), Signed(Ask("alias.register", cel, 0)),
                On("invites/revoke/confirm", bob, 2, 1)),
    \* A reset link for two, and the member itself.
    Plan(Resets, On("changePassword", cel, 0, 1),
                 [On("changePassword", cel, 0, 1) EXCEPT !.secret = "old"],
                 [Ask("login", cel, 0) EXCEPT !.feed = cel]),
    Plan(Resets, Ask("changePassword", cel, 3), On("members/reset-link", ann, 1, 3),
                 On("changePassword", cel, 3, 1)),
    \* Tokens of the sign-in with SSB.
    Plan(SignedIn, WithToken("members/add", cel, 1), WithToken("logout", cel, 1),
                   Ask("invalidate", cel, 0)),
    Plan(SignedIn, WithToken("finalizeCookie", cel, 1),
                   [WithToken("denied/add", cel, 1) EXCEPT !.password = 3],
                   Ask("login/cid", dan, 0)),
    Plan(Owned, Ask("login/alias", cel, 0), Ask("alias.revoke", cel, 0),
                Signed(Ask("alias.register", bob, 0))),
    Plan(Owned, Ask("login/alias", cel, 0), On("members/remove", ann, 1, 3),
                [Ask("insert-user", dan, 0) EXCEPT !.feed = cel]),
    \* A second process, with the same key or with another one.
    Plan(UpdateInvite(Invited, 1, "used"), [Ask("insert-user", dan, 0) EXCEPT !.role = "admin"],
                On("members/remove", ann, 1, 4), Ask("members/add", bob, 2)),
    Plan(Restricted, Ask("members.list", cel, 0), On("members/remove", ann, 1, 3),
                Ask("metadata", cel, 0)),
    Plan([Room EXCEPT !.config.mode = "open"], Ask("members.list", dan, 0),
                Ask("settings/set-privacy", ann, 1), Ask("alias.register", cel, 0)),
    \* Notices, and the page that shows one.
    Plan(Room, Ask("notice/translation/add", cel, 3),
               InEnglish(Ask("notice/translation/add", bob, 2)), InEnglish(Ask("landing", dan, 0))),
    \* Both settings, and an invite in open mode.
    Plan([Room EXCEPT !.config.mode = "open"], Ask("settings/set-privacy", ann, 1),
               Ask("settings/set-language", bob, 2), Ask("createOpenMode", dan, 0)),
    \* Pages, while what they show is changed.
    Plan(Room, On("members/remove", ann, 1, 3), On("member", bob, 2, 3),
               On("members/remove/confirm", bob, 2, 3)),
    Plan(Room, On("members/remove", ann, 1, 3), Ask("members", bob, 2),
               On("notice/edit", cel, 3, 1)),
    Plan(Denying, On("denied/remove", ann, 1, 1), On("denied/remove/confirm", bob, 2, 1),
               Ask("denied", cel, 3)),
    Plan(Invited, On("invites/revoke", ann, 1, 1), Ask("invites", bob, 2),
               Ask("settings", cel, 3)),
    Plan(Room, Ask("dashboard", cel, 3), Ask("notice/save", bob, 2), On("members/remove", ann, 1, 3)),
    Plan(Invited, On("join-fallback", dan, 0, 1), Ask("set-language", dan, 0),
               [Signed(Ask("alias.register", cel, 0)) EXCEPT !.name = "X!"]),
    Plan(Room, Ask("whoami", dan, 0), Ask("ping", dan, 0), On("members/remove", ann, 1, 3)),
    Plan(Room, Ask("notice/translation/draft", cel, 3), Ask("notice/list", dan, 0),
               On("notice/show", dan, 0, 1)),
    Plan(Room, On("members/remove", ann, 1, 3), Ask("changePasswordForm", cel, 3),
               Ask("settings/set-privacy", bob, 2)) }
=============================================================================
