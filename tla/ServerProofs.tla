---------------------------- MODULE ServerProofs ----------------------------
(***************************************************************************)
(* Proofs about the server process: for any number of processes that share *)
(* a repository, however often they are started and killed, the room keeps *)
(* its identity; and whoever Server.Close tells that all went well is      *)
(* right, in any order of its two callers.                                 *)
(***************************************************************************)
EXTENDS Server, TLAPS

(* The types, apart: the files, the processes, what is counted. *)
Disk == [secret: Nat, cookies: Seq(Nat), csrf: {NoFile, Torn, Whole}]
DiskOK == disk \in Disk /\ made \in Nat /\ made >= Torn
CloseStages == {"none", "waits", "cancelled", "closes"}
BootOK ==
    /\ pc \in [Processes -> Stages]
    /\ mem \in [Processes -> Memory]
AddressOK ==
    /\ socket \in Processes \cup {0} /\ http \in Processes \cup {0}
    /\ \A p \in Processes : pc[p] = "off" => socket # p /\ http # p
StopOK ==
    /\ stop \in [Processes -> CloseStages]
    /\ close \in [Processes -> Closing]
    /\ sess \in [Processes -> SUBSET Kinds]
CountsOK ==
    /\ starts \in Nat /\ rotations \in Nat /\ signals \in Nat
    /\ served \subseteq Nat /\ raced \in BOOLEAN

(* The type invariant by parts, so that each step is asked only about what it touches. *)
LEMMA TypeParts == TypeOK <=> DiskOK /\ BootOK /\ AddressOK /\ StopOK /\ CountsOK
BY DEF TypeOK, DiskOK, BootOK, AddressOK, StopOK, CountsOK, Disk, CloseStages

(* The pairs of keys that are read from a file are numbers again. *)
LEMMA ChunksType ==
    ASSUME NEW secrets \in Seq(Nat)
    PROVE  Chunks(secrets) \in Seq(Nat)
<1>1. Len(secrets) \in Nat
  OBVIOUS
<1>2. \A i \in 1..Len(secrets) : (IF i = 1 THEN 1 ELSE i - 1) \in 1..Len(secrets)
  BY <1>1
<1>3. \A i \in 1..Len(secrets) : secrets[IF i = 1 THEN 1 ELSE i - 1] \in Nat
  BY <1>2
<1>4. Chunks(secrets) \in [1..Len(secrets) -> Nat]
  BY <1>3 DEF Chunks
<1>. QED
  BY <1>1, <1>4

(* What is written to the files are keys. *)
LEMMA DiskTypes ==
    ASSUME NEW d \in Disk, NEW k \in Nat
    PROVE  /\ [d EXCEPT !.secret = k] \in Disk
           /\ \A c \in Seq(Nat) : [d EXCEPT !.cookies = c] \in Disk
           /\ \A c \in {NoFile, Torn, Whole} : [d EXCEPT !.csrf = c] \in Disk
           /\ [d EXCEPT !.cookies = <<k>> \o @] \in Disk
<1>1. d.cookies \in Seq(Nat)
  BY DEF Disk
<1>2. <<k>> \o d.cookies \in Seq(Nat)
  BY <1>1
<1>. QED
  BY <1>2 DEF Disk

(* Every step leaves files with keys in them. *)
LEMMA FilesKept == TypeOK /\ [Next]_vars => DiskOK'
<1>. SUFFICES ASSUME TypeOK, [Next]_vars PROVE DiskOK'
  OBVIOUS
<1>0. /\ disk \in Disk /\ made \in Nat /\ made + 1 \in Nat /\ made >= Torn /\ made + 1 >= Torn
      /\ Torn \in Nat
  BY TypeParts DEF DiskOK, Torn
<1>. USE DEF DiskOK
<1>1. CASE UNCHANGED <<disk, made>>
  BY <1>0, <1>1
<1>2. ASSUME NEW p \in Processes, CreateKeyFile(p) \/ EncodeKeyPair(p) PROVE DiskOK'
  BY <1>0, <1>2, DiskTypes DEF CreateKeyFile, EncodeKeyPair, NewKeyPair
<1>3. ASSUME NEW p \in Processes, CreateCookieFile(p) \/ WriteCookieFile(p) PROVE DiskOK'
  <2>1. <<>> \in Seq(Nat) /\ <<Torn>> \in Seq(Nat) /\ <<made + 1>> \in Seq(Nat)
    BY <1>0
  <2>. QED
    BY <1>0, <1>3, <2>1, DiskTypes DEF CreateCookieFile, WriteCookieFile
<1>4. ASSUME NEW p \in Processes, WriteCSRFFile(p) PROVE DiskOK'
  BY <1>0, <1>4, DiskTypes DEF WriteCSRFFile
<1>5. CASE Rotate
  BY <1>0, <1>5, DiskTypes DEF Rotate
<1>6. CASE UNCHANGED vars
  BY <1>1, <1>6 DEF vars
<1>7. ASSUME NEW p \in Processes, DefaultKeyPair(p) PROVE DiskOK'
  BY <1>1, <1>2, <1>7 DEF DefaultKeyPair, LoadKeyPair, SaveKeyPair
<1>8. ASSUME NEW p \in Processes, NewHandlers(p) PROVE DiskOK'
  BY <1>1, <1>3, <1>4, <1>8 DEF NewHandlers, NewLanguages, LoadCookieSecrets, LoadCSRFSecret
<1>9. ASSUME NEW p \in Processes, Boots(p) PROVE DiskOK'
  BY <1>1, <1>7, <1>8, <1>9
  DEF Boots, OpenDatabase, New, DialSocket, BindSocket, ListenHTTP, Serve
<1>10. ASSUME NEW p \in Processes,
              Start(p) \/ Sessions(p) \/ Signal(p) \/ Stops(p) \/ Crash(p)
       PROVE  DiskOK'
  BY <1>1, <1>10
  DEF Start, Sessions, AcceptTCP, AcceptUnix, UpgradeWebsocket, EndSession, Opened, Signal,
      Stops, Slept, LeaveServe, ServeReturns, EnterClose, LockListener, CloseNetwork, CloseClosers,
      Leave, Crash, Unchanged
<1>. QED
  BY <1>5, <1>6, <1>9, <1>10 DEF Next

(* A process that is gone, and one that got through a stage. *)
LEMMA ExitTypes ==
    ASSUME BootOK, AddressOK, StopOK, NEW p \in Processes, Exit(p)
    PROVE  BootOK' /\ AddressOK' /\ StopOK'
<1>1. Blank \in Memory
  BY DEF Blank, Memory
<1>2. NotClosing \in Closing
  BY DEF NotClosing, Closing, Callers
<1>3. BootOK'
  BY <1>1 DEF BootOK, Exit, Goto, Stages
<1>4. StopOK'
  BY <1>2 DEF StopOK, Exit, CloseStages
<1>5. socket' \in (Processes \cup {0}) \ {p} /\ http' \in (Processes \cup {0}) \ {p}
  BY ServerAssumption DEF AddressOK, Exit, Freed
<1>6. \A q \in Processes : q # p => pc'[q] = pc[q]
  BY DEF BootOK, Exit, Goto
<1>7. \A q \in Processes : pc'[q] = "off" => socket' # q /\ http' # q
  BY <1>5, <1>6, ServerAssumption DEF AddressOK, Exit, Freed
<1>8. AddressOK'
  BY <1>5, <1>7 DEF AddressOK
<1>. QED
  BY <1>3, <1>4, <1>8

(* A process that only goes on keeps the types, and the addresses it has. *)
LEMMA GotoTypes ==
    ASSUME BootOK, AddressOK, NEW p \in Processes, NEW next \in Stages \ {"off"},
           pc[p] # "off", Goto(p, next), UNCHANGED <<socket, http>>
    PROVE  pc' \in [Processes -> Stages] /\ AddressOK'
<1>1. pc' \in [Processes -> Stages] /\ \A q \in Processes : pc'[q] = "off" => pc[q] = "off"
  BY DEF BootOK, Goto
<1>2. socket' = socket /\ http' = http
  OBVIOUS
<1>. QED
  BY <1>1, <1>2 DEF AddressOK

(* So does a stage of the start that reads nothing into the memory. *)
LEMMA PassTypes ==
    ASSUME BootOK, AddressOK, StopOK, NEW p \in Processes, NEW stage,
           NEW next \in Stages \ {"off"}, stage # "off", Pass(p, stage, next)
    PROVE  BootOK' /\ AddressOK' /\ StopOK'
<1>1. pc' \in [Processes -> Stages] /\ AddressOK'
  BY GotoTypes DEF Pass, At, Running
<1>. QED
  BY <1>1 DEF Pass, Running, BootOK, StopOK

(* What a process remembers has its type. *)
LEMMA MemoryTypes ==
    ASSUME BootOK, NEW p \in Processes
    PROVE  /\ \A k \in Nat : [mem EXCEPT ![p].id = k] \in [Processes -> Memory]
           /\ \A c \in Seq(Nat) : [mem EXCEPT ![p].codecs = c] \in [Processes -> Memory]
           /\ \A s \in BOOLEAN : [mem EXCEPT ![p].sock = s] \in [Processes -> Memory]
<1>1. mem[p] \in Memory
  BY DEF BootOK
<1>2. /\ \A k \in Nat : [mem[p] EXCEPT !.id = k] \in Memory
      /\ \A c \in Seq(Nat) : [mem[p] EXCEPT !.codecs = c] \in Memory
      /\ \A s \in BOOLEAN : [mem[p] EXCEPT !.sock = s] \in Memory
  BY <1>1 DEF Memory
<1>. QED
  BY <1>2 DEF BootOK

(* The listener of the network is opened and closed. *)
LEMMA ListenTypes ==
    ASSUME StopOK, NEW p \in Processes, NEW open \in BOOLEAN
    PROVE  [close EXCEPT ![p].lis = open] \in [Processes -> Closing]
<1>1. [close[p] EXCEPT !.lis = open] \in Closing
  BY DEF StopOK, Closing
<1>. QED
  BY <1>1 DEF StopOK

(* The start of a process keeps the types of the processes. *)
LEMMA BootTypes ==
    ASSUME TypeOK, NEW p \in Processes, Boots(p)
    PROVE  BootOK' /\ AddressOK' /\ StopOK'
<1>0. BootOK /\ AddressOK /\ StopOK /\ DiskOK
  BY TypeParts
<1>1. CASE Exit(p)
  BY <1>0, <1>1, ExitTypes
<1>2. ASSUME NEW stage \in Stages \ {"off"}, NEW next \in Stages \ {"off"},
             Pass(p, stage, next)
      PROVE  BootOK' /\ AddressOK' /\ StopOK'
  BY <1>0, <1>2, PassTypes
<1>3. CASE DefaultKeyPair(p)
  <2>1. CASE LoadKeyPair(p)
    <3>1. ASSUME disk.secret > Torn, At(p, "load key"), Goto(p, "open"), UNCHANGED Running,
                 mem' = [mem EXCEPT ![p].id = disk.secret]
          PROVE  BootOK' /\ AddressOK' /\ StopOK'
      <4>1. pc' \in [Processes -> Stages] /\ AddressOK'
        BY <1>0, <3>1, GotoTypes DEF At, Running, Stages
      <4>2. disk.secret \in Nat
        BY <1>0 DEF DiskOK, Disk
      <4>. QED
        BY <1>0, <3>1, <4>1, <4>2, MemoryTypes DEF BootOK, StopOK, Running
    <3>. QED
      BY <1>1, <1>2, <2>1, <3>1 DEF LoadKeyPair, Refuse, Stages
  <2>2. CASE SaveKeyPair(p)
    BY <1>1, <1>2, <2>2 DEF SaveKeyPair, Refuse, Stages
  <2>3. CASE CreateKeyFile(p)
    BY <1>2, <2>3 DEF CreateKeyFile, Stages
  <2>4. CASE EncodeKeyPair(p)
    <3>1. ASSUME At(p, "write key"), Goto(p, "open"), UNCHANGED Running, made' = NewKeyPair,
                 mem' = [mem EXCEPT ![p].id = made']
          PROVE  BootOK' /\ AddressOK' /\ StopOK'
      <4>1. pc' \in [Processes -> Stages] /\ AddressOK'
        BY <1>0, <3>1, GotoTypes DEF At, Running, Stages
      <4>2. made' = made + 1
        BY <3>1 DEF NewKeyPair
      <4>3. made' \in Nat
        BY <1>0, <4>2 DEF DiskOK
      <4>. QED
        BY <1>0, <3>1, <4>1, <4>3, MemoryTypes DEF BootOK, StopOK, Running
    <3>. QED
      BY <1>1, <2>4, <3>1 DEF EncodeKeyPair, Refuse
  <2>. QED
    BY <1>3, <2>1, <2>2, <2>3, <2>4 DEF DefaultKeyPair
<1>4. CASE OpenDatabase(p) \/ DialSocket(p)
  BY <1>1, <1>2, <1>4 DEF OpenDatabase, DialSocket, Refuse, Stages
<1>5. CASE New(p)
  <2>1. /\ "new" \in Stages \ {"off"}
        /\ (IF mem[p].sock THEN "dial" ELSE "listen") \in Stages \ {"off"}
    BY DEF Stages
  <2>. QED
    BY <1>1, <1>2, <1>5, <2>1 DEF New, Refuse
<1>6. CASE BindSocket(p)
  <2>1. CASE At(p, "bind") /\ Goto(p, "listen") /\ socket' = p
             /\ close' = [close EXCEPT ![p].unix = TRUE] /\ UNCHANGED <<mem, http, stop, sess>>
    <3>1. pc' \in [Processes -> Stages]
      BY <1>0, <2>1 DEF BootOK, Goto, Stages
    <3>2. AddressOK'
      BY <1>0, <2>1 DEF BootOK, AddressOK, At, Goto
    <3>3. [close[p] EXCEPT !.unix = TRUE] \in Closing
      BY <1>0 DEF StopOK, Closing
    <3>. QED
      BY <1>0, <2>1, <3>1, <3>2, <3>3 DEF BootOK, StopOK
  <2>. QED
    BY <1>1, <1>6, <2>1 DEF BindSocket, Refuse
<1>7. CASE ListenHTTP(p) /\ http = 0
  <2>1. CASE At(p, "listen") /\ Goto(p, "languages") /\ http' = p
             /\ stop' = [stop EXCEPT ![p] = "waits"] /\ UNCHANGED <<mem, socket, close, sess>>
    <3>1. pc' \in [Processes -> Stages]
      BY <1>0, <2>1 DEF BootOK, Goto, Stages
    <3>2. AddressOK'
      BY <1>0, <2>1 DEF BootOK, AddressOK, At, Goto
    <3>. QED
      BY <1>0, <2>1, <3>1, <3>2 DEF BootOK, StopOK, CloseStages
  <2>. QED
    BY <1>7, <2>1 DEF ListenHTTP
<1>8. CASE ListenHTTP(p) /\ http # 0
  BY <1>1, <1>8 DEF ListenHTTP, Refuse
<1>9. CASE NewHandlers(p)
  <2>1. ASSUME NEW stage \in Stages \ {"off"}, NEW next \in Stages \ {"off"},
               LoadCookieSecrets(p, stage, next)
        PROVE  BootOK' /\ AddressOK' /\ StopOK'
    <3>1. ASSUME At(p, stage), Goto(p, next), UNCHANGED Running,
                 mem' = [mem EXCEPT ![p].codecs = Chunks(disk.cookies)]
          PROVE  BootOK' /\ AddressOK' /\ StopOK'
      <4>1. pc' \in [Processes -> Stages] /\ AddressOK'
        BY <1>0, <3>1, GotoTypes DEF At, Running
      <4>2. Chunks(disk.cookies) \in Seq(Nat)
        BY <1>0, ChunksType DEF DiskOK, Disk
      <4>. QED
        BY <1>0, <3>1, <4>1, <4>2, MemoryTypes DEF BootOK, StopOK, Running
    <3>. QED
      BY <1>1, <1>2, <2>1, <3>1 DEF LoadCookieSecrets, Refuse, Stages
  <2>2. CASE NewLanguages(p) \/ LoadCookieSecrets(p, "cookies", "csrf")
    BY <2>1, <2>2 DEF NewLanguages, Stages
  <2>3. CASE CreateCookieFile(p) \/ WriteCookieFile(p)
    BY <1>1, <1>2, <2>3 DEF CreateCookieFile, WriteCookieFile, Refuse, Stages
  <2>4. CASE LoadCSRFSecret(p) \/ WriteCSRFFile(p)
    BY <1>1, <1>2, <2>4 DEF LoadCSRFSecret, WriteCSRFFile, Refuse, Stages
  <2>. QED
    BY <1>9, <2>2, <2>3, <2>4 DEF NewHandlers
<1>10. CASE Serve(p)
  <2>1. pc' \in [Processes -> Stages] /\ AddressOK'
    BY <1>0, <1>10, GotoTypes DEF Serve, At, Stages
  <2>. QED
    BY <1>0, <1>10, <2>1, ListenTypes DEF Serve, BootOK, StopOK
<1>. QED
  BY <1>3, <1>4, <1>5, <1>6, <1>7, <1>8, <1>9, <1>10 DEF Boots

(* So do the ways to stop it. *)
LEMMA AnswerTypes ==
    ASSUME NEW c \in Closing, c.by \in Callers, NEW err \in BOOLEAN
    PROVE  /\ Answer(c, err) \in Closing
           /\ [Answer(c, err) EXCEPT !.unix = FALSE] \in Closing
           /\ [Answer(c, err) EXCEPT !.lis = FALSE] \in Closing
<1>1. [c.answers EXCEPT ![c.by] = "error"] \in [Callers -> {"none", "nil", "error"}]
      /\ [c.answers EXCEPT ![c.by] = "nil"] \in [Callers -> {"none", "nil", "error"}]
  BY DEF Closing
<1>2. Answer(c, err) \in Closing
  BY <1>1 DEF Answer, Closing
<1>. QED
  BY <1>2 DEF Closing

(* The steps of the stop keep the types. *)
LEMMA StopTypes ==
    ASSUME TypeOK, NEW p \in Processes, Stops(p)
    PROVE  BootOK' /\ AddressOK' /\ StopOK'
<1>0. BootOK /\ AddressOK /\ StopOK
  BY TypeParts
<1>1. CASE Leave(p)
  BY <1>0, <1>1, ExitTypes DEF Leave
<1>2. CASE LeaveServe(p)
  BY <1>0, <1>2, PassTypes DEF LeaveServe, Stages
<1>3. CASE Slept(p)
  BY <1>0, <1>3 DEF Slept, BootOK, AddressOK, StopOK, CloseStages
<1>4. close[p] \in Closing
  BY <1>0 DEF StopOK
<1>5. ASSUME NEW c \in Callers, EnterClose(p, c) PROVE BootOK' /\ AddressOK' /\ StopOK'
  <2>1. \A a \in {"nil", "error"} :
           [close[p].answers EXCEPT ![c] = a] \in [Callers -> {"none", "nil", "error"}]
    BY <1>4 DEF Closing
  <2>2. \A a \in {"nil", "error"} : [close[p] EXCEPT !.answers[c] = a] \in Closing
    BY <1>4, <2>1 DEF Closing
  <2>3. [close[p] EXCEPT !.by = c, !.at = "network", !.closed = TRUE] \in Closing
    BY <1>4 DEF Closing
  <2>4. close' \in [Processes -> Closing]
    <3>1. CASE close[p].closed /\ close[p].err
      BY <1>0, <1>5, <2>2, <3>1 DEF EnterClose, StopOK
    <3>2. CASE close[p].closed /\ ~close[p].err
      BY <1>0, <1>5, <2>2, <3>2 DEF EnterClose, StopOK
    <3>3. CASE ~close[p].closed
      BY <1>0, <1>5, <2>3, <3>3 DEF EnterClose, StopOK
    <3>. QED
      BY <3>1, <3>2, <3>3
  <2>. QED
    BY <1>0, <1>5, <2>4 DEF EnterClose, BootOK, AddressOK, StopOK
<1>6. CASE CloseNetwork(p)
  <2>1. [close[p] EXCEPT !.at = "closers", !.network = TRUE, !.lis = FALSE] \in Closing
    BY <1>4 DEF Closing
  <2>2. [Answer(close[p], TRUE) EXCEPT !.lis = FALSE] \in Closing
    BY <1>4, <1>6, AnswerTypes DEF CloseNetwork, ListenerLocked
  <2>3. close' \in [Processes -> Closing]
    BY <1>0, <1>6, <2>1, <2>2 DEF CloseNetwork, StopOK
  <2>4. sess' \in [Processes -> SUBSET Kinds]
    <3>1. sess' = sess \/ sess' = [sess EXCEPT ![p] = @ \ {"tcp"}]
      BY <1>6 DEF CloseNetwork
    <3>. QED
      BY <1>0, <3>1 DEF StopOK
  <2>5. UNCHANGED <<pc, mem, socket, http, stop>>
    BY <1>6 DEF CloseNetwork
  <2>. QED
    BY <1>0, <2>3, <2>4, <2>5 DEF BootOK, AddressOK, StopOK
<1>7. CASE CloseClosers(p)
  <2>1. \A err \in BOOLEAN : [Answer(close[p], err) EXCEPT !.unix = FALSE] \in Closing
    BY <1>4, <1>7, AnswerTypes DEF CloseClosers
  <2>2. close' \in [Processes -> Closing]
    BY <1>0, <1>7, <2>1 DEF CloseClosers, StopOK
  <2>3. AddressOK'
    BY <1>0, <1>7, ServerAssumption DEF CloseClosers, AddressOK
  <2>. QED
    BY <1>0, <1>7, <2>2, <2>3 DEF CloseClosers, BootOK, StopOK
<1>8. CASE ServeReturns(p)
  <2>1. pc' \in [Processes -> Stages] /\ AddressOK'
    BY <1>0, <1>8, GotoTypes DEF ServeReturns, At, Stages
  <2>. QED
    BY <1>0, <1>8, <2>1, ListenTypes DEF ServeReturns, BootOK, StopOK
<1>9. CASE LockListener(p)
  <2>1. [close[p] EXCEPT !.at = "locked"] \in Closing
    BY <1>4 DEF Closing
  <2>. QED
    BY <1>0, <1>9, <2>1 DEF LockListener, BootOK, AddressOK, StopOK
<1>. QED
  BY <1>1, <1>2, <1>3, <1>5, <1>6, <1>7, <1>8, <1>9 DEF Stops

(* What is counted stays a number, and what is recorded too. *)
LEMMA CountsKept == TypeOK /\ [Next]_vars => CountsOK'
<1>. SUFFICES ASSUME TypeOK, [Next]_vars PROVE CountsOK'
  OBVIOUS
<1>0. CountsOK
  BY TypeParts
<1>1. CASE UNCHANGED <<Kept, raced>>
  BY <1>0, <1>1 DEF CountsOK, Kept
<1>2. ASSUME NEW p \in Processes, SaveKeyPair(p) PROVE CountsOK'
  BY <1>0, <1>2 DEF SaveKeyPair, CountsOK, Kept
<1>3. ASSUME NEW p \in Processes, Serve(p) PROVE CountsOK'
  <2>1. mem[p].id \in Nat
    BY TypeParts DEF BootOK, Memory
  <2>. QED
    BY <1>0, <1>3, <2>1 DEF Serve, CountsOK
<1>4. ASSUME NEW p \in Processes, Start(p) \/ Signal(p) PROVE CountsOK'
  <2>1. starts' \in Nat /\ signals' \in Nat
    <3>1. CASE Start(p)
      <4>1. starts' = starts + 1 /\ signals' = signals
        BY <3>1, Zenon DEF Start
      <4>. QED
        BY <1>0, <4>1 DEF CountsOK
    <3>2. CASE Signal(p)
      BY <1>0, <3>2 DEF Signal, CountsOK
    <3>. QED
      BY <1>4, <3>1, <3>2
  <2>2. UNCHANGED <<rotations, served, raced>>
    BY <1>4 DEF Start, Signal
  <2>. QED
    BY <1>0, <2>1, <2>2 DEF CountsOK
<1>5. CASE Rotate
  BY <1>0, <1>5 DEF Rotate, CountsOK
<1>6. CASE UNCHANGED vars
  BY <1>0, <1>6 DEF vars, CountsOK
<1>7. ASSUME NEW p \in Processes, Boots(p) PROVE CountsOK'
  BY <1>1, <1>2, <1>3, <1>7
  DEF Boots, DefaultKeyPair, LoadKeyPair, CreateKeyFile, EncodeKeyPair, OpenDatabase, New,
      DialSocket, BindSocket, ListenHTTP, NewHandlers, NewLanguages, LoadCookieSecrets,
      CreateCookieFile, WriteCookieFile, LoadCSRFSecret, WriteCSRFFile
<1>8. ASSUME NEW p \in Processes, Sessions(p) \/ Stops(p) \/ Crash(p) PROVE CountsOK'
  BY <1>1, <1>8
  DEF Sessions, AcceptTCP, AcceptUnix, UpgradeWebsocket, EndSession, Opened, Stops, Slept,
      LeaveServe, ServeReturns, EnterClose, LockListener, CloseNetwork, CloseClosers, Leave, Crash,
      Unchanged
<1>. QED
  BY <1>4, <1>5, <1>6, <1>7, <1>8 DEF Next

\* The types of the server's state hold for any number of processes.
THEOREM TypeCorrect == Spec => []TypeOK
<1>1. Init => TypeOK
  <2>. SUFFICES ASSUME Init PROVE TypeOK
    OBVIOUS
  <2>1. Blank \in Memory /\ NotClosing \in Closing
    BY DEF Blank, Memory, NotClosing, Closing, Callers
  <2>2. disk \in [secret: Nat, cookies: Seq(Nat), csrf: {NoFile, Torn, Whole}]
    BY DEF Init, NoFile
  <2>3. starts \in Nat /\ rotations \in Nat /\ signals \in Nat /\ served \subseteq Nat
    BY DEF Init
  <2>4. raced \in BOOLEAN
    BY DEF Init
  <2>5. \A p \in Processes : socket # p /\ http # p
    BY ServerAssumption DEF Init
  <2>. QED
    BY <2>1, <2>2, <2>3, <2>4, <2>5 DEF Init, TypeOK, Torn, Stages
<1>2. TypeOK /\ [Next]_vars => TypeOK'
  <2>. SUFFICES ASSUME TypeOK, [Next]_vars PROVE TypeOK'
    OBVIOUS
  <2>0. BootOK /\ AddressOK /\ StopOK /\ CountsOK
    BY TypeParts
  <2>1. BootOK' /\ AddressOK' /\ StopOK'
    <3>1. ASSUME NEW p \in Processes, Start(p) PROVE BootOK' /\ AddressOK' /\ StopOK'
      <4>1. mem' \in [Processes -> Memory]
        <5>1. PICK sock \in BOOLEAN : mem' = [mem EXCEPT ![p].sock = sock]
          BY <3>1, ServerAssumption DEF Start
        <5>. QED
          BY <2>0, <5>1, MemoryTypes
      <4>2. pc' \in [Processes -> Stages] /\ AddressOK'
        BY <2>0, <3>1 DEF Start, At, Goto, Running, BootOK, AddressOK, Stages
      <4>. QED
        BY <2>0, <3>1, <4>1, <4>2 DEF Start, Running, BootOK, StopOK
    <3>2. ASSUME NEW p \in Processes, Sessions(p) PROVE BootOK' /\ AddressOK' /\ StopOK'
      <4>1. UNCHANGED <<pc, mem, socket, http, stop, close>>
        BY <3>2 DEF Sessions, AcceptTCP, AcceptUnix, UpgradeWebsocket, Opened, EndSession
      <4>2. sess' \in [Processes -> SUBSET Kinds]
        BY <2>0, <3>2
        DEF Sessions, AcceptTCP, AcceptUnix, UpgradeWebsocket, Opened, EndSession, StopOK, Kinds
      <4>. QED
        BY <2>0, <4>1, <4>2 DEF BootOK, AddressOK, StopOK
    <3>3. ASSUME NEW p \in Processes, Signal(p) PROVE BootOK' /\ AddressOK' /\ StopOK'
      <4>1. BootOK' /\ StopOK'
        BY <2>0, <3>3 DEF Signal, BootOK, StopOK, CloseStages
      <4>2. AddressOK'
        BY <2>0, <3>3, ServerAssumption DEF Signal, Freed, AddressOK
      <4>. QED
        BY <4>1, <4>2
    <3>4. ASSUME NEW p \in Processes, Crash(p) PROVE BootOK' /\ AddressOK' /\ StopOK'
      BY <2>0, <3>4, ExitTypes DEF Crash
    <3>5. CASE Rotate \/ UNCHANGED vars
      BY <2>0, <3>5 DEF Rotate, Running, vars, BootOK, AddressOK, StopOK
    <3>. QED
      BY <3>1, <3>2, <3>3, <3>4, <3>5, BootTypes, StopTypes DEF Next
  <2>2. CountsOK'
    BY CountsKept
  <2>. QED
    BY <2>1, <2>2, FilesKept
    DEF TypeOK, DiskOK, Disk, BootOK, AddressOK, StopOK, CloseStages, CountsOK
<1>. QED
  BY <1>1, <1>2, PTL DEF Spec

-----------------------------------------------------------------------------
(***************************************************************************)
(* The identity.  Unless two first starts raced, one process at most is    *)
(* between the second look for the file and its end, the file is not there *)
(* or a piece meanwhile, and so nobody has an identity; whoever got past   *)
(* has the one that is in the file.                                        *)
(***************************************************************************)
Creating == {"create key", "write key"}
Knowing == Stages \ {"off", "load key", "stat", "create key", "write key"}

OneIdentity ==
    ~raced =>
        /\ \A p, q \in Processes : pc[p] \in Creating /\ pc[q] \in Creating => p = q
        /\ \A p \in Processes : pc[p] = "create key" => disk.secret = NoFile
        /\ \A p \in Processes : pc[p] = "write key" => disk.secret = Torn
        /\ \A p \in Processes : pc[p] \in Knowing => mem[p].id = disk.secret
        /\ \A p \in Processes : pc[p] \in Knowing => disk.secret > Torn
        /\ \A id \in served : id = disk.secret
        /\ served # {} => disk.secret > Torn

(* A step after which the process knows no more than before, of a file     *)
(* that stays.                                                             *)
LEMMA IdentityStays ==
    ASSUME TypeOK, OneIdentity, NEW p \in Processes,
           disk'.secret = disk.secret, raced' = raced, served' = served,
           \A q \in Processes : q # p => pc'[q] = pc[q] /\ mem'[q].id = mem[q].id,
           \/ pc'[p] \in {"off", "load key", "stat"}
           \/ pc'[p] = pc[p] /\ mem'[p].id = mem[p].id
           \/ pc[p] \in Knowing /\ pc'[p] \in Knowing /\ mem'[p].id = mem[p].id
    PROVE  OneIdentity'
BY DEF OneIdentity, Creating, Knowing

(* A stage after the identity is known, with the file left alone, changes no identity. *)
LEMMA PassIdentity ==
    ASSUME TypeOK, OneIdentity, NEW p \in Processes, NEW stage \in Knowing, NEW next \in Knowing,
           Pass(p, stage, next), disk'.secret = disk.secret, raced' = raced, served' = served
    PROVE  OneIdentity'
<1>1. pc[p] = stage /\ pc'[p] = next /\ \A q \in Processes : q # p => pc'[q] = pc[q]
  BY TypeParts DEF Pass, At, Goto, BootOK
<1>2. mem' = mem
  BY DEF Pass
<1>. QED
  BY <1>1, <1>2, IdentityStays

(* A process that ends, or is killed, takes its identity along and leaves the file. *)
LEMMA ExitIdentity ==
    ASSUME TypeOK, OneIdentity, NEW p \in Processes, Exit(p),
           disk'.secret = disk.secret, raced' = raced, served' = served
    PROVE  OneIdentity'
<1>1. pc'[p] = "off" /\ \A q \in Processes : q # p => pc'[q] = pc[q] /\ mem'[q] = mem[q]
  BY TypeParts DEF Exit, Goto, BootOK
<1>. QED
  BY <1>1, IdentityStays

(* What writes the other files leaves the identity alone. *)
LEMMA OtherFiles ==
    ASSUME NEW d \in Disk
    PROVE  /\ \A c : [d EXCEPT !.cookies = c].secret = d.secret
           /\ \A c : [d EXCEPT !.csrf = c].secret = d.secret
BY DEF Disk

(* The steps that look for the identity, create it and load it. *)
LEMMA KeyIdentity ==
    ASSUME TypeOK, OneIdentity, NEW p \in Processes, DefaultKeyPair(p)
    PROVE  OneIdentity'
<1>0. BootOK /\ DiskOK
  BY TypeParts
<1>files. ~(NoFile > Torn) /\ ~(Torn > Torn) /\ NoFile # Torn
  BY DEF NoFile, Torn
<1>1. CASE Exit(p) /\ disk' = disk /\ raced' = raced /\ served' = served
  BY <1>1, ExitIdentity
<1>2. ASSUME NEW stage, NEW next, At(p, stage), Goto(p, next)
      PROVE  /\ pc[p] = stage /\ pc'[p] = next
             /\ \A q \in Processes : q # p => pc'[q] = pc[q]
  BY <1>0, <1>2 DEF At, Goto, BootOK
<1>3. ASSUME LoadKeyPair(p), ~Exit(p) PROVE OneIdentity'
  <2>1. UNCHANGED <<disk, raced, served>>
    BY <1>3 DEF LoadKeyPair, Kept
  <2>2. CASE Pass(p, "load key", "stat")
    <3>1. pc'[p] = "stat" /\ mem' = mem /\ \A q \in Processes : q # p => pc'[q] = pc[q]
      BY <1>2, <2>2 DEF Pass
    <3>. QED
      BY <2>1, <3>1, IdentityStays
  <2>3. ASSUME disk.secret > Torn, At(p, "load key"), Goto(p, "open"),
               mem' = [mem EXCEPT ![p].id = disk.secret]
        PROVE  OneIdentity'
    <3>1. pc'[p] = "open" /\ \A q \in Processes : q # p => pc'[q] = pc[q]
      BY <1>2, <2>3
    <3>2. mem'[p].id = disk.secret /\ \A q \in Processes : q # p => mem'[q] = mem[q]
      BY <1>0, <2>3 DEF BootOK, Memory
    <3>. QED
      BY <2>1, <2>3, <3>1, <3>2 DEF OneIdentity, Creating, Knowing, Torn, NoFile
  <2>. QED
    BY <1>3, <2>2, <2>3 DEF LoadKeyPair, Refuse
<1>4. ASSUME SaveKeyPair(p), disk.secret = NoFile PROVE OneIdentity'
  <2>1. UNCHANGED <<disk, served>> /\ disk.secret = NoFile /\ Pass(p, "stat", "create key")
    BY <1>4 DEF SaveKeyPair, Refuse, Kept
  <2>2. /\ pc[p] = "stat" /\ pc'[p] = "create key" /\ mem' = mem
        /\ \A q \in Processes : q # p => pc'[q] = pc[q]
    BY <1>2, <2>1 DEF Pass
  <2>3. ASSUME ~raced' PROVE ~raced /\ \A q \in Processes : q # p => pc[q] # "create key"
    BY <1>4, <2>1, <2>3, TypeParts DEF SaveKeyPair, At, CountsOK
  <2>4. ASSUME ~raced' PROVE \A q \in Processes : pc[q] # "write key" /\ pc[q] \notin Knowing
    <3>1. ~(disk.secret > Torn) /\ disk.secret # Torn
      BY <1>files, <2>1
    <3>. QED
      BY <2>3, <2>4, <3>1 DEF OneIdentity
  <2>. QED
    BY <2>1, <2>2, <2>3, <2>4 DEF OneIdentity, Creating, Knowing
<1>5. ASSUME CreateKeyFile(p) PROVE OneIdentity'
  <2>1. UNCHANGED <<raced, served>> /\ disk'.secret = Torn /\ Pass(p, "create key", "write key")
    BY <1>0, <1>5 DEF CreateKeyFile, DiskOK, Disk, Kept
  <2>2. /\ pc[p] = "create key" /\ pc'[p] = "write key" /\ mem' = mem
        /\ \A q \in Processes : q # p => pc'[q] = pc[q]
    BY <1>2, <2>1 DEF Pass
  <2>3. ASSUME ~raced
        PROVE  /\ served = {}
               /\ \A q \in Processes : q # p => pc[q] \notin Creating /\ pc[q] \notin Knowing
    <3>1. ~(disk.secret > Torn)
      BY <1>files, <2>2, <2>3 DEF OneIdentity
    <3>. QED
      BY <2>2, <2>3, <3>1 DEF OneIdentity, Creating
  <2>. QED
    BY <2>1, <2>2, <2>3 DEF OneIdentity, Creating, Knowing
<1>6. ASSUME EncodeKeyPair(p), ~Exit(p) PROVE OneIdentity'
  <2>1. /\ At(p, "write key") /\ Goto(p, "open") /\ made' = made + 1
        /\ disk' = [disk EXCEPT !.secret = made'] /\ mem' = [mem EXCEPT ![p].id = made']
        /\ UNCHANGED <<raced, served>>
    BY <1>6 DEF EncodeKeyPair, NewKeyPair, Refuse, Kept
  <2>2. pc[p] = "write key" /\ pc'[p] = "open" /\ \A q \in Processes : q # p => pc'[q] = pc[q]
    BY <1>2, <2>1
  <2>3. made' > Torn
    <3>1. made' = made + 1
      BY <2>1
    <3>. QED
      BY <1>0, <3>1 DEF DiskOK, Torn
  <2>4. disk'.secret = made'
    BY <1>0, <2>1 DEF DiskOK, Disk
  <2>5. mem'[p].id = made' /\ \A q \in Processes : q # p => mem'[q] = mem[q]
    BY <1>0, <2>1 DEF BootOK, Memory
  <2>6. ASSUME ~raced
        PROVE  /\ served = {}
               /\ \A q \in Processes : q # p => pc[q] \notin Creating /\ pc[q] \notin Knowing
    <3>1. ~(disk.secret > Torn)
      BY <1>files, <2>2, <2>6 DEF OneIdentity
    <3>. QED
      BY <2>2, <2>6, <3>1 DEF OneIdentity, Creating
  <2>7. raced' = raced /\ served' = served
    BY <2>1
  <2>. QED
    BY <2>2, <2>3, <2>4, <2>5, <2>6, <2>7 DEF OneIdentity, Creating, Knowing
<1>. QED
  <2>1. CASE LoadKeyPair(p)
    BY <1>1, <1>3, <2>1 DEF LoadKeyPair, Kept
  <2>2. CASE SaveKeyPair(p) /\ disk.secret # NoFile
    <3>1. Exit(p) /\ disk' = disk /\ served' = served
      BY <2>2 DEF SaveKeyPair, Refuse, Kept
    <3>2. raced' = raced
      BY <2>2, TypeParts DEF SaveKeyPair, CountsOK
    <3>. QED
      BY <1>1, <3>1, <3>2
  <2>3. CASE EncodeKeyPair(p) /\ Exit(p)
    <3>1. CASE Goto(p, "open")
      BY <1>0, <2>3, <3>1 DEF Exit, Goto, BootOK
    <3>. QED
      BY <1>1, <2>3, <3>1 DEF EncodeKeyPair, Kept
  <2>. QED
    BY <1>4, <1>5, <1>6, <2>1, <2>2, <2>3 DEF DefaultKeyPair

(* The rest of the start. *)
LEMMA BootIdentity ==
    ASSUME TypeOK, OneIdentity, NEW p \in Processes, Boots(p)
    PROVE  OneIdentity'
<1>0. BootOK /\ DiskOK
  BY TypeParts
<1>1. CASE DefaultKeyPair(p)
  BY <1>1, KeyIdentity
<1>2. ASSUME NEW stage \in Knowing, NEW next \in Knowing,
             Pass(p, stage, next), disk'.secret = disk.secret, UNCHANGED <<raced, served>>
      PROVE  OneIdentity'
  BY <1>2, PassIdentity
<1>3. ASSUME NEW stage, Refuse(p, stage), disk'.secret = disk.secret, UNCHANGED <<raced, served>>
      PROVE  OneIdentity'
  BY <1>3, ExitIdentity DEF Refuse
<1>4. CASE OpenDatabase(p)
  BY <1>2, <1>3, <1>4 DEF OpenDatabase, Kept, Knowing, Stages
<1>5. CASE New(p)
  <2>1. "new" \in Knowing /\ (IF mem[p].sock THEN "dial" ELSE "listen") \in Knowing
    BY DEF Knowing, Stages
  <2>. QED
    BY <1>2, <1>3, <1>5, <2>1 DEF New, Kept
<1>6. CASE DialSocket(p)
  BY <1>2, <1>3, <1>6 DEF DialSocket, Kept, Knowing, Stages
<1>7. ASSUME NEW stage \in Knowing, NEW next \in Knowing, At(p, stage), Goto(p, next),
             \A q \in Processes : mem'[q].id = mem[q].id,
             disk'.secret = disk.secret, UNCHANGED <<raced, served>>
      PROVE  OneIdentity'
  <2>1. pc[p] = stage /\ pc'[p] = next /\ \A q \in Processes : q # p => pc'[q] = pc[q]
    BY <1>0, <1>7 DEF At, Goto, BootOK
  <2>. QED
    BY <1>7, <2>1, IdentityStays
<1>8. CASE BindSocket(p)
  BY <1>3, <1>7, <1>8 DEF BindSocket, Kept, Knowing, Stages
<1>9. CASE ListenHTTP(p)
  BY <1>3, <1>7, <1>9 DEF ListenHTTP, Kept, Knowing, Stages
<1>10. CASE NewHandlers(p)
  <2>0. /\ \A c : [disk EXCEPT !.cookies = c].secret = disk.secret
        /\ \A c : [disk EXCEPT !.csrf = c].secret = disk.secret
    BY <1>0, OtherFiles DEF DiskOK
  <2>1. ASSUME NEW stage \in Knowing, NEW next \in Knowing, LoadCookieSecrets(p, stage, next)
        PROVE  OneIdentity'
    <3>1. UNCHANGED <<disk, raced, served>>
      BY <2>1 DEF LoadCookieSecrets, Kept
    <3>2. ASSUME At(p, stage), Goto(p, next),
                 mem' = [mem EXCEPT ![p].codecs = Chunks(disk.cookies)]
          PROVE  OneIdentity'
      <4>1. \A q \in Processes : mem'[q].id = mem[q].id
        BY <1>0, <3>2 DEF BootOK, Memory
      <4>. QED
        BY <1>7, <3>1, <3>2, <4>1
    <3>. QED
      BY <1>2, <1>3, <2>1, <3>1, <3>2 DEF LoadCookieSecrets, Knowing, Stages
  <2>2. CASE NewLanguages(p) \/ LoadCookieSecrets(p, "cookies", "csrf")
    BY <2>1, <2>2 DEF NewLanguages, Knowing, Stages
  <2>3. CASE CreateCookieFile(p) \/ WriteCookieFile(p)
    <3>1. disk'.secret = disk.secret /\ UNCHANGED <<raced, served>>
      BY <2>0, <2>3 DEF CreateCookieFile, WriteCookieFile, Kept
    <3>. QED
      BY <1>2, <1>3, <2>3, <3>1 DEF CreateCookieFile, WriteCookieFile, Knowing, Stages
  <2>4. CASE LoadCSRFSecret(p) \/ WriteCSRFFile(p)
    <3>1. disk'.secret = disk.secret /\ UNCHANGED <<raced, served>>
      BY <2>0, <2>4 DEF LoadCSRFSecret, WriteCSRFFile, Kept
    <3>. QED
      BY <1>2, <1>3, <2>4, <3>1 DEF LoadCSRFSecret, WriteCSRFFile, Knowing, Stages
  <2>. QED
    BY <1>10, <2>2, <2>3, <2>4 DEF NewHandlers
<1>11. CASE Serve(p)
  <2>1. pc[p] = "ready" /\ pc'[p] = "serving" /\ \A q \in Processes : q # p => pc'[q] = pc[q]
    BY <1>0, <1>11 DEF Serve, At, Goto, BootOK
  <2>2. UNCHANGED <<mem, disk, raced>> /\ served' = served \cup {mem[p].id}
    BY <1>11 DEF Serve
  <2>3. ~raced => mem[p].id = disk.secret /\ disk.secret > Torn
    BY <2>1 DEF OneIdentity, Knowing, Stages
  <2>. QED
    BY <2>1, <2>2, <2>3 DEF OneIdentity, Creating, Knowing
<1>. QED
  BY <1>1, <1>4, <1>5, <1>6, <1>8, <1>9, <1>10, <1>11 DEF Boots

\* The room keeps its identity for good, whatever happens to its processes and however many
\* there are, unless two first starts looked for the file at once (DefaultKeyPair).
THEOREM KeepsIdentity == Spec => []IdentityKept
<1>1. Init => OneIdentity
  BY DEF Init, OneIdentity, Creating, Knowing
<1>2. TypeOK /\ OneIdentity /\ [Next]_vars => OneIdentity'
  <2>. SUFFICES ASSUME TypeOK, OneIdentity, [Next]_vars PROVE OneIdentity'
    OBVIOUS
  <2>0. BootOK /\ DiskOK
    BY TypeParts
  <2>1. ASSUME NEW p \in Processes, Start(p) PROVE OneIdentity'
    <3>1. pc'[p] = "load key" /\ \A q \in Processes : q # p => pc'[q] = pc[q]
      BY <2>0, <2>1 DEF Start, Goto, BootOK
    <3>2. \A q \in Processes : q # p => mem'[q] = mem[q]
      BY <2>0, <2>1 DEF Start, BootOK
    <3>3. UNCHANGED <<disk, raced, served>>
      BY <2>1 DEF Start
    <3>. QED
      BY <3>1, <3>2, <3>3, IdentityStays
  <2>2. CASE UNCHANGED <<disk, raced, served, pc, mem>>
    BY <2>2 DEF OneIdentity
  <2>3. ASSUME NEW p \in Processes, Sessions(p) \/ Signal(p) PROVE OneIdentity'
    BY <2>2, <2>3
    DEF Sessions, AcceptTCP, AcceptUnix, UpgradeWebsocket, EndSession, Opened, Signal,
        Unchanged, Kept
  <2>4. ASSUME NEW p \in Processes, Stops(p) \/ Crash(p) PROVE OneIdentity'
    <3>1. CASE Exit(p) /\ Unchanged
      BY <3>1, ExitIdentity DEF Unchanged, Kept
    <3>2. CASE LeaveServe(p)
      BY <3>2, PassIdentity DEF LeaveServe, Unchanged, Kept, Knowing, Stages
    <3>3. CASE ServeReturns(p)
      <4>1. pc[p] = "returning" /\ pc'[p] = "closing" /\ \A q \in Processes : q # p => pc'[q] = pc[q]
        BY <2>0, <3>3 DEF ServeReturns, At, Goto, BootOK
      <4>2. UNCHANGED <<mem, disk, raced, served>>
        BY <3>3 DEF ServeReturns, Unchanged, Kept
      <4>. QED
        BY <4>1, <4>2, IdentityStays DEF Knowing, Stages
    <3>. QED
      BY <2>2, <2>4, <3>1, <3>2, <3>3
      DEF Stops, Crash, Leave, Slept, EnterClose, LockListener, CloseNetwork, CloseClosers,
          Unchanged, Kept
  <2>5. CASE Rotate
    <3>1. UNCHANGED <<pc, mem, raced, served>> /\ disk'.secret = disk.secret
      BY <2>0, <2>5, OtherFiles DEF Rotate, DiskOK
    <3>. QED
      BY <3>1 DEF OneIdentity
  <2>6. CASE UNCHANGED vars
    BY <2>2, <2>6 DEF vars
  <2>. QED
    BY <2>1, <2>3, <2>4, <2>5, <2>6, BootIdentity DEF Next
<1>3. OneIdentity => IdentityKept
  BY DEF OneIdentity, IdentityKept
<1>. QED
  BY <1>1, <1>2, <1>3, TypeCorrect, PTL DEF Spec

-----------------------------------------------------------------------------
(***************************************************************************)
(* Server.Close.  Before the socket is bound nobody asks for it; the       *)
(* mutex is with a caller until it answered; and once it was given back    *)
(* without an error, the network and the socket are closed and stay so.    *)
(***************************************************************************)
Early == {"off", "load key", "stat", "create key", "write key", "open", "new", "dial", "bind"}

Closes(p) ==
    /\ pc[p] \in Early => stop[p] = "none" /\ close[p] = NotClosing
    /\ close[p].by \in Callers => close[p].closed /\ close[p].answers[close[p].by] = "none"
    /\ close[p].by \in Callers /\ close[p].at = "closers" => close[p].network
    /\ close[p].closed /\ close[p].by = "nobody" /\ ~close[p].err =>
           close[p].network /\ ~close[p].unix
    /\ \A c \in Callers :
           close[p].answers[c] = "nil" => close[p].network /\ ~close[p].unix

(* Nothing happens to Close, and no process goes back to its start. *)
LEMMA CloseStays ==
    ASSUME \A q \in Processes : Closes(q), close' = close,
           \A q \in Processes : pc'[q] \in Early => pc[q] \in Early /\ stop'[q] = stop[q]
    PROVE  \A q \in Processes : Closes(q)'
BY DEF Closes

(* A stage of the start leaves what Close did, to this process and the others. *)
LEMMA PassCloses ==
    ASSUME TypeOK, \A q \in Processes : Closes(q), NEW p \in Processes,
           NEW stage, NEW next, next \in Early => stage \in Early,
           At(p, stage), Goto(p, next), UNCHANGED <<stop, close>>
    PROVE  \A q \in Processes : Closes(q)'
<1>1. pc[p] = stage /\ pc'[p] = next /\ \A q \in Processes : q # p => pc'[q] = pc[q]
  BY TypeParts DEF At, Goto, BootOK
<1>2. close' = close /\ stop' = stop
  OBVIOUS
<1>. QED
  BY <1>1, <1>2, CloseStays

(* The listener of the network is no part of what is promised. *)
LEMMA ListenCloses ==
    ASSUME TypeOK, \A q \in Processes : Closes(q), NEW p \in Processes, NEW open \in BOOLEAN,
           NEW stage, NEW next, stage \notin Early, next \notin Early, At(p, stage), Goto(p, next),
           close' = [close EXCEPT ![p].lis = open], UNCHANGED stop
    PROVE  \A q \in Processes : Closes(q)'
<1>1. pc[p] = stage /\ pc'[p] = next /\ \A q \in Processes : q # p => pc'[q] = pc[q]
  BY TypeParts DEF At, Goto, BootOK
<1>2. close[p] \in Closing /\ close'[p] = [close[p] EXCEPT !.lis = open]
      /\ \A q \in Processes : q # p => close'[q] = close[q]
  BY TypeParts DEF StopOK
<1>3. /\ close'[p].by = close[p].by /\ close'[p].at = close[p].at
      /\ close'[p].closed = close[p].closed /\ close'[p].err = close[p].err
      /\ close'[p].answers = close[p].answers
      /\ close'[p].network = close[p].network /\ close'[p].unix = close[p].unix
  BY <1>2 DEF Closing
<1>4. Closes(p)'
  BY <1>1, <1>3 DEF Closes
<1>5. \A q \in Processes : q # p => Closes(q)'
  BY <1>1, <1>2 DEF Closes
<1>. QED
  BY <1>4, <1>5

(* A process that is gone is not closing. *)
LEMMA ExitCloses ==
    ASSUME TypeOK, \A q \in Processes : Closes(q), NEW p \in Processes, Exit(p)
    PROVE  \A q \in Processes : Closes(q)'
<1>1. pc'[p] = "off" /\ stop'[p] = "none" /\ close'[p] = NotClosing
  BY TypeParts DEF Exit, Goto, BootOK, StopOK
<1>2. \A q \in Processes : q # p => pc'[q] = pc[q] /\ stop'[q] = stop[q] /\ close'[q] = close[q]
  BY TypeParts DEF Exit, Goto, BootOK, StopOK
<1>3. /\ NotClosing.by = "nobody" /\ ~NotClosing.closed
      /\ \A c \in Callers : NotClosing.answers[c] = "none"
  BY DEF NotClosing
<1>4. "nobody" \notin Callers
  BY DEF Callers
<1>5. Closes(p)'
  BY <1>1, <1>3, <1>4 DEF Closes
<1>6. \A q \in Processes : q # p => Closes(q)'
  BY <1>2 DEF Closes
<1>. QED
  BY <1>5, <1>6

(* A start does not disturb Close, for there is none yet. *)
LEMMA BootCloses ==
    ASSUME TypeOK, \A q \in Processes : Closes(q), NEW p \in Processes, Boots(p)
    PROVE  \A q \in Processes : Closes(q)'
<1>1. ASSUME NEW stage, Refuse(p, stage) PROVE \A q \in Processes : Closes(q)'
  BY <1>1, ExitCloses DEF Refuse
<1>2. ASSUME NEW stage, NEW next, next \in Early => stage \in Early, At(p, stage), Goto(p, next),
             UNCHANGED <<stop, close>>
      PROVE  \A q \in Processes : Closes(q)'
  BY <1>2, PassCloses
<1>3. ASSUME NEW stage, NEW next, next \in Early => stage \in Early, Pass(p, stage, next)
      PROVE  \A q \in Processes : Closes(q)'
  BY <1>2, <1>3 DEF Pass, Running
<1>4. CASE DefaultKeyPair(p)
  BY <1>1, <1>2, <1>3, <1>4
  DEF DefaultKeyPair, LoadKeyPair, SaveKeyPair, CreateKeyFile, EncodeKeyPair, Early, Running
<1>5. CASE OpenDatabase(p) \/ DialSocket(p)
  BY <1>1, <1>3, <1>5 DEF OpenDatabase, DialSocket, Early
<1>6. CASE New(p)
  <2>1. "new" \in Early
    BY DEF Early
  <2>. QED
    BY <1>1, <1>3, <1>6, <2>1 DEF New
<1>7. CASE BindSocket(p)
  <2>1. CASE At(p, "bind") /\ Goto(p, "listen") /\ close' = [close EXCEPT ![p].unix = TRUE]
             /\ UNCHANGED stop
    <3>1. pc[p] = "bind" /\ pc'[p] = "listen" /\ \A q \in Processes : q # p => pc'[q] = pc[q]
      BY <2>1, TypeParts DEF At, Goto, BootOK
    <3>2. stop' = stop /\ \A q \in Processes : q # p => close'[q] = close[q]
      BY <2>1, TypeParts DEF StopOK
    <3>3. close[p] = NotClosing
      BY <3>1 DEF Closes, Early
    <3>4. close'[p] = [NotClosing EXCEPT !.unix = TRUE]
      BY <2>1, <3>3, TypeParts DEF StopOK
    <3>5. /\ close'[p].by = "nobody" /\ ~close'[p].closed
          /\ \A c \in Callers : close'[p].answers[c] = "none"
      BY <3>4 DEF NotClosing
    <3>6. Closes(p)'
      BY <3>1, <3>5 DEF Closes, Early, Callers
    <3>7. \A q \in Processes : q # p => Closes(q)'
      BY <3>1, <3>2 DEF Closes
    <3>. QED
      BY <3>6, <3>7
  <2>. QED
    BY <1>1, <1>7, <2>1 DEF BindSocket
<1>8. CASE ListenHTTP(p)
  <2>1. ASSUME At(p, "listen"), Goto(p, "languages"), stop' = [stop EXCEPT ![p] = "waits"],
               UNCHANGED <<mem, socket, close, sess>>
        PROVE  \A q \in Processes : Closes(q)'
    <3>1. pc'[p] = "languages" /\ \A q \in Processes : q # p => pc'[q] = pc[q]
      BY <2>1, TypeParts DEF Goto, BootOK
    <3>2. close' = close /\ \A q \in Processes : q # p => stop'[q] = stop[q]
      BY <2>1, TypeParts DEF StopOK
    <3>. QED
      BY <3>1, <3>2, CloseStays DEF Early
  <2>. QED
    BY <1>1, <1>8, <2>1 DEF ListenHTTP
<1>9. CASE NewHandlers(p)
  <2>1. ASSUME NEW stage, NEW next, next \notin Early, LoadCookieSecrets(p, stage, next)
        PROVE  \A q \in Processes : Closes(q)'
    BY <1>1, <1>2, <1>3, <2>1 DEF LoadCookieSecrets, Running, Early
  <2>2. CASE NewLanguages(p) \/ LoadCookieSecrets(p, "cookies", "csrf")
    BY <2>1, <2>2 DEF NewLanguages, Early
  <2>3. CASE CreateCookieFile(p) \/ WriteCookieFile(p) \/ LoadCSRFSecret(p) \/ WriteCSRFFile(p)
    BY <1>1, <1>3, <2>3
    DEF CreateCookieFile, WriteCookieFile, LoadCSRFSecret, WriteCSRFFile, Early
  <2>. QED
    BY <1>9, <2>2, <2>3 DEF NewHandlers
<1>10. CASE Serve(p)
  <2>1. "ready" \notin Early /\ "serving" \notin Early
    BY DEF Early
  <2>. QED
    BY <1>10, <2>1, ListenCloses DEF Serve
<1>. QED
  BY <1>4, <1>5, <1>6, <1>7, <1>8, <1>9, <1>10 DEF Boots

(* A caller is answered what the closing came to. *)
LEMMA AnswerFields ==
    ASSUME NEW c \in Closing, c.by \in Callers, NEW err \in BOOLEAN
    PROVE  /\ Answer(c, err).by = "nobody"
           /\ Answer(c, err).network = c.network /\ Answer(c, err).unix = c.unix
BY DEF Answer, Closing

(* Who held the mutex is told of the error, and nobody else is answered by it. *)
LEMMA AnswerError ==
    ASSUME NEW c \in Closing, c.by \in Callers
    PROVE  /\ Answer(c, TRUE).err
           /\ Answer(c, TRUE).answers[c.by] = "error"
           /\ \A d \in Callers : d # c.by => Answer(c, TRUE).answers[d] = c.answers[d]
BY DEF Answer, Closing

(* The two callers and what is closed in their turn. *)
LEMMA StopCloses ==
    ASSUME TypeOK, \A q \in Processes : Closes(q), NEW p \in Processes, Stops(p)
    PROVE  \A q \in Processes : Closes(q)'
<1>0. StopOK /\ BootOK /\ close[p] \in Closing
  BY TypeParts DEF StopOK
<1>1. CASE Leave(p)
  BY <1>1, ExitCloses DEF Leave
<1>2. CASE LeaveServe(p) \/ ServeReturns(p)
  <2>1. {"ready", "serving", "returning", "closing"} \cap Early = {}
    BY DEF Early
  <2>2. CASE LeaveServe(p)
    BY <2>1, <2>2, PassCloses DEF LeaveServe, Pass, Running
  <2>3. CASE ServeReturns(p)
    BY <2>1, <2>3, ListenCloses DEF ServeReturns
  <2>. QED
    BY <1>2, <2>2, <2>3
<1>3. CASE Slept(p)
  <2>1. pc[p] \notin Early
    BY <1>3 DEF Slept, Closes
  <2>2. close' = close /\ pc' = pc /\ \A q \in Processes : q # p => stop'[q] = stop[q]
    BY <1>0, <1>3 DEF Slept, StopOK
  <2>. QED
    BY <2>1, <2>2, CloseStays
<1>4. ASSUME UNCHANGED <<pc, stop>>, \A q \in Processes : q # p => close'[q] = close[q], Closes(p)'
      PROVE  \A q \in Processes : Closes(q)'
  BY <1>4 DEF Closes
<1>5. ASSUME NEW c \in Callers, EnterClose(p, c) PROVE \A q \in Processes : Closes(q)'
  <2>1. /\ UNCHANGED <<pc, stop>> /\ close[p].by = "nobody" /\ close[p].answers[c] = "none"
        /\ "nobody" \notin Callers
    BY <1>5 DEF EnterClose, Wants, Callers
  <2>2. pc[p] \notin Early
    BY <1>5 DEF EnterClose, Wants, At, Closes, Early
  <2>3. CASE close[p].closed /\ close[p].err
    <3>1. close' = [close EXCEPT ![p] = [@ EXCEPT !.answers[c] = "error"]]
      BY <1>5, <2>3 DEF EnterClose
    <3>2. /\ \A q \in Processes : q # p => close'[q] = close[q]
          /\ close'[p].by = "nobody" /\ close'[p].err
          /\ close'[p].network = close[p].network /\ close'[p].unix = close[p].unix
          /\ \A d \in Callers : close'[p].answers[d] = "nil" => close[p].answers[d] = "nil"
      BY <1>0, <3>1, <2>1, <2>3 DEF StopOK, Closing
    <3>3. Closes(p)'
      BY <2>1, <2>2, <3>2 DEF Closes
    <3>. QED
      BY <1>4, <2>1, <3>2, <3>3
  <2>4. CASE close[p].closed /\ ~close[p].err
    <3>1. close' = [close EXCEPT ![p] = [@ EXCEPT !.answers[c] = "nil"]]
      BY <1>5, <2>4 DEF EnterClose
    <3>2. /\ \A q \in Processes : q # p => close'[q] = close[q]
          /\ close'[p].by = "nobody"
          /\ close'[p].network = close[p].network /\ close'[p].unix = close[p].unix
      BY <1>0, <3>1, <2>1 DEF StopOK, Closing
    <3>3. close[p].network /\ ~close[p].unix
      BY <2>1, <2>4 DEF Closes
    <3>4. Closes(p)'
      BY <2>1, <2>2, <3>2, <3>3 DEF Closes
    <3>. QED
      BY <1>4, <2>1, <3>2, <3>4
  <2>5. CASE ~close[p].closed
    <3>1. close' = [close EXCEPT ![p] = [@ EXCEPT !.by = c, !.at = "network", !.closed = TRUE]]
      BY <1>5, <2>5 DEF EnterClose
    <3>2. /\ \A q \in Processes : q # p => close'[q] = close[q]
          /\ close'[p].by = c /\ close'[p].at = "network" /\ close'[p].closed
          /\ close'[p].network = close[p].network /\ close'[p].unix = close[p].unix
          /\ close'[p].answers = close[p].answers
      BY <1>0, <3>1 DEF StopOK, Closing
    <3>3. Closes(p)'
      BY <2>1, <2>2, <3>2 DEF Closes
    <3>. QED
      BY <1>4, <2>1, <3>2, <3>3
  <2>. QED
    BY <2>3, <2>4, <2>5
<1>6. ASSUME close[p].by \in Callers PROVE pc[p] \notin Early /\ "nobody" \notin Callers
  BY <1>6 DEF Closes, NotClosing, Callers
<1>7. CASE CloseNetwork(p)
  <2>1. close[p].by \in Callers /\ UNCHANGED <<pc, stop>>
    BY <1>7 DEF CloseNetwork, ListenerLocked
  <2>2. CASE close' = [close EXCEPT ![p] = [@ EXCEPT !.at = "closers", !.network = TRUE, !.lis = FALSE]]
    <3>1. /\ \A q \in Processes : q # p => close'[q] = close[q]
          /\ close'[p].by = close[p].by /\ close'[p].at = "closers"
          /\ close'[p].closed = close[p].closed
          /\ close'[p].network /\ close'[p].unix = close[p].unix
          /\ close'[p].answers = close[p].answers
      BY <1>0, <2>2 DEF StopOK, Closing
    <3>2. Closes(p)'
      BY <1>6, <2>1, <3>1 DEF Closes
    <3>. QED
      BY <1>4, <2>1, <3>1, <3>2
  <2>3. CASE close' = [close EXCEPT ![p] = [Answer(@, TRUE) EXCEPT !.lis = FALSE]]
    <3>0. Answer(close[p], TRUE) \in Closing
      BY <1>0, <2>1, AnswerTypes
    <3>4. close'[p] = [Answer(close[p], TRUE) EXCEPT !.lis = FALSE]
          /\ \A q \in Processes : q # p => close'[q] = close[q]
      BY <1>0, <2>3 DEF StopOK
    <3>1. /\ close'[p].by = Answer(close[p], TRUE).by /\ close'[p].err = Answer(close[p], TRUE).err
          /\ close'[p].network = Answer(close[p], TRUE).network
          /\ close'[p].unix = Answer(close[p], TRUE).unix
          /\ close'[p].answers = Answer(close[p], TRUE).answers
      BY <3>0, <3>4 DEF Closing
    <3>2. /\ close'[p].by = "nobody" /\ close'[p].err
          /\ close'[p].network = close[p].network /\ close'[p].unix = close[p].unix
          /\ \A d \in Callers : d # close[p].by => close'[p].answers[d] = close[p].answers[d]
          /\ close'[p].answers[close[p].by] = "error"
      <4>1. Answer(close[p], TRUE).by = "nobody"
        BY <1>0, <2>1, AnswerFields
      <4>2. /\ Answer(close[p], TRUE).network = close[p].network
            /\ Answer(close[p], TRUE).unix = close[p].unix
        BY <1>0, <2>1, AnswerFields
      <4>3. /\ Answer(close[p], TRUE).err
            /\ Answer(close[p], TRUE).answers[close[p].by] = "error"
            /\ \A d \in Callers : d # close[p].by =>
                  Answer(close[p], TRUE).answers[d] = close[p].answers[d]
        BY <1>0, <2>1, AnswerError
      <4>. QED
        BY <3>1, <4>1, <4>2, <4>3
    <3>3. Closes(p)'
      BY <1>6, <2>1, <3>2 DEF Closes
    <3>. QED
      BY <1>4, <2>1, <3>4, <3>3
  <2>. QED
    BY <1>7, <2>2, <2>3 DEF CloseNetwork
<1>8. CASE CloseClosers(p)
  <2>1. /\ close[p].by \in Callers /\ close[p].at = "closers" /\ UNCHANGED <<pc, stop>>
        /\ close[p].network
    BY <1>8 DEF CloseClosers, Closes
  <2>2. PICK err \in BOOLEAN :
           close' = [close EXCEPT ![p] = [Answer(@, err) EXCEPT !.unix = FALSE]]
    BY <1>8 DEF CloseClosers
  <2>3. /\ close'[p] = [Answer(close[p], err) EXCEPT !.unix = FALSE]
        /\ \A q \in Processes : q # p => close'[q] = close[q]
    BY <1>0, <2>2 DEF StopOK
  <2>4. Answer(close[p], err) \in Closing
    BY <1>0, <2>1, AnswerTypes
  <2>5. /\ close'[p].by = Answer(close[p], err).by
        /\ close'[p].network = Answer(close[p], err).network
        /\ close'[p].unix = FALSE
    BY <2>3, <2>4 DEF Closing
  <2>6. close'[p].by = "nobody" /\ close'[p].network /\ ~close'[p].unix
    BY <1>0, <2>1, <2>5, AnswerFields
  <2>7. Closes(p)'
    BY <1>6, <2>1, <2>6 DEF Closes
  <2>. QED
    BY <1>4, <2>1, <2>3, <2>7
<1>9. CASE LockListener(p)
  <2>1. close[p].by \in Callers /\ UNCHANGED <<pc, stop>>
    BY <1>9 DEF LockListener
  <2>2. /\ \A q \in Processes : q # p => close'[q] = close[q]
        /\ close'[p].by = close[p].by /\ close'[p].at = "locked"
        /\ close'[p].closed = close[p].closed
        /\ close'[p].network = close[p].network /\ close'[p].unix = close[p].unix
        /\ close'[p].answers = close[p].answers
    BY <1>0, <1>9 DEF LockListener, StopOK, Closing
  <2>3. Closes(p)'
    BY <1>6, <2>1, <2>2 DEF Closes
  <2>. QED
    BY <1>4, <2>1, <2>2, <2>3
<1>. QED
  BY <1>1, <1>2, <1>3, <1>5, <1>7, <1>8, <1>9 DEF Stops

\* Whoever Close tells that all went well finds all closed, for any number of processes and in
\* any order of the callers (Server.Close).
THEOREM CloseIsComplete == Spec => []CloseComplete
<1>. DEFINE Inv == \A q \in Processes : Closes(q)
<1>1. Init => Inv
  BY DEF Init, Closes, NotClosing, Callers
<1>2. TypeOK /\ Inv /\ [Next]_vars => Inv'
  <2>. SUFFICES ASSUME TypeOK, Inv, [Next]_vars PROVE Inv'
    OBVIOUS
  <2>0. BootOK /\ StopOK
    BY TypeParts
  <2>1. ASSUME NEW p \in Processes, Start(p) PROVE Inv'
    BY <2>1, PassCloses DEF Start, Running, Early
  <2>2. CASE UNCHANGED <<pc, stop, close>>
    BY <2>2 DEF Closes
  <2>3. ASSUME NEW p \in Processes, Sessions(p) PROVE Inv'
    BY <2>2, <2>3 DEF Sessions, AcceptTCP, AcceptUnix, UpgradeWebsocket, EndSession, Opened
  <2>4. ASSUME NEW p \in Processes, Signal(p) PROVE Inv'
    <3>1. pc[p] \notin Early
      BY <2>4 DEF Signal, Closes
    <3>2. close' = close /\ pc' = pc /\ \A q \in Processes : q # p => stop'[q] = stop[q]
      BY <2>0, <2>4 DEF Signal, StopOK
    <3>. QED
      BY <3>1, <3>2, CloseStays
  <2>5. ASSUME NEW p \in Processes, Crash(p) PROVE Inv'
    BY <2>5, ExitCloses DEF Crash
  <2>6. CASE Rotate \/ UNCHANGED vars
    BY <2>2, <2>6 DEF Rotate, Running, vars
  <2>. QED
    BY <2>1, <2>3, <2>4, <2>5, <2>6, BootCloses, StopCloses DEF Next
<1>3. Inv => CloseComplete
  BY DEF Closes, CloseComplete
<1>. QED
  BY <1>1, <1>2, <1>3, TypeCorrect, PTL DEF Spec

=============================================================================
