----------------------- MODULE ClusterCommandsProofs -----------------------
(***************************************************************************)
(* The safety of ClusterCommands for any number of commands, variables,    *)
(* files, connections and faults.                                          *)
(***************************************************************************)
EXTENDS ClusterCommands, FunctionTheorems, SequenceTheorems, TLAPS

Vars == ToSet(VarNames)

-----------------------------------------------------------------------------
(* The callbacks of commands.                                              *)

(* in_flight_cmds is what has not been answered.                           *)
TableExact == inFlight = Tries \ {a.try : a \in answers}

(* What the answers of a try say of it: its connection has closed, or it   *)
(* has come to its end, and so it will not be answered that way again.     *)
AnswersSound ==
    /\ \A a \in answers : a.how = "own close" => State(ConnOf(a.try)) = "closed"
    /\ \A a \in answers : a.how \in {"success", "failure"} => At(a.try) = "ended"
    /\ TwiceOnlyAcross

-----------------------------------------------------------------------------
(* Whose turn it is.  What a callback waits for is a token: a connection   *)
(* being made for it, a session asked for, a command to be run again, ...  *)
(* An error of a connection that was ready is all that makes a second one. *)

AtMostOne(S) == \A x, y \in S : x = y

Connecting(X) == {n \in Conns : n[1] \in X /\ State(n) = "connecting"}
Asking(X) == {q \in sftpAsks : q.of[1] \in X}
Waits(X) == ({"conn"} \X Connecting(X)) \cup ({"ask"} \X Asking(X))

(* A call that has not been made, waits, is to be run again or was sent.   *)
CallTokens(c) ==
    Waits({c}) \cup ({"new"} \X ({c} \ issued)) \cup ({"asked"} \X (1 .. asked[c]))
      \cup ({"try"} \X DOMAIN tries[c])

CallsOnce == \A c \in Calls \ reran : AtMostOne(CallTokens(c))

(* The boot: the callback of launch or one of the variables.               *)
BootCallbacks == Vars \cup {Boot}
Again == UNION {{v} \X (1 .. asked[v]) : v \in Vars}
Running == {t \in Tries : t[1] \in Vars /\ At(t) # "ended"}

BootTokens == Waits(BootCallbacks) \cup ({"asked"} \X Again) \cup ({"try"} \X Running)

Untried(j) == tries[VarNames[j]] = <<>>

(* From this callback on no variable has been asked for; after it, none.   *)
UntriedFrom(x) ==
    \A j \in DOMAIN VarNames :
       x = Boot \/ (\E k \in DOMAIN VarNames : k <= j /\ VarNames[k] = x) => Untried(j)
UntriedAfter(x) ==
    \A j, k \in DOMAIN VarNames : k < j /\ VarNames[k] = x => Untried(j)

BootInOrder ==
    /\ \A v \in Vars : Len(tries[v]) <= 1
    /\ \A x \in BootCallbacks : Waits({x}) # {} => UntriedFrom(x)
    /\ \A v \in Vars : asked[v] > 0 => UntriedFrom(v)
    /\ \A t \in Running : UntriedAfter(t[1])

BootOnce == reran \subseteq Calls \cup Files => AtMostOne(BootTokens) /\ BootInOrder

(* The batch: a file waits, has its turn or is being copied.               *)
CopyTokens ==
    Waits(Files) \cup ({"turn"} \X ({turn} \ {NoCopy})) \cup ({"transfer"} \X transfers)

IsNext(f) == Len(stat) < Len(Copies) /\ f = Copies[Len(stat) + 1]

BatchInOrder ==
    /\ Len(stat) <= Len(Copies)
    /\ \A i \in 1 .. Len(stat) : stat[i].file = Copies[i]
    /\ \A f \in Files : Waits({f}) # {} => IsNext(f)
    /\ turn # NoCopy => IsNext(turn)
    /\ \A x \in transfers : IsNext(x.file)
    /\ batch = "idle" => CopyTokens = {} /\ stat = <<>>
    /\ batch = "answered" => CopyTokens = {} /\ Len(stat) = Len(Copies)

BatchOnce == reran \cap Files = {} => AtMostOne(CopyTokens) /\ BatchInOrder

IInv ==
    /\ TypeOK
    /\ TableExact
    /\ AnswersSound
    /\ CallsOnce
    /\ BootOnce
    /\ BatchOnce

-----------------------------------------------------------------------------
(* The tables of connections and of tries.                                 *)

NamesIn(X, T) == UNION {{x} \X DOMAIN T[x] : x \in X}

LEMMA NamesAre ==
    ASSUME NEW X, NEW T
    PROVE  /\ \A n \in NamesIn(X, T) :
                 n[1] \in X /\ n[2] \in DOMAIN T[n[1]] /\ n = <<n[1], n[2]>>
           /\ \A x \in X : \A i \in DOMAIN T[x] : <<x, i>> \in NamesIn(X, T)
BY DEF NamesIn

(* The value at a name replaced, and a value at a new name.                *)
Put(T, n, v) == [T EXCEPT ![n[1]][n[2]] = v]
Grow(T, x, v) == [T EXCEPT ![x] = Append(@, v)]
NewName(T, x) == <<x, Len(T[x]) + 1>>

LEMMA TableBecomes ==
    ASSUME NEW X, NEW V, NEW T \in [X -> Seq(V)],
           NEW n \in NamesIn(X, T), NEW s \in V
    PROVE  LET U == Put(T, n, s) IN
           /\ U \in [X -> Seq(V)] /\ NamesIn(X, U) = NamesIn(X, T)
           /\ \A m \in NamesIn(X, T) : U[m[1]][m[2]] = IF m = n THEN s ELSE T[m[1]][m[2]]
<1> DEFINE U == Put(T, n, s)
           row == [T[n[1]] EXCEPT ![n[2]] = s]
<1>1. n[1] \in X /\ n[2] \in DOMAIN T[n[1]] /\ n = <<n[1], n[2]>>
  BY NamesAre
<1>2. T[n[1]] \in Seq(V)
  BY <1>1
<1>3. row \in Seq(V) /\ DOMAIN row = DOMAIN T[n[1]]
  BY <1>1, <1>2
<1>4. \A i \in DOMAIN row : row[i] = IF i = n[2] THEN s ELSE T[n[1]][i]
  BY <1>1, <1>2
<1>5. U = [T EXCEPT ![n[1]] = row]
  BY DEF Put
<1> HIDE DEF row, U
<1>6. U \in [X -> Seq(V)] /\ DOMAIN U = X /\ U[n[1]] = row
      /\ \A x \in X : x # n[1] => U[x] = T[x]
  BY <1>1, <1>3, <1>5
<1>7. \A x \in X : DOMAIN U[x] = DOMAIN T[x]
  BY <1>3, <1>6
<1>8. NamesIn(X, U) = NamesIn(X, T)
  BY <1>7 DEF NamesIn
<1>9. ASSUME NEW m \in NamesIn(X, T)
      PROVE  U[m[1]][m[2]] = IF m = n THEN s ELSE T[m[1]][m[2]]
  <2>1. m[1] \in X /\ m[2] \in DOMAIN T[m[1]] /\ m = <<m[1], m[2]>>
    BY NamesAre
  <2> QED
    BY <1>1, <1>3, <1>4, <1>6, <2>1
<1> QED
  BY <1>6, <1>8, <1>9 DEF U

LEMMA TableGrows ==
    ASSUME NEW X, NEW V, NEW T \in [X -> Seq(V)],
           NEW x \in X, NEW v \in V
    PROVE  LET U == Grow(T, x, v) IN
           /\ U \in [X -> Seq(V)]
           /\ NewName(T, x) \notin NamesIn(X, T)
           /\ NamesIn(X, U) = NamesIn(X, T) \cup {NewName(T, x)}
           /\ \A m : m = NewName(T, x) => U[m[1]][m[2]] = v
           /\ \A m \in NamesIn(X, T) : U[m[1]][m[2]] = T[m[1]][m[2]]
<1> DEFINE U == Grow(T, x, v)
           n == Len(T[x])
           row == Append(T[x], v)
<1>1. T[x] \in Seq(V) /\ n \in Nat /\ DOMAIN T[x] = 1 .. n
  OBVIOUS
<1>2. /\ row \in Seq(V) /\ DOMAIN row = DOMAIN T[x] \cup {n + 1}
      /\ row[n + 1] = v /\ \A i \in DOMAIN T[x] : row[i] = T[x][i]
      /\ n + 1 \notin DOMAIN T[x]
  BY <1>1
<1>3. U = [T EXCEPT ![x] = row]
  BY DEF Grow
<1> HIDE DEF n, row, U
<1>4. U \in [X -> Seq(V)] /\ U[x] = row /\ \A y \in X : y # x => U[y] = T[y]
  BY <1>2, <1>3
<1>5. <<x, n + 1>> \notin NamesIn(X, T)
  BY <1>2, NamesAre
<1>6. NamesIn(X, U) = NamesIn(X, T) \cup {<<x, n + 1>>}
  <2>1. ASSUME NEW m \in NamesIn(X, U)
        PROVE  m \in NamesIn(X, T) \cup {<<x, n + 1>>}
    <3>1. m[1] \in X /\ m[2] \in DOMAIN U[m[1]] /\ m = <<m[1], m[2]>>
      BY NamesAre
    <3> QED
      BY <1>2, <1>4, <3>1, NamesAre
  <2>2. ASSUME NEW m \in NamesIn(X, T) \cup {<<x, n + 1>>}
        PROVE  m \in NamesIn(X, U)
    <3>1. CASE m \in NamesIn(X, T)
      <4>1. m[1] \in X /\ m[2] \in DOMAIN T[m[1]] /\ m = <<m[1], m[2]>>
        BY <3>1, NamesAre
      <4>2. m[2] \in DOMAIN U[m[1]]
        BY <1>2, <1>4, <4>1
      <4> QED
        BY <4>1, <4>2, NamesAre
    <3>2. CASE m = <<x, n + 1>>
      <4>1. x \in X /\ n + 1 \in DOMAIN U[x]
        BY <1>2, <1>4
      <4>2. \A y \in X : \A i \in DOMAIN U[y] : <<y, i>> \in NamesIn(X, U)
        BY NamesAre
      <4> QED
        BY <3>2, <4>1, <4>2
    <3> QED
      BY <3>1, <3>2
  <2> QED
    BY <2>1, <2>2
<1>7. ASSUME NEW m \in NamesIn(X, T)
      PROVE  U[m[1]][m[2]] = T[m[1]][m[2]]
  <2>1. m[1] \in X /\ m[2] \in DOMAIN T[m[1]]
    BY NamesAre
  <2>2. CASE m[1] = x
    BY <1>2, <1>4, <2>1, <2>2
  <2>3. CASE m[1] # x
    BY <1>4, <2>1, <2>3
  <2> QED
    BY <2>2, <2>3
<1> QED
  BY <1>2, <1>4, <1>5, <1>6, <1>7 DEF NewName, n, U

(* Connections and tries have names for ever; so they are compared.        *)
ConnStates == {"connecting", "open", "lost", "closed"}
Places == {"sent", "streaming", "ignored", "ended"}

LEMMA NamesHere == Conns = NamesIn(Callbacks, conns) /\ Tries = NamesIn(Commands, tries)
BY DEF Conns, Tries, NamesIn

LEMMA NamesThen == Conns' = NamesIn(Callbacks, conns') /\ Tries' = NamesIn(Commands, tries')
BY DEF Conns, Tries, NamesIn

(* The parts of TypeOK.                                                    *)
ConnsTyped ==
    /\ conns \in [Callbacks -> Seq(ConnStates)]
    /\ {current, sftp} \subseteq Conns \cup {NoConn}
    /\ sftpAsks \subseteq [of : Conns, conn : Conns]

CallsTyped ==
    /\ up \in BOOLEAN
    /\ boot \in {"connecting", "launched", "listening"}
    /\ issued \subseteq Calls
    /\ asked \in [Commands -> Nat]

TriesTyped ==
    /\ tries \in [Commands -> Seq([conn : Conns, at : Places])]
    /\ inFlight \subseteq Tries
    /\ answers \subseteq [try : Tries, how : {"success", "failure", "own close", "other close"}]

CopiesTyped ==
    /\ turn \in Files \cup {NoCopy}
    /\ transfers \subseteq [file : Files, conn : Conns]
    /\ stat \in Seq([file : Files, success : BOOLEAN])
    /\ batch \in {"idle", "running", "answered"}

HistoryTyped == reran \subseteq Callbacks /\ faults \in 0 .. MaxFaults

LEMMA TypeParts ==
    /\ TypeOK <=> ConnsTyped /\ CallsTyped /\ TriesTyped /\ CopiesTyped /\ HistoryTyped
    /\ TypeOK' <=> ConnsTyped' /\ CallsTyped' /\ TriesTyped' /\ CopiesTyped' /\ HistoryTyped'
BY DEF TypeOK, ConnsTyped, CallsTyped, TriesTyped, CopiesTyped, HistoryTyped, ConnStates, Places

(* What a step does to the connections: it changes the state of one, ...   *)
Changes(n, s) ==
    /\ conns' \in [Callbacks -> Seq(ConnStates)]
    /\ Conns' = Conns
    /\ \A m \in Conns : State(m)' = IF m = n THEN s ELSE State(m)

LEMMA ConnChanges ==
    ASSUME ConnsTyped, NEW n \in Conns, NEW s \in ConnStates, conns' = Becomes(n, s)
    PROVE  Changes(n, s)
<1>1. conns' = Put(conns, n, s)
  BY DEF Becomes, Put
<1>2. conns \in [Callbacks -> Seq(ConnStates)] /\ n \in NamesIn(Callbacks, conns)
  BY NamesHere DEF ConnsTyped
<1>3. /\ conns' \in [Callbacks -> Seq(ConnStates)]
      /\ NamesIn(Callbacks, conns') = NamesIn(Callbacks, conns)
      /\ \A m \in NamesIn(Callbacks, conns) :
            conns'[m[1]][m[2]] = IF m = n THEN s ELSE conns[m[1]][m[2]]
  BY <1>1, <1>2, TableBecomes
<1> QED
  BY <1>3, NamesHere, NamesThen DEF Changes, State

(* ... or it makes one for a callback; one that was open may be lost.      *)
NewConn(x) == NewName(conns, x)

Makes(x) ==
    /\ conns' \in [Callbacks -> Seq(ConnStates)]
    /\ NewConn(x) \notin Conns
    /\ Conns' = Conns \cup {NewConn(x)}
    /\ \A m \in Conns' : m = NewConn(x) => State(m)' = "connecting"

LEMMA ConnMade ==
    ASSUME ConnsTyped, NEW x \in Callbacks, NEW T, T \in [Callbacks -> Seq(ConnStates)],
           NamesIn(Callbacks, T) = Conns, Len(T[x]) = Len(conns[x]), conns' = Connect(T, x)
    PROVE  Makes(x) /\ \A m \in Conns : State(m)' = T[m[1]][m[2]]
<1>1. conns' = Grow(T, x, "connecting") /\ "connecting" \in ConnStates
  BY DEF Connect, Grow, ConnStates
<1>2. LET U == Grow(T, x, "connecting") IN
      /\ U \in [Callbacks -> Seq(ConnStates)]
      /\ NewName(T, x) \notin NamesIn(Callbacks, T)
      /\ NamesIn(Callbacks, U) = NamesIn(Callbacks, T) \cup {NewName(T, x)}
      /\ \A m : m = NewName(T, x) => U[m[1]][m[2]] = "connecting"
      /\ \A m \in NamesIn(Callbacks, T) : U[m[1]][m[2]] = T[m[1]][m[2]]
  BY <1>1, TableGrows
<1> QED
  BY <1>1, <1>2, NamesHere, NamesThen DEF Makes, NewConn, NewName, State

LEMMA ConnMadeHere ==
    ASSUME ConnsTyped, NEW x \in Callbacks, conns' = Connect(conns, x)
    PROVE  Makes(x) /\ \A m \in Conns : State(m)' = State(m)
BY ConnMade, NamesHere DEF ConnsTyped, State

LEMMA ConnLostAndMade ==
    ASSUME ConnsTyped, NEW n \in Conns, NEW x \in Callbacks,
           conns' = Connect(Becomes(n, "lost"), x)
    PROVE  Makes(x) /\ \A m \in Conns : State(m)' = IF m = n THEN "lost" ELSE State(m)
<1> DEFINE T == Becomes(n, "lost")
<1>1. T = Put(conns, n, "lost") /\ "lost" \in ConnStates
  BY DEF Becomes, Put, ConnStates
<1>2. conns \in [Callbacks -> Seq(ConnStates)] /\ n \in NamesIn(Callbacks, conns)
  BY NamesHere DEF ConnsTyped
<1> HIDE DEF T
<1>3. /\ T \in [Callbacks -> Seq(ConnStates)]
      /\ NamesIn(Callbacks, T) = NamesIn(Callbacks, conns)
      /\ \A m \in NamesIn(Callbacks, conns) :
            T[m[1]][m[2]] = IF m = n THEN "lost" ELSE conns[m[1]][m[2]]
  BY <1>1, <1>2, TableBecomes
<1>4. Len(T[x]) = Len(conns[x])
  <2>1. n[1] \in Callbacks /\ n[2] \in DOMAIN conns[n[1]]
    BY <1>2, NamesAre
  <2>2. T = [conns EXCEPT ![n[1]] = [conns[n[1]] EXCEPT ![n[2]] = "lost"]]
    BY <1>1 DEF Put
  <2>3. CASE x = n[1]
    <3>1. T[x] = [conns[x] EXCEPT ![n[2]] = "lost"] /\ conns[x] \in Seq(ConnStates)
      BY <1>2, <2>1, <2>2, <2>3
    <3> QED
      BY <3>1
  <2>4. CASE x # n[1]
    BY <1>2, <2>1, <2>2, <2>4
  <2> QED
    BY <2>3, <2>4
<1>5. conns' = Connect(T, x)
  BY DEF T
<1> QED
  BY <1>3, <1>4, <1>5, ConnMade, NamesHere DEF State

(* What a step does to the tries: one gets to another place, ...           *)
LEMMA TryGoes ==
    ASSUME TriesTyped, NEW t \in Tries, NEW place \in Places, Goes(t, place)
    PROVE  /\ tries' \in [Commands -> Seq([conn : Conns, at : Places])]
           /\ Tries' = Tries
           /\ \A u \in Tries : ConnOf(u)' = ConnOf(u) /\ At(u)' = IF u = t THEN place ELSE At(u)
           /\ \A c \in Commands : DOMAIN tries'[c] = DOMAIN tries[c] /\ Len(tries'[c]) = Len(tries[c])
<1> DEFINE V == [conn : Conns, at : Places]
           old == tries[t[1]][t[2]]
           new == [old EXCEPT !.at = place]
<1>1. tries \in [Commands -> Seq(V)] /\ t \in NamesIn(Commands, tries)
  BY NamesHere DEF TriesTyped
<1>2. t[1] \in Commands /\ t[2] \in DOMAIN tries[t[1]]
  BY <1>1, NamesAre
<1> HIDE DEF V
<1>3. old \in V
  <2>1. tries[t[1]] \in Seq(V)
    BY <1>1, <1>2
  <2> QED
    BY <1>2, <2>1
<1>4. new \in V /\ new.conn = old.conn /\ new.at = place
  BY <1>3 DEF V
<1>5. tries' = Put(tries, t, new)
  BY DEF Goes, Put
<1> HIDE DEF new
<1>6. /\ tries' \in [Commands -> Seq(V)]
      /\ NamesIn(Commands, tries') = NamesIn(Commands, tries)
      /\ \A u \in NamesIn(Commands, tries) :
            tries'[u[1]][u[2]] = IF u = t THEN new ELSE tries[u[1]][u[2]]
  BY <1>1, <1>4, <1>5, TableBecomes
<1>7. ASSUME NEW c \in Commands
      PROVE  DOMAIN tries'[c] = DOMAIN tries[c] /\ Len(tries'[c]) = Len(tries[c])
  <2>1. \A i : <<c, i>> \in NamesIn(Commands, tries) <=> i \in DOMAIN tries[c]
    BY DEF NamesIn
  <2>2. \A i : <<c, i>> \in NamesIn(Commands, tries') <=> i \in DOMAIN tries'[c]
    BY DEF NamesIn
  <2>3. DOMAIN tries'[c] = DOMAIN tries[c]
    BY <1>6, <2>1, <2>2
  <2>4. /\ tries[c] \in Seq(V) /\ tries'[c] \in Seq(V)
    BY <1>1, <1>6
  <2> QED
    BY <2>3, <2>4
<1>8. \A u \in Tries : ConnOf(u)' = ConnOf(u) /\ At(u)' = IF u = t THEN place ELSE At(u)
  BY <1>4, <1>6, NamesHere DEF ConnOf, At
<1> QED
  BY <1>6, <1>7, <1>8, NamesHere, NamesThen DEF V

(* ... or one more is sent.                                                *)
NewTry(c) == NewName(tries, c)

LEMMA TrySent ==
    ASSUME TriesTyped, NEW c \in Commands, NEW n \in Conns,
           tries' = [tries EXCEPT ![c] = Append(@, [conn |-> n, at |-> "sent"])]
    PROVE  /\ tries' \in [Commands -> Seq([conn : Conns, at : Places])]
           /\ NewTry(c) \notin Tries
           /\ Tries' = Tries \cup {NewTry(c)}
           /\ \A u \in Tries : ConnOf(u)' = ConnOf(u) /\ At(u)' = At(u)
           /\ Len(tries'[c]) = Len(tries[c]) + 1
           /\ DOMAIN tries'[c] = DOMAIN tries[c] \cup {Len(tries[c]) + 1}
           /\ \A d \in Commands \ {c} : tries'[d] = tries[d]
<1> DEFINE V == [conn : Conns, at : Places]
           new == [conn |-> n, at |-> "sent"]
<1>1. tries \in [Commands -> Seq(V)] /\ new \in V
  BY DEF TriesTyped, Places
<1>2. tries' = Grow(tries, c, new)
  BY DEF Grow
<1> HIDE DEF V, new
<1>3. LET U == Grow(tries, c, new) IN
      /\ U \in [Commands -> Seq(V)]
      /\ NewName(tries, c) \notin NamesIn(Commands, tries)
      /\ NamesIn(Commands, U) = NamesIn(Commands, tries) \cup {NewName(tries, c)}
      /\ \A u \in NamesIn(Commands, tries) : U[u[1]][u[2]] = tries[u[1]][u[2]]
  BY <1>1, TableGrows
<1>4. tries'[c] = Append(tries[c], new) /\ tries[c] \in Seq(V)
      /\ \A d \in Commands \ {c} : tries'[d] = tries[d]
  BY <1>1, <1>2 DEF Grow
<1>5. Len(tries'[c]) = Len(tries[c]) + 1
      /\ DOMAIN tries'[c] = DOMAIN tries[c] \cup {Len(tries[c]) + 1}
  BY <1>1, <1>4
<1>6. \A u \in Tries : ConnOf(u)' = ConnOf(u) /\ At(u)' = At(u)
  BY <1>2, <1>3, NamesHere DEF ConnOf, At
<1> QED
  BY <1>2, <1>3, <1>4, <1>5, <1>6, NamesHere, NamesThen DEF V, NewTry

-----------------------------------------------------------------------------
(* What a step does to those who wait.                                     *)

LEMMA WaitsAre ==
    ASSUME NEW X
    PROVE  \A w : w \in Waits(X) <=>
              \/ \E n \in Conns : n[1] \in X /\ State(n) = "connecting" /\ w = <<"conn", n>>
              \/ \E q \in sftpAsks : q.of[1] \in X /\ w = <<"ask", q>>
BY DEF Waits, Connecting, Asking

LEMMA WaitsThen ==
    ASSUME NEW X
    PROVE  \A w : w \in Waits(X)' <=>
              \/ \E n \in Conns' : n[1] \in X /\ State(n)' = "connecting" /\ w = <<"conn", n>>
              \/ \E q \in sftpAsks' : q.of[1] \in X /\ w = <<"ask", q>>
BY DEF Waits, Connecting, Asking

WaitKinds == {"conn", "ask"}

LEMMA WaitKind == \A X : \A w \in Waits(X) : w[1] \in WaitKinds
BY WaitsAre DEF WaitKinds

(* Nobody begins to wait, or one goes on waiting for something else.       *)
Passes(X) ==
    \/ Waits(X)' \subseteq Waits(X)
    \/ \E old \in Waits(X) : \E new :
          new[1] \in WaitKinds /\ Waits(X)' \subseteq (Waits(X) \ {old}) \cup {new}

Quiet ==
    /\ Conns' = Conns /\ sftpAsks' \subseteq sftpAsks
    /\ \A m \in Conns : State(m)' = "connecting" => State(m) = "connecting"

LEMMA QuietPasses ==
    ASSUME Quiet
    PROVE  \A X : Waits(X)' \subseteq Waits(X) /\ Passes(X)
<1> SUFFICES ASSUME NEW X PROVE Waits(X)' \subseteq Waits(X)
  BY DEF Passes
<1> QED
  BY WaitsAre, WaitsThen DEF Quiet

LEMMA StillQuiet == UNCHANGED <<conns, sftpAsks>> => Quiet
BY DEF Quiet, Conns, State

LEMMA MadePasses ==
    ASSUME NEW x, Makes(x), sftpAsks' = sftpAsks,
           \A m \in Conns : State(m)' = "connecting" => State(m) = "connecting"
    PROVE  /\ \A X : x \notin X => Waits(X)' \subseteq Waits(X)
           /\ \A X : Waits(X)' \subseteq Waits(X) \cup {<<"conn", NewConn(x)>>}
<1>1. NewConn(x)[1] = x
  BY DEF NewConn, NewName
<1>2. ASSUME NEW X, x \notin X
      PROVE  Waits(X)' \subseteq Waits(X)
  BY <1>1, <1>2, WaitsAre, WaitsThen DEF Makes
<1>3. ASSUME NEW X
      PROVE  Waits(X)' \subseteq Waits(X) \cup {<<"conn", NewConn(x)>>}
  BY <1>3, WaitsAre, WaitsThen DEF Makes
<1> QED
  BY <1>2, <1>3

LEMMA FailedPasses ==
    ASSUME NEW n \in Conns, Makes(n[1]), sftpAsks' = sftpAsks, State(n) = "connecting",
           \A m \in Conns : State(m)' = IF m = n THEN "lost" ELSE State(m)
    PROVE  \A X : Passes(X)
<1> SUFFICES ASSUME NEW X PROVE Passes(X)
  OBVIOUS
<1> DEFINE new == NewConn(n[1])
<1>1. new[1] = n[1]
  BY DEF NewConn, NewName
<1>2. Conns' = Conns \cup {new} /\ sftpAsks' = sftpAsks
  BY DEF Makes
<1> HIDE DEF new
<1>3. CASE n[1] \in X
  <2>1. <<"conn", n>> \in Waits(X)
    BY <1>3, WaitsAre
  <2>2. Waits(X)' \subseteq (Waits(X) \ {<<"conn", n>>}) \cup {<<"conn", new>>}
    BY <1>2, WaitsAre, WaitsThen
  <2> QED
    BY <2>1, <2>2 DEF Passes, WaitKinds
<1>4. CASE n[1] \notin X
  BY <1>1, <1>2, <1>4, WaitsAre, WaitsThen DEF Passes
<1> QED
  BY <1>3, <1>4

LEMMA ReadyPasses ==
    ASSUME NEW n \in Conns, Changes(n, "open"), State(n) = "connecting",
           sftpAsks' = sftpAsks \cup {[of |-> n, conn |-> n]}
    PROVE  \A X : Passes(X)
<1> SUFFICES ASSUME NEW X PROVE Passes(X)
  OBVIOUS
<1> DEFINE q == [of |-> n, conn |-> n]
<1>1. q.of = n /\ sftpAsks' = sftpAsks \cup {q} /\ Conns' = Conns
      /\ \A m \in Conns : State(m)' = IF m = n THEN "open" ELSE State(m)
  BY DEF Changes
<1> HIDE DEF q
<1>2. CASE n[1] \in X
  <2>1. <<"conn", n>> \in Waits(X)
    BY <1>2, WaitsAre
  <2>2. Waits(X)' \subseteq (Waits(X) \ {<<"conn", n>>}) \cup {<<"ask", q>>}
    BY <1>1, WaitsAre, WaitsThen
  <2> QED
    BY <2>1, <2>2 DEF Passes, WaitKinds
<1>3. CASE n[1] \notin X
  BY <1>1, <1>3, WaitsAre, WaitsThen DEF Passes
<1> QED
  BY <1>2, <1>3

LEMMA AskedAgainPasses ==
    ASSUME NEW q \in sftpAsks, NEW p, p.of = q.of, UNCHANGED conns,
           sftpAsks' = (sftpAsks \ {q}) \cup {p}
    PROVE  \A X : Passes(X)
<1> SUFFICES ASSUME NEW X PROVE Passes(X)
  OBVIOUS
<1>1. Conns' = Conns /\ \A m \in Conns : State(m)' = State(m)
  BY DEF Conns, State
<1>2. CASE q.of[1] \in X
  <2>1. <<"ask", q>> \in Waits(X)
    BY <1>2, WaitsAre
  <2>2. Waits(X)' \subseteq (Waits(X) \ {<<"ask", q>>}) \cup {<<"ask", p>>}
    BY <1>1, WaitsAre, WaitsThen
  <2> QED
    BY <2>1, <2>2 DEF Passes, WaitKinds
<1>3. CASE q.of[1] \notin X
  BY <1>1, <1>3, WaitsAre, WaitsThen DEF Passes
<1> QED
  BY <1>2, <1>3

LEMMA OpenedTakes ==
    ASSUME NEW q \in sftpAsks, UNCHANGED conns, sftpAsks' = sftpAsks \ {q}
    PROVE  /\ \A X : q.of[1] \in X => <<"ask", q>> \in Waits(X)
           /\ \A X : Waits(X)' \subseteq Waits(X) \ {<<"ask", q>>}
<1>1. Conns' = Conns /\ \A m \in Conns : State(m)' = State(m)
  BY DEF Conns, State
<1>2. ASSUME NEW X, q.of[1] \in X
      PROVE  <<"ask", q>> \in Waits(X)
  BY <1>2, WaitsAre
<1>3. ASSUME NEW X
      PROVE  Waits(X)' \subseteq Waits(X) \ {<<"ask", q>>}
  BY <1>1, WaitsAre, WaitsThen
<1> QED
  BY <1>2, <1>3

LEMMA WaitsGrow ==
    /\ \A X : \A x \in X : Waits({x}) \subseteq Waits(X)
    /\ \A X : \A x \in X : Waits({x})' \subseteq Waits(X)'
<1>1. ASSUME NEW X, NEW x \in X
      PROVE  Waits({x}) \subseteq Waits(X) /\ Waits({x})' \subseteq Waits(X)'
  BY WaitsAre, WaitsThen
<1> QED
  BY <1>1

-----------------------------------------------------------------------------
(* At most one token: what may happen to it.                               *)

LEMMA OneStays ==
    ASSUME NEW S, NEW T, AtMostOne(S),
           T \subseteq S \/ \E old \in S : \E new : T \subseteq (S \ {old}) \cup {new}
    PROVE  AtMostOne(T)
BY DEF AtMostOne

(* It is kept by those who wait, or by the others.                         *)
LEMMA OnePasses ==
    ASSUME NEW X, Passes(X), NEW R, NEW Q, Q \subseteq R, \A y \in R : y[1] \notin WaitKinds,
           AtMostOne(Waits(X) \cup R)
    PROVE  AtMostOne(Waits(X)' \cup Q)
<1>1. CASE Waits(X)' \subseteq Waits(X)
  BY <1>1, OneStays
<1>2. ASSUME NEW old \in Waits(X), NEW new, Waits(X)' \subseteq (Waits(X) \ {old}) \cup {new}
      PROVE  AtMostOne(Waits(X)' \cup Q)
  <2>1. old \notin R
    BY WaitKind
  <2>2. Waits(X)' \cup Q \subseteq ((Waits(X) \cup R) \ {old}) \cup {new}
    BY <1>2, <2>1
  <2> QED
    BY <2>2, OneStays
<1> QED
  BY <1>1, <1>2 DEF Passes

-----------------------------------------------------------------------------
(* What keeps each part of the invariant.                                  *)

Lasts ==
    /\ Conns \subseteq Conns'
    /\ \A n \in Conns : State(n) = "closed" => State(n)' = "closed"

LEMMA TryIs ==
    ASSUME TriesTyped, NEW t \in Tries
    PROVE  /\ t[1] \in Commands /\ t[2] \in DOMAIN tries[t[1]] /\ t = <<t[1], t[2]>>
           /\ ConnOf(t) \in Conns /\ At(t) \in Places
<1> DEFINE V == [conn : Conns, at : Places]
<1>1. t[1] \in Commands /\ t[2] \in DOMAIN tries[t[1]] /\ t = <<t[1], t[2]>>
  BY NamesHere, NamesAre
<1>2. tries \in [Commands -> Seq(V)]
  BY DEF TriesTyped
<1> HIDE DEF V
<1>3. tries[t[1]] \in Seq(V)
  BY <1>1, <1>2
<1>4. tries[t[1]][t[2]] \in V
  BY <1>1, <1>3
<1> QED
  BY <1>1, <1>4 DEF V, ConnOf, At

LEMMA TriesKept ==
    ASSUME TriesTyped, TableExact, AnswersSound, UNCHANGED tryVars, Lasts
    PROVE  TriesTyped' /\ TableExact' /\ AnswersSound'
<1>1. UNCHANGED <<tries, inFlight, answers>> /\ Tries' = Tries
  BY DEF tryVars, Tries
<1>2. ASSUME NEW c \in Commands
      PROVE  tries[c] \in Seq([conn : Conns', at : Places])
  <2>1. tries[c] \in Seq([conn : Conns, at : Places])
    BY DEF TriesTyped
  <2>2. [conn : Conns, at : Places] \subseteq [conn : Conns', at : Places]
    BY DEF Lasts
  <2> QED
    BY <2>1, <2>2, SeqMonotonic
<1>3. TriesTyped'
  BY <1>1, <1>2 DEF TriesTyped
<1>4. TableExact'
  BY <1>1 DEF TableExact
<1>5. ASSUME NEW t \in Tries
      PROVE  ConnOf(t)' = ConnOf(t) /\ At(t)' = At(t) /\ ConnOf(t) \in Conns
  BY <1>1, TryIs DEF ConnOf, At
<1>6. \A a \in answers : a.try \in Tries
  BY DEF TriesTyped
<1>7. AnswersSound'
  BY <1>1, <1>5, <1>6 DEF AnswersSound, TwiceOnlyAcross, Lasts
<1> QED
  BY <1>3, <1>4, <1>7

LEMMA CopiesTypedKept ==
    ASSUME CopiesTyped, UNCHANGED <<turn, transfers, stat, batch>>, Conns \subseteq Conns'
    PROVE  CopiesTyped'
BY DEF CopiesTyped

CallRest(c) ==
    ({"new"} \X ({c} \ issued)) \cup ({"asked"} \X (1 .. asked[c])) \cup ({"try"} \X DOMAIN tries[c])

LEMMA CallTokensAre ==
    /\ \A c : CallTokens(c) = Waits({c}) \cup CallRest(c)
    /\ \A c : CallTokens(c)' = Waits({c})' \cup CallRest(c)'
    /\ \A c : \A y \in CallRest(c) : y[1] \notin WaitKinds
BY DEF CallTokens, CallRest, WaitKinds

LEMMA CallKept ==
    ASSUME CallsTyped, CallsOnce, reran \subseteq reran', NEW c \in Calls \ reran',
           Passes({c}), c \in issued => c \in issued',
           asked'[c] \in Nat, asked'[c] <= asked[c], DOMAIN tries'[c] \subseteq DOMAIN tries[c]
    PROVE  AtMostOne(CallTokens(c)')
<1>1. AtMostOne(Waits({c}) \cup CallRest(c))
  BY CallTokensAre DEF CallsOnce
<1>2. CallRest(c)' \subseteq CallRest(c)
  <2>1. asked[c] \in Nat /\ asked'[c] \in Nat /\ asked'[c] <= asked[c]
    BY DEF CallsTyped, Commands
  <2>2. 1 .. asked'[c] \subseteq 1 .. asked[c]
    BY <2>1
  <2>3. {c} \ issued' \subseteq {c} \ issued /\ DOMAIN tries'[c] \subseteq DOMAIN tries[c]
    OBVIOUS
  <2> QED
    BY <2>2, <2>3 DEF CallRest
<1>3. AtMostOne(Waits({c})' \cup CallRest(c)')
  BY <1>1, <1>2, CallTokensAre, OnePasses
<1> QED
  BY <1>3, CallTokensAre

BootRest == ({"asked"} \X Again) \cup ({"try"} \X Running)

LEMMA BootTokensAre ==
    /\ BootTokens = Waits(BootCallbacks) \cup BootRest
    /\ BootTokens' = Waits(BootCallbacks)' \cup BootRest'
    /\ \A y \in BootRest : y[1] \notin WaitKinds
BY DEF BootTokens, BootRest, WaitKinds, BootCallbacks

(* These commands have no try added; one may come to its end.              *)
SameTries(C) ==
    /\ \A c \in C : /\ Len(tries'[c]) = Len(tries[c]) /\ DOMAIN tries'[c] = DOMAIN tries[c]
                    /\ tries[c] = <<>> => tries'[c] = <<>>
    /\ \A t \in Tries' : t[1] \in C =>
          t \in Tries /\ (At(t) = "ended" => At(t)' = "ended")

LEMMA StillSameTries == UNCHANGED tries => \A C : SameTries(C)
BY DEF SameTries, Tries, At

LEMMA VarsAre == Vars \subseteq Commands /\ Vars = {VarNames[i] : i \in DOMAIN VarNames}
                 /\ Boot \notin Vars /\ Vars \cap Calls = {} /\ Vars \cap Files = {}
BY CommandsAssumption DEF Vars, Commands, ToSet

LEMMA AgainAre ==
    /\ \A y : y \in Again <=> \E v \in Vars : \E i \in 1 .. asked[v] : y = <<v, i>>
    /\ \A y : y \in Again' <=> \E v \in Vars : \E i \in 1 .. asked'[v] : y = <<v, i>>
BY DEF Again

LEMMA UntriedLasts ==
    ASSUME SameTries(Vars)
    PROVE  /\ \A x : UntriedFrom(x) => UntriedFrom(x)'
           /\ \A x : UntriedAfter(x) => UntriedAfter(x)'
<1>1. \A j \in DOMAIN VarNames : Untried(j) => Untried(j)'
  BY VarsAre DEF SameTries, Untried
<1> QED
  BY <1>1 DEF UntriedFrom, UntriedAfter

LEMMA BootKept ==
    ASSUME CallsTyped, BootOnce, reran \subseteq reran',
           reran' \subseteq Calls \cup Files =>
              Passes(BootCallbacks) /\ \A x \in BootCallbacks : Passes({x}),
           \A v \in Vars : asked'[v] \in Nat /\ asked'[v] <= asked[v],
           SameTries(Vars)
    PROVE  BootOnce'
<1> SUFFICES ASSUME reran' \subseteq Calls \cup Files
             PROVE  AtMostOne(BootTokens') /\ BootInOrder'
  BY DEF BootOnce, AtMostOne
<1>1. AtMostOne(BootTokens) /\ BootInOrder
  BY DEF BootOnce
<1>2. \A v \in Vars : asked[v] \in Nat /\ asked'[v] \in Nat /\ asked'[v] <= asked[v]
  BY VarsAre DEF CallsTyped
<1>3. Again' \subseteq Again
  <2>1. \A v \in Vars : 1 .. asked'[v] \subseteq 1 .. asked[v]
    BY <1>2
  <2> QED
    BY <2>1, AgainAre
<1>4. Running' \subseteq Running
  BY DEF Running, SameTries
<1>5. BootRest' \subseteq BootRest
  BY <1>3, <1>4 DEF BootRest
<1>6. AtMostOne(BootTokens')
  BY <1>1, <1>5, BootTokensAre, OnePasses
<1>7. ASSUME NEW x \in BootCallbacks, Waits({x})' # {}
      PROVE  UntriedFrom(x)'
  <2>1. Waits({x}) # {}
    BY <1>7 DEF Passes
  <2> QED
    BY <1>1, <2>1, UntriedLasts DEF BootInOrder
<1>8. ASSUME NEW v \in Vars
      PROVE  Len(tries'[v]) <= 1 /\ (asked'[v] > 0 => UntriedFrom(v)')
  <2>1. Len(tries'[v]) = Len(tries[v]) /\ Len(tries[v]) <= 1
    BY <1>1 DEF BootInOrder, SameTries
  <2>2. asked'[v] > 0 => asked[v] > 0
    BY <1>2
  <2> QED
    BY <1>1, <2>1, <2>2, UntriedLasts DEF BootInOrder
<1>9. ASSUME NEW t \in Running'
      PROVE  UntriedAfter(t[1])'
  <2>1. UntriedAfter(t[1])
    BY <1>1, <1>4 DEF BootInOrder
  <2> QED
    BY <2>1, UntriedLasts
<1> QED
  BY <1>6, <1>7, <1>8, <1>9 DEF BootInOrder

CopyRest == ({"turn"} \X ({turn} \ {NoCopy})) \cup ({"transfer"} \X transfers)

LEMMA CopyTokensAre ==
    /\ CopyTokens = Waits(Files) \cup CopyRest
    /\ CopyTokens' = Waits(Files)' \cup CopyRest'
    /\ \A y \in CopyRest : y[1] \notin WaitKinds
BY DEF CopyTokens, CopyRest, WaitKinds

LEMMA BatchKept ==
    ASSUME BatchOnce, reran \subseteq reran',
           reran' \cap Files = {} => Passes(Files) /\ \A f \in Files : Passes({f}),
           turn' \in {turn, NoCopy}, transfers' \subseteq transfers, UNCHANGED <<stat, batch>>
    PROVE  BatchOnce'
<1> SUFFICES ASSUME reran' \cap Files = {}
             PROVE  AtMostOne(CopyTokens') /\ BatchInOrder'
  BY DEF BatchOnce, AtMostOne
<1>1. AtMostOne(CopyTokens) /\ BatchInOrder
  BY DEF BatchOnce
<1>2. CopyRest' \subseteq CopyRest
  BY DEF CopyRest
<1>3. AtMostOne(CopyTokens')
  BY <1>1, <1>2, CopyTokensAre, OnePasses
<1>4. \A f : IsNext(f)' <=> IsNext(f)
  BY DEF IsNext
<1>5. ASSUME NEW f \in Files, Waits({f})' # {}
      PROVE  IsNext(f)'
  <2>1. Waits({f}) # {}
    BY <1>5 DEF Passes
  <2> QED
    BY <1>1, <1>4, <2>1 DEF BatchInOrder
<1>6. CopyTokens = {} => CopyTokens' = {}
  BY <1>2, CopyTokensAre DEF Passes
<1>7. turn' # NoCopy => turn' = turn /\ IsNext(turn)
  BY <1>1 DEF BatchInOrder
<1>8. turn' # NoCopy => Len(stat') < Len(Copies) /\ turn' = Copies[Len(stat') + 1]
  BY <1>7 DEF IsNext
<1>9. \A x \in transfers' : IsNext(x.file)'
  BY <1>1, <1>4 DEF BatchInOrder
<1>10. /\ Len(stat') <= Len(Copies)
       /\ \A i \in 1 .. Len(stat') : stat'[i].file = Copies[i]
       /\ batch' = "idle" => CopyTokens' = {} /\ stat' = <<>>
       /\ batch' = "answered" => CopyTokens' = {} /\ Len(stat') = Len(Copies)
  BY <1>1, <1>6 DEF BatchInOrder
<1>11. turn' # NoCopy => IsNext(turn)'
  BY <1>8 DEF IsNext
<1> QED
  BY <1>3, <1>5, <1>9, <1>10, <1>11 DEF BatchInOrder

-----------------------------------------------------------------------------
(* Connections.                                                            *)

WaitersPass == \A X : X \cap reran' = {} => Passes(X)

LEMMA InvParts ==
    /\ IInv <=> /\ ConnsTyped /\ CallsTyped /\ TriesTyped /\ CopiesTyped /\ HistoryTyped
                /\ TableExact /\ AnswersSound /\ CallsOnce /\ BootOnce /\ BatchOnce
    /\ IInv' <=> /\ ConnsTyped' /\ CallsTyped' /\ TriesTyped' /\ CopiesTyped' /\ HistoryTyped'
                 /\ TableExact' /\ AnswersSound' /\ CallsOnce' /\ BootOnce' /\ BatchOnce'
BY TypeParts DEF IInv

LEMMA FaultsTyped ==
    ASSUME HistoryTyped, NoFault \/ \E kind : Fault(kind), UNCHANGED reran
    PROVE  HistoryTyped'
BY CommandsAssumption DEF HistoryTyped, NoFault, Fault

LEMMA TokensKept ==
    ASSUME IInv, WaitersPass, reran \subseteq reran', UNCHANGED <<issued, asked>>, SameTries(Commands)
    PROVE  CallsOnce' /\ BootOnce'
<1>1. CallsOnce'
  <2> SUFFICES ASSUME NEW c \in Calls \ reran'
               PROVE  AtMostOne(CallTokens(c)')
    BY DEF CallsOnce, AtMostOne
  <2>1. asked[c] \in Nat /\ c \in Commands
    BY InvParts DEF CallsTyped, Commands
  <2>2. Passes({c})
    BY DEF WaitersPass
  <2> QED
    BY <2>1, <2>2, InvParts, CallKept DEF SameTries
<1>2. BootOnce'
  <2>1. \A v \in Vars : asked[v] \in Nat
    BY InvParts, VarsAre DEF CallsTyped
  <2>2. reran' \subseteq Calls \cup Files =>
           Passes(BootCallbacks) /\ \A x \in BootCallbacks : Passes({x})
    <3>1. BootCallbacks \cap (Calls \cup Files) = {}
      BY VarsAre, CommandsAssumption DEF BootCallbacks, Commands
    <3> QED
      BY <3>1 DEF WaitersPass
  <2>3. SameTries(Vars)
    BY VarsAre DEF SameTries
  <2> QED
    BY <2>1, <2>2, <2>3, InvParts, BootKept
<1> QED
  BY <1>1, <1>2

LEMMA BatchStays ==
    ASSUME IInv, WaitersPass, reran \subseteq reran', UNCHANGED <<stat, batch>>,
           turn' \in {turn, NoCopy}, transfers' \subseteq transfers
    PROVE  BatchOnce'
<1>1. reran' \cap Files = {} => Passes(Files) /\ \A f \in Files : Passes({f})
  BY DEF WaitersPass
<1> QED
  BY <1>1, InvParts, BatchKept

LEMMA ConnKeeps ==
    ASSUME IInv, ConnsTyped', HistoryTyped', Lasts, WaitersPass, reran \subseteq reran',
           UNCHANGED <<boot, issued, asked, tryVars, copyVars>>, up' \in BOOLEAN
    PROVE  IInv'
<1>1. CallsTyped'
  BY InvParts DEF CallsTyped
<1>2. TriesTyped' /\ TableExact' /\ AnswersSound'
  BY InvParts, TriesKept
<1>3. UNCHANGED <<tries, turn, transfers, stat, batch>> /\ Conns \subseteq Conns'
  BY DEF tryVars, copyVars, Lasts
<1>4. CopiesTyped'
  BY <1>3, InvParts, CopiesTypedKept
<1>5. CallsOnce' /\ BootOnce'
  BY <1>3, StillSameTries, TokensKept
<1>6. BatchOnce'
  BY <1>3, BatchStays
<1> QED
  BY <1>1, <1>2, <1>4, <1>5, <1>6, InvParts

(* Connections and sessions keep their types while names are only added.   *)
LEMMA ConnsTypedKept ==
    ASSUME ConnsTyped, conns' \in [Callbacks -> Seq(ConnStates)], Conns \subseteq Conns',
           current' \in {current, NoConn}, sftp' \in {sftp, NoConn}, sftpAsks' \subseteq sftpAsks
    PROVE  ConnsTyped'
BY DEF ConnsTyped

LEMMA NameIsOfCallback ==
    \A n \in Conns : n[1] \in Callbacks
BY NamesHere, NamesAre

LEMMA ReadyKeeps ==
    ASSUME IInv, up, NEW n \in Conns, Ready(n)
    PROVE  IInv'
<1>1. /\ State(n) = "connecting" /\ conns' = Becomes(n, "open") /\ current' = n
      /\ sftpAsks' = sftpAsks \cup {[of |-> n, conn |-> n]} /\ NoFault
      /\ UNCHANGED <<up, boot, sftp, issued, asked, tryVars, copyVars, reran>>
  BY DEF Ready
<1>2. Changes(n, "open")
  BY <1>1, ConnChanges, InvParts DEF ConnStates
<1>3. Lasts
  BY <1>1, <1>2 DEF Changes, Lasts
<1>4. ConnsTyped'
  <2>1. {current, sftp} \subseteq Conns \cup {NoConn} /\ sftpAsks \subseteq [of : Conns, conn : Conns]
    BY InvParts DEF ConnsTyped
  <2>2. sftpAsks' \subseteq [of : Conns, conn : Conns]
    BY <1>1, <2>1
  <2> QED
    BY <1>1, <1>2, <2>1, <2>2 DEF Changes, ConnsTyped
<1>5. WaitersPass
  BY <1>1, <1>2, ReadyPasses DEF WaitersPass
<1>6. HistoryTyped'
  BY <1>1, InvParts, FaultsTyped
<1> QED
  BY <1>1, <1>3, <1>4, <1>5, <1>6, ConnKeeps

LEMMA ConnectFailsKeeps ==
    ASSUME IInv, up, NEW n \in Conns, ConnectFails(n)
    PROVE  IInv'
<1>1. /\ State(n) = "connecting" /\ conns' = Connect(Becomes(n, "lost"), n[1])
      /\ Fault("connect")
      /\ UNCHANGED <<up, boot, current, sftp, sftpAsks, issued, asked, tryVars, copyVars, reran>>
  BY DEF ConnectFails
<1>2. Makes(n[1]) /\ \A m \in Conns : State(m)' = IF m = n THEN "lost" ELSE State(m)
  BY <1>1, ConnLostAndMade, NameIsOfCallback, InvParts
<1>3. Lasts
  BY <1>1, <1>2 DEF Makes, Lasts
<1>4. ConnsTyped'
  BY <1>1, <1>2, <1>3, InvParts, ConnsTypedKept DEF Makes, Lasts
<1>5. WaitersPass
  BY <1>1, <1>2, FailedPasses DEF WaitersPass
<1>6. HistoryTyped'
  BY <1>1, InvParts, FaultsTyped
<1> QED
  BY <1>1, <1>3, <1>4, <1>5, <1>6, ConnKeeps

LEMMA SocketErrorKeeps ==
    ASSUME IInv, up, NEW n \in Conns, SocketError(n)
    PROVE  IInv'
<1>1. /\ State(n) = "open" /\ conns' = Connect(Becomes(n, "lost"), n[1])
      /\ Fault("error") /\ reran' = reran \cup {n[1]}
      /\ UNCHANGED <<up, boot, current, sftp, sftpAsks, issued, asked, tryVars, copyVars>>
  BY DEF SocketError, IsOpen
<1>2. n[1] \in Callbacks
  BY NameIsOfCallback
<1>3. Makes(n[1]) /\ \A m \in Conns : State(m)' = IF m = n THEN "lost" ELSE State(m)
  BY <1>1, <1>2, ConnLostAndMade, InvParts
<1>4. Lasts
  BY <1>1, <1>3 DEF Makes, Lasts
<1>5. ConnsTyped'
  BY <1>1, <1>3, <1>4, InvParts, ConnsTypedKept DEF Makes, Lasts
<1>6. WaitersPass
  <2>1. \A X : n[1] \notin X => Waits(X)' \subseteq Waits(X)
    BY <1>1, <1>3, MadePasses
  <2> QED
    BY <1>1, <2>1 DEF WaitersPass, Passes
<1>7. HistoryTyped'
  BY <1>1, <1>2, InvParts, CommandsAssumption DEF HistoryTyped, Fault
<1> QED
  BY <1>1, <1>4, <1>5, <1>6, <1>7, ConnKeeps

LEMMA SocketEndsKeeps ==
    ASSUME IInv, up, NEW n \in Conns, SocketEnds(n)
    PROVE  IInv'
<1>1. /\ State(n) = "open" /\ conns' = Becomes(n, "lost") /\ Fault("close")
      /\ UNCHANGED <<up, boot, current, sftp, sftpAsks, issued, asked, tryVars, copyVars, reran>>
  BY DEF SocketEnds, IsOpen
<1>2. Changes(n, "lost")
  BY <1>1, ConnChanges, InvParts DEF ConnStates
<1>3. Lasts
  BY <1>1, <1>2 DEF Changes, Lasts
<1>4. ConnsTyped'
  BY <1>1, <1>2, InvParts, ConnsTypedKept DEF Changes
<1>5. WaitersPass
  <2>1. Quiet
    BY <1>1, <1>2 DEF Quiet, Changes
  <2> QED
    BY <2>1, QuietPasses DEF WaitersPass
<1>6. HistoryTyped'
  BY <1>1, InvParts, FaultsTyped
<1> QED
  BY <1>1, <1>3, <1>4, <1>5, <1>6, ConnKeeps

LEMMA StillLasts == UNCHANGED conns => Lasts /\ Conns' = Conns
BY DEF Lasts, Conns, State

LEMMA SftpFailsKeeps ==
    ASSUME IInv, up, NEW q \in sftpAsks, SftpFails(q)
    PROVE  IInv'
<1>1. /\ NoFault \/ Fault("sftp")
      /\ UNCHANGED <<boot, current, sftp, conns, issued, asked, tryVars, copyVars, reran>>
      /\ \/ /\ IsOpen(current) /\ UNCHANGED up
            /\ sftpAsks' = (sftpAsks \ {q}) \cup {[q EXCEPT !.conn = current]}
         \/ up' = FALSE /\ UNCHANGED sftpAsks
  BY DEF SftpFails
<1>2. Lasts /\ Conns' = Conns
  BY <1>1, StillLasts
<1>3. /\ q \in [of : Conns, conn : Conns] /\ current \in Conns \cup {NoConn}
      /\ sftpAsks \subseteq [of : Conns, conn : Conns]
      /\ sftp \in Conns \cup {NoConn} /\ conns \in [Callbacks -> Seq(ConnStates)]
  BY InvParts DEF ConnsTyped
<1> DEFINE p == [q EXCEPT !.conn = current]
<1>4. IsOpen(current) => p.of = q.of /\ p \in [of : Conns, conn : Conns]
  BY <1>3 DEF IsOpen
<1> HIDE DEF p
<1>5. \/ IsOpen(current) /\ sftpAsks' = (sftpAsks \ {q}) \cup {p}
      \/ UNCHANGED sftpAsks
  BY <1>1 DEF p
<1>6. ConnsTyped'
  <2>1. sftpAsks' \subseteq [of : Conns, conn : Conns]
    BY <1>3, <1>4, <1>5
  <2> QED
    BY <1>1, <1>2, <1>3, <2>1 DEF ConnsTyped
<1>7. WaitersPass
  <2>1. CASE UNCHANGED sftpAsks
    BY <1>1, <2>1, StillQuiet, QuietPasses DEF WaitersPass
  <2>2. CASE IsOpen(current) /\ sftpAsks' = (sftpAsks \ {q}) \cup {p}
    BY <1>1, <1>4, <2>2, AskedAgainPasses DEF WaitersPass
  <2> QED
    BY <1>5, <2>1, <2>2
<1>8. HistoryTyped'
  BY <1>1, InvParts, FaultsTyped
<1>9. up' \in BOOLEAN /\ reran \subseteq reran'
  BY <1>1
<1> QED
  BY <1>1, <1>2, <1>6, <1>7, <1>8, <1>9, ConnKeeps

-----------------------------------------------------------------------------
(* A token that changes hands.                                             *)

LEMMA OneMoves ==
    ASSUME NEW S, NEW T, AtMostOne(S), NEW old \in S, NEW new,
           T \subseteq (S \ {old}) \cup {new}
    PROVE  AtMostOne(T) /\ T \subseteq {new}
BY DEF AtMostOne

(* The boot goes on with the only token there is.                          *)
Settles(new) ==
    /\ BootTokens' \subseteq {new}
    /\ \A v \in Vars : Len(tries'[v]) <= 1
    /\ \A x \in BootCallbacks : new \in Waits({x})' => UntriedFrom(x)'
    /\ \A v \in Vars : \A i : new = <<"asked", <<v, i>>>> => UntriedFrom(v)'
    /\ \A t : new = <<"try", t>> => UntriedAfter(t[1])'

LEMMA BootSettles ==
    ASSUME CallsTyped', NEW new, Settles(new)
    PROVE  AtMostOne(BootTokens') /\ BootInOrder'
<1>1. AtMostOne(BootTokens')
  BY DEF AtMostOne, Settles
<1>2. ASSUME NEW x \in BootCallbacks, Waits({x})' # {}
      PROVE  UntriedFrom(x)'
  <2>1. Waits({x})' \subseteq BootTokens'
    BY WaitsGrow, BootTokensAre
  <2> QED
    BY <1>2, <2>1 DEF Settles
<1>3. ASSUME NEW v \in Vars, asked'[v] > 0
      PROVE  UntriedFrom(v)'
  <2>1. asked'[v] \in Nat
    BY VarsAre DEF CallsTyped
  <2>2. <<v, asked'[v]>> \in Again'
    BY <1>3, <2>1, AgainAre
  <2>3. <<"asked", <<v, asked'[v]>>>> \in BootTokens'
    BY <2>2, BootTokensAre DEF BootRest
  <2> QED
    BY <2>3 DEF Settles
<1>4. ASSUME NEW t \in Running'
      PROVE  UntriedAfter(t[1])'
  <2>1. <<"try", t>> \in BootTokens'
    BY <1>4, BootTokensAre DEF BootRest
  <2> QED
    BY <2>1 DEF Settles
<1> QED
  BY <1>1, <1>2, <1>3, <1>4 DEF BootInOrder, Settles

LEMMA CommandsAre ==
    /\ \A c \in Commands : c \in Callbacks /\ c \notin Files /\ (c \in Calls \/ c \in Vars)
    /\ \A x \in Callbacks \ Files : x = Boot \/ x \in Commands
    /\ Boot \in Callbacks \ Files /\ Boot \notin Commands
    /\ Calls \subseteq Commands /\ Vars \subseteq BootCallbacks /\ BootCallbacks \subseteq Callbacks
    /\ BootCallbacks \cap Calls = {} /\ BootCallbacks \cap Files = {}
BY CommandsAssumption DEF Commands, Callbacks, BootCallbacks, Vars

LEMMA FirstVar == VarNames[1] \in Vars /\ 1 \in DOMAIN VarNames
<1>1. VarNames \in Seq(ToSet(VarNames)) /\ VarNames # <<>>
  BY CommandsAssumption
<1> QED
  BY <1>1 DEF Vars

-----------------------------------------------------------------------------
(* A session is there: its callback goes on.                               *)

Named(x) == IF x = Boot THEN VarNames[1] ELSE x

LEMMA NamedIs ==
    ASSUME NEW x \in Callbacks \ Files
    PROVE  /\ Named(x) \in Commands
           /\ x \in Calls => Named(x) = x
           /\ x \notin Calls => x \in BootCallbacks /\ Named(x) \in Vars
           /\ UntriedFrom(x) => UntriedFrom(Named(x))
<1>1. CASE x = Boot
  <2>1. Named(x) = VarNames[1] /\ x \notin Calls /\ x \in BootCallbacks
    BY <1>1, CommandsAre DEF Named, BootCallbacks
  <2>2. UntriedFrom(x) => \A j \in DOMAIN VarNames : Untried(j)
    BY <1>1 DEF UntriedFrom
  <2> QED
    BY <2>1, <2>2, FirstVar, VarsAre DEF UntriedFrom
<1>2. CASE x # Boot
  BY <1>2, CommandsAre DEF Named
<1> QED
  BY <1>1, <1>2

LEMMA SftpOpensCopy ==
    ASSUME IInv, NEW q \in sftpAsks, q.of[1] \in Files, sftpAsks' = sftpAsks \ {q},
           UNCHANGED <<conns, transfers, stat, batch, reran>>, turn' = q.of[1]
    PROVE  BatchOnce'
<1> DEFINE old == <<"ask", q>>
           new == <<"turn", q.of[1]>>
<1> SUFFICES ASSUME reran \cap Files = {}
             PROVE  AtMostOne(CopyTokens') /\ BatchInOrder'
  BY DEF BatchOnce, AtMostOne
<1>1. AtMostOne(CopyTokens) /\ BatchInOrder
  BY InvParts DEF BatchOnce
<1>2. old \in Waits({q.of[1]}) /\ old \in Waits(Files) /\ Waits(Files)' \subseteq Waits(Files) \ {old}
  BY OpenedTakes
<1>3. IsNext(q.of[1])
  BY <1>1, <1>2 DEF BatchInOrder
<1>4. old \in CopyTokens /\ old \notin CopyRest
  BY <1>2, CopyTokensAre DEF WaitKinds
<1>5. CopyTokens' \subseteq (CopyTokens \ {old}) \cup {new}
  <2>1. CopyRest' \subseteq CopyRest \cup {new}
    BY DEF CopyRest
  <2> QED
    BY <1>2, <1>4, <2>1, CopyTokensAre
<1> HIDE DEF old, new
<1>6. AtMostOne(CopyTokens') /\ CopyTokens' \subseteq {new}
  BY <1>1, <1>4, <1>5 DEF AtMostOne
<1>7. \A f \in Files : Waits({f})' = {}
  <2>1. new[1] \notin WaitKinds
    BY DEF new, WaitKinds
  <2>2. \A f \in Files : Waits({f})' \subseteq {new}
    BY <1>6, WaitsGrow, CopyTokensAre
  <2>3. \A f : \A w \in Waits({f})' : w[1] \in WaitKinds
    BY WaitsThen DEF WaitKinds
  <2> QED
    BY <2>1, <2>2, <2>3
<1>8. \A x \in transfers' : IsNext(x.file)'
  BY <1>1 DEF BatchInOrder, IsNext
<1>9. IsNext(turn)'
  BY <1>3 DEF IsNext
<1>10. batch # "idle" /\ batch # "answered"
  BY <1>1, <1>4 DEF BatchInOrder
<1>11. /\ Len(stat') <= Len(Copies)
       /\ \A i \in 1 .. Len(stat') : stat'[i].file = Copies[i]
       /\ batch' # "idle" /\ batch' # "answered"
  BY <1>1, <1>10 DEF BatchInOrder
<1> QED
  BY <1>6, <1>7, <1>8, <1>9, <1>11 DEF BatchInOrder

LEMMA SftpOpensCall ==
    ASSUME IInv, NEW q \in sftpAsks, NEW c \in Calls, q.of[1] = c, sftpAsks' = sftpAsks \ {q},
           UNCHANGED <<conns, issued, tries, reran>>, asked' = [asked EXCEPT ![c] = @ + 1],
           c \notin reran
    PROVE  AtMostOne(CallTokens(c)')
<1> DEFINE old == <<"ask", q>>
           new == <<"asked", asked[c] + 1>>
<1>1. AtMostOne(CallTokens(c))
  BY InvParts DEF CallsOnce
<1>2. old \in Waits({c}) /\ Waits({c})' \subseteq Waits({c}) \ {old}
  BY OpenedTakes
<1>3. old \in CallTokens(c) /\ old \notin CallRest(c)
  BY <1>2, CallTokensAre DEF WaitKinds
<1>4. CallRest(c)' \subseteq CallRest(c) \cup {new}
  <2>1. asked[c] \in Nat /\ asked'[c] = asked[c] + 1
    BY InvParts, CommandsAre DEF CallsTyped
  <2>2. 1 .. asked'[c] = 1 .. asked[c] \cup {asked[c] + 1}
    BY <2>1
  <2> QED
    BY <2>2 DEF CallRest
<1>5. CallTokens(c)' \subseteq (CallTokens(c) \ {old}) \cup {new}
  BY <1>2, <1>3, <1>4, CallTokensAre
<1> HIDE DEF old, new
<1> QED
  BY <1>1, <1>3, <1>5, OneMoves

LEMMA SftpOpensBoot ==
    ASSUME IInv, NEW q \in sftpAsks, q.of[1] \in BootCallbacks, sftpAsks' = sftpAsks \ {q},
           NEW v \in Vars, v = Named(q.of[1]),
           UNCHANGED <<conns, tries, reran>>, asked' = [asked EXCEPT ![v] = @ + 1], CallsTyped'
    PROVE  BootOnce'
<1> DEFINE old == <<"ask", q>>
           new == <<"asked", <<v, asked[v] + 1>>>>
<1> SUFFICES ASSUME reran \subseteq Calls \cup Files
             PROVE  AtMostOne(BootTokens') /\ BootInOrder'
  BY DEF BootOnce, AtMostOne
<1>1. AtMostOne(BootTokens) /\ BootInOrder
  BY InvParts DEF BootOnce
<1>2. /\ old \in Waits({q.of[1]}) /\ old \in Waits(BootCallbacks)
      /\ Waits(BootCallbacks)' \subseteq Waits(BootCallbacks) \ {old}
  BY OpenedTakes
<1>3. UntriedFrom(v)
  <2>1. UntriedFrom(q.of[1])
    BY <1>1, <1>2 DEF BootInOrder
  <2> QED
    BY <2>1, NamedIs, CommandsAre
<1>4. old \in BootTokens /\ old \notin BootRest
  BY <1>2, BootTokensAre DEF WaitKinds
<1>5. BootRest' \subseteq BootRest \cup {new}
  <2>1. \A u \in Vars : asked[u] \in Nat /\ asked'[u] = IF u = v THEN asked[u] + 1 ELSE asked[u]
    BY InvParts, CommandsAre, VarsAre DEF CallsTyped
  <2>2. \A u \in Vars : 1 .. asked'[u] \subseteq 1 .. asked[u] \cup
                           {i \in {asked[u] + 1} : u = v}
    BY <2>1
  <2>3. Again' \subseteq Again \cup {<<v, asked[v] + 1>>}
    BY <2>2, AgainAre
  <2>4. Running' = Running
    BY DEF Running, Tries, At
  <2> QED
    BY <2>3, <2>4 DEF BootRest
<1>6. BootTokens' \subseteq (BootTokens \ {old}) \cup {new}
  BY <1>2, <1>4, <1>5, BootTokensAre
<1>7. new[1] = "asked" /\ \A u : \A i : new = <<"asked", <<u, i>>>> => u = v
      /\ \A t : new # <<"try", t>>
  OBVIOUS
<1> HIDE DEF old, new
<1>8. BootTokens' \subseteq {new}
  BY <1>1, <1>4, <1>6, OneMoves
<1>9. UntriedFrom(v)' /\ \A u \in Vars : Len(tries'[u]) <= 1
  BY <1>1, <1>3 DEF UntriedFrom, Untried, BootInOrder
<1>10. \A x : new \notin Waits({x})'
  BY <1>7, WaitsThen
<1>11. \A u \in Vars : \A i : new = <<"asked", <<u, i>>>> => UntriedFrom(u)'
  BY <1>7, <1>9
<1>12. Settles(new)
  <2>1. \A u \in Vars : Len(tries'[u]) <= 1
    BY <1>9
  <2>2. \A x \in BootCallbacks : new \in Waits({x})' => UntriedFrom(x)'
    BY <1>10
  <2>3. \A t : new = <<"try", t>> => UntriedAfter(t[1])'
    BY <1>7
  <2> QED
    BY <1>8, <1>11, <2>1, <2>2, <2>3 DEF Settles
<1> QED
  BY <1>12, BootSettles

(* A call, or the boot, that the step is not about.                        *)
LEMMA CallStays ==
    ASSUME IInv, UNCHANGED reran, NEW c \in Calls \ reran, Passes({c}),
           c \in issued => c \in issued', asked'[c] = asked[c], DOMAIN tries'[c] \subseteq DOMAIN tries[c]
    PROVE  AtMostOne(CallTokens(c)')
<1>1. asked[c] \in Nat /\ CallsTyped /\ CallsOnce
  BY InvParts, CommandsAre DEF CallsTyped
<1> QED
  BY <1>1, CallKept

LEMMA BootStays ==
    ASSUME IInv, UNCHANGED reran, \A X : X \subseteq BootCallbacks => Passes(X),
           \A v \in Vars : asked'[v] = asked[v], SameTries(Vars)
    PROVE  BootOnce'
<1>1. /\ \A v \in Vars : asked[v] \in Nat
      /\ CallsTyped /\ BootOnce
  BY InvParts, VarsAre DEF CallsTyped
<1> QED
  BY <1>1, BootKept

LEMMA SftpOpensKeeps ==
    ASSUME IInv, NEW q \in sftpAsks, SftpOpens(q)
    PROVE  IInv'
<1> DEFINE x == q.of[1]
<1>1. /\ sftp' = q.conn /\ sftpAsks' = sftpAsks \ {q} /\ NoFault
      /\ UNCHANGED <<up, current, conns, issued, tryVars, transfers, stat, batch, reran>>
      /\ boot' \in {boot, "launched"}
      /\ x \in Files => turn' = x /\ UNCHANGED asked
      /\ x \notin Files => turn' = NoCopy /\ asked' = [asked EXCEPT ![Named(x)] = @ + 1]
  BY DEF SftpOpens, CallBack, Named
<1>2. Lasts /\ Conns' = Conns
  BY <1>1, StillLasts
<1>3. q.of \in Conns /\ q.conn \in Conns /\ x \in Callbacks
  BY InvParts, NameIsOfCallback DEF ConnsTyped
<1>4. ConnsTyped'
  BY <1>1, <1>2, <1>3, InvParts DEF ConnsTyped
<1>5. CallsTyped'
  <2>1. CASE x \in Files
    BY <1>1, <2>1, InvParts DEF CallsTyped
  <2>2. CASE x \notin Files
    BY <1>1, <1>3, <2>2, InvParts, NamedIs DEF CallsTyped
  <2> QED
    BY <2>1, <2>2
<1>6. TriesTyped' /\ TableExact' /\ AnswersSound'
  BY <1>1, <1>2, InvParts, TriesKept
<1>7. CopiesTyped'
  BY <1>1, <1>2, InvParts DEF CopiesTyped
<1>8. HistoryTyped'
  BY <1>1, InvParts, FaultsTyped
<1>9. UNCHANGED tries /\ \A C : SameTries(C)
  BY <1>1, StillSameTries DEF tryVars
<1>10. \A X : Passes(X)
  <2>1. Quiet
    BY <1>1, <1>2 DEF Quiet, State
  <2> QED
    BY <2>1, QuietPasses
<1>11. WaitersPass
  BY <1>10 DEF WaitersPass
<1> HIDE DEF x
<1>12. CASE x \in Files
  <2>1. CallsOnce' /\ BootOnce'
    BY <1>1, <1>9, <1>11, <1>12, TokensKept
  <2>2. BatchOnce'
    BY <1>1, <1>12, SftpOpensCopy DEF x
  <2> QED
    BY <1>4, <1>5, <1>6, <1>7, <1>8, <2>1, <2>2, InvParts
<1>13. CASE x \notin Files
  <2>1. BatchOnce'
    BY <1>1, <1>11, <1>13, BatchStays
  <2>2. Named(x) \in Commands /\ asked' = [asked EXCEPT ![Named(x)] = @ + 1]
    BY <1>1, <1>3, <1>13, NamedIs
  <2>3. \A c \in Commands : c # Named(x) => asked'[c] = asked[c]
    BY <2>2, InvParts DEF CallsTyped
  <2>4. ASSUME NEW c \in Calls \ reran
        PROVE  AtMostOne(CallTokens(c)')
    <3>1. CASE x = c
      <4>1. Named(x) = c
        BY <1>3, <1>13, <3>1, NamedIs
      <4> QED
        BY <1>1, <1>9, <2>2, <3>1, <4>1, SftpOpensCall DEF x
    <3>2. CASE x # c
      <4>1. Named(x) # c
        BY <1>3, <1>13, <3>2, NamedIs, VarsAre
      <4>2. asked'[c] = asked[c]
        BY <2>3, <4>1, CommandsAre
      <4> QED
        BY <1>1, <1>9, <1>10, <4>2, CallStays
    <3> QED
      BY <3>1, <3>2
  <2>5. CallsOnce'
    BY <1>1, <2>4 DEF CallsOnce
  <2>6. BootOnce'
    <3>1. CASE x \in Calls
      <4>1. Named(x) = x /\ x \notin Vars
        BY <1>3, <1>13, <3>1, NamedIs, VarsAre
      <4>2. \A v \in Vars : asked'[v] = asked[v]
        BY <2>3, <4>1, VarsAre
      <4> QED
        BY <1>1, <1>9, <1>10, <4>2, BootStays
    <3>2. CASE x \notin Calls
      <4>1. x \in BootCallbacks /\ Named(x) \in Vars
        BY <1>3, <1>13, <3>2, NamedIs
      <4> QED
        BY <1>1, <1>5, <1>9, <2>2, <4>1, SftpOpensBoot DEF x
    <3> QED
      BY <3>1, <3>2
  <2> QED
    BY <1>4, <1>5, <1>6, <1>7, <1>8, <2>1, <2>5, <2>6, InvParts
<1> QED
  BY <1>12, <1>13

-----------------------------------------------------------------------------
(* A command is run: for the first time, or again with a new connection.   *)

Begins(c) ==
    \/ c \in Calls \ issued /\ issued' = issued \cup {c} /\ UNCHANGED asked
    \/ asked[c] > 0 /\ asked' = [asked EXCEPT ![c] = @ - 1] /\ UNCHANGED issued

Sent(c) ==
    /\ current \in Conns
    /\ tries' = [tries EXCEPT ![c] = Append(@, [conn |-> current, at |-> "sent"])]
    /\ inFlight' = inFlight \cup {<<c, Len(tries'[c])>>}
    /\ UNCHANGED <<current, sftp, conns>>

Reconnects(c) ==
    /\ current' = NoConn /\ sftp' = NoConn
    /\ conns' = Connect(conns, c)
    /\ UNCHANGED <<tries, inFlight>>

ExecRest == NoFault /\ UNCHANGED <<up, boot, sftpAsks, answers, copyVars, reran>>

LEMMA ExecIs ==
    ASSUME IInv, NEW c \in Commands, Exec(c)
    PROVE  ExecRest /\ (Sent(c) \/ Reconnects(c))
<1>1. current \in Conns \cup {NoConn}
  BY InvParts DEF ConnsTyped
<1> QED
  BY <1>1 DEF Exec, Sent, Reconnects, ExecRest, IsOpen

Owed(c) == ({"new"} \X ({c} \ issued)) \cup ({"asked"} \X (1 .. asked[c]))

LEMMA RestIs ==
    /\ \A c : CallRest(c) = Owed(c) \cup ({"try"} \X DOMAIN tries[c])
    /\ \A c : CallRest(c)' = Owed(c)' \cup ({"try"} \X DOMAIN tries'[c])
BY DEF CallRest, Owed

LEMMA BeginsTakes ==
    ASSUME CallsTyped, NEW c \in Commands, Begins(c), UNCHANGED <<up, boot>>
    PROVE  /\ CallsTyped'
           /\ \E old \in Owed(c) : Owed(c)' \subseteq Owed(c) \ {old}
           /\ \A d \in Commands : d # c => asked'[d] = asked[d]
           /\ issued \subseteq issued'
           /\ \A y \in Owed(c) : y[1] \in {"new", "asked"}
<1>1. asked \in [Commands -> Nat] /\ asked[c] \in Nat /\ issued \subseteq Calls
  BY DEF CallsTyped
<1>2. \A y \in Owed(c) : y[1] \in {"new", "asked"}
  BY DEF Owed
<1>3. CASE c \in Calls \ issued /\ issued' = issued \cup {c} /\ UNCHANGED asked
  <2> DEFINE old == <<"new", c>>
  <2>1. old \in Owed(c) /\ Owed(c)' \subseteq Owed(c) \ {old}
    BY <1>3 DEF Owed
  <2>2. CallsTyped'
    BY <1>1, <1>3 DEF CallsTyped
  <2> QED
    BY <1>2, <1>3, <2>1, <2>2
<1>4. CASE asked[c] > 0 /\ asked' = [asked EXCEPT ![c] = @ - 1] /\ UNCHANGED issued
  <2> DEFINE old == <<"asked", asked[c]>>
  <2>1. asked'[c] = asked[c] - 1 /\ \A d \in Commands : d # c => asked'[d] = asked[d]
    BY <1>1, <1>4
  <2>2. 1 .. asked'[c] \subseteq (1 .. asked[c]) \ {asked[c]} /\ asked[c] \in 1 .. asked[c]
    BY <1>1, <1>4, <2>1
  <2>3. old \in Owed(c) /\ Owed(c)' \subseteq Owed(c) \ {old}
    BY <1>4, <2>2 DEF Owed
  <2>4. CallsTyped'
    <3>1. asked' \in [Commands -> Nat]
      BY <1>1, <1>4
    <3> QED
      BY <1>4, <3>1 DEF CallsTyped
  <2> QED
    BY <1>2, <1>4, <2>1, <2>3, <2>4
<1> QED
  BY <1>3, <1>4 DEF Begins

(* What it does to the connections and to the others' tries.               *)
LEMMA SentRest ==
    ASSUME IInv, NEW c \in Commands, Sent(c), ExecRest
    PROVE  /\ ConnsTyped' /\ TriesTyped' /\ TableExact' /\ AnswersSound'
           /\ \A X : Waits(X)' \subseteq Waits(X) /\ Passes(X)
           /\ \A C \in SUBSET Commands : c \notin C => SameTries(C)
           /\ Conns' = Conns
<1>1. TriesTyped /\ TableExact /\ AnswersSound /\ ConnsTyped
  BY InvParts
<1>2. UNCHANGED <<current, sftp, conns, sftpAsks, answers>> /\ current \in Conns
  BY DEF Sent, ExecRest
<1>3. /\ tries' \in [Commands -> Seq([conn : Conns, at : Places])]
      /\ NewTry(c) \notin Tries /\ Tries' = Tries \cup {NewTry(c)}
      /\ \A u \in Tries : ConnOf(u)' = ConnOf(u) /\ At(u)' = At(u)
      /\ Len(tries'[c]) = Len(tries[c]) + 1
      /\ \A d \in Commands \ {c} : tries'[d] = tries[d]
  BY <1>1, <1>2, TrySent DEF Sent
<1>4. inFlight' = inFlight \cup {NewTry(c)}
  BY <1>3 DEF Sent, NewTry, NewName
<1>5. Lasts /\ Conns' = Conns
  BY <1>2, StillLasts
<1>6. ConnsTyped'
  BY <1>1, <1>2, <1>5 DEF ConnsTyped
<1>7. TriesTyped'
  <2>1. inFlight \subseteq Tries /\ answers \subseteq [try : Tries,
              how : {"success", "failure", "own close", "other close"}]
    BY <1>1 DEF TriesTyped
  <2>2. inFlight' \subseteq Tries' /\ answers' \subseteq [try : Tries',
              how : {"success", "failure", "own close", "other close"}]
    BY <1>2, <1>3, <1>4, <2>1
  <2> QED
    BY <1>3, <1>5, <2>2 DEF TriesTyped
<1>8. \A a \in answers : a.try \in Tries
  BY <1>1 DEF TriesTyped
<1>9. TableExact'
  BY <1>1, <1>2, <1>3, <1>4, <1>8 DEF TableExact
<1>10. AnswersSound'
  <2>1. \A u \in Tries : ConnOf(u) \in Conns
    BY <1>1, TryIs
  <2> QED
    BY <1>1, <1>2, <1>3, <1>5, <1>8, <2>1 DEF AnswersSound, TwiceOnlyAcross, Lasts
<1>11. \A X : Waits(X)' \subseteq Waits(X) /\ Passes(X)
  BY <1>2, StillQuiet, QuietPasses
<1>12. ASSUME NEW C \in SUBSET Commands, c \notin C
       PROVE  SameTries(C)
  <2>1. \A d \in C : tries'[d] = tries[d]
    BY <1>3, <1>12
  <2>2. NewTry(c)[1] = c
    BY DEF NewTry, NewName
  <2> QED
    BY <1>3, <1>12, <2>1, <2>2 DEF SameTries
<1> QED
  BY <1>5, <1>6, <1>7, <1>9, <1>10, <1>11, <1>12

LEMMA ReconnectsRest ==
    ASSUME IInv, NEW c \in Commands, Reconnects(c), ExecRest
    PROVE  /\ ConnsTyped' /\ TriesTyped' /\ TableExact' /\ AnswersSound'
           /\ \A X : c \notin X => Waits(X)' \subseteq Waits(X) /\ Passes(X)
           /\ \A X : Waits(X)' \subseteq Waits(X) \cup {<<"conn", NewConn(c)>>}
           /\ \A C : SameTries(C)
           /\ Conns \subseteq Conns'
<1>1. /\ conns' = Connect(conns, c) /\ current' = NoConn /\ sftp' = NoConn
      /\ UNCHANGED <<tries, inFlight, answers, sftpAsks>>
  BY DEF Reconnects, ExecRest
<1>2. Makes(c) /\ \A m \in Conns : State(m)' = State(m)
  BY <1>1, InvParts, CommandsAre, ConnMadeHere
<1>3. Lasts
  BY <1>2 DEF Makes, Lasts
<1>4. ConnsTyped'
  BY <1>1, <1>2, InvParts, ConnsTypedKept DEF Makes
<1>5. TriesTyped' /\ TableExact' /\ AnswersSound'
  BY <1>1, <1>3, InvParts, TriesKept DEF tryVars
<1>6. /\ \A X : c \notin X => Waits(X)' \subseteq Waits(X)
      /\ \A X : Waits(X)' \subseteq Waits(X) \cup {<<"conn", NewConn(c)>>}
  BY <1>1, <1>2, MadePasses
<1>7. \A C : SameTries(C)
  BY <1>1, StillSameTries
<1> QED
  BY <1>3, <1>4, <1>5, <1>6, <1>7 DEF Passes, Lasts

LEMMA ExecCall ==
    ASSUME IInv, NEW c \in Calls \ reran, Begins(c), Sent(c) \/ Reconnects(c), ExecRest
    PROVE  AtMostOne(CallTokens(c)')
<1>1. AtMostOne(CallTokens(c)) /\ c \in Commands
  BY InvParts, CommandsAre DEF CallsOnce
<1>2. PICK old \in Owed(c) : Owed(c)' \subseteq Owed(c) \ {old}
  BY <1>1, InvParts, BeginsTakes DEF ExecRest
<1>3. old[1] \in {"new", "asked"}
  BY <1>1, <1>2, InvParts, BeginsTakes DEF ExecRest
<1>4. old \in CallTokens(c) /\ old \notin Waits({c}) /\ \A i : old # <<"try", i>>
  <2>1. old \in CallRest(c) /\ old \in CallTokens(c)
    BY <1>2, CallTokensAre, RestIs
  <2>2. old[1] \notin WaitKinds
    BY <1>3 DEF WaitKinds
  <2>3. old \notin Waits({c})
    BY <2>2, WaitKind
  <2>4. ASSUME NEW i, old = <<"try", i>>
        PROVE  FALSE
    BY <1>3, <2>4
  <2> QED
    BY <2>1, <2>3, <2>4
<1>5. CASE Sent(c)
  <2> DEFINE new == <<"try", Len(tries[c]) + 1>>
  <2>1. DOMAIN tries'[c] = DOMAIN tries[c] \cup {Len(tries[c]) + 1}
    BY <1>1, <1>5, InvParts, TrySent DEF Sent
  <2>2. Waits({c})' \subseteq Waits({c})
    BY <1>1, <1>5, SentRest
  <2>3. CallRest(c)' \subseteq (CallRest(c) \ {old}) \cup {new}
    <3>1. {"try"} \X DOMAIN tries'[c] \subseteq ({"try"} \X DOMAIN tries[c]) \cup {new}
      BY <2>1
    <3> QED
      BY <1>2, <1>4, <3>1, RestIs
  <2> HIDE DEF new
  <2>4. CallTokens(c)' \subseteq (CallTokens(c) \ {old}) \cup {new}
    BY <1>4, <2>2, <2>3, CallTokensAre
  <2> QED
    BY <1>1, <1>4, <2>4, OneMoves
<1>6. CASE Reconnects(c)
  <2> DEFINE new == <<"conn", NewConn(c)>>
  <2>1. Waits({c})' \subseteq Waits({c}) \cup {new}
    BY <1>1, <1>6, ReconnectsRest
  <2>2. CallRest(c)' \subseteq CallRest(c) \ {old}
    <3>1. DOMAIN tries'[c] = DOMAIN tries[c]
      BY <1>6 DEF Reconnects
    <3> QED
      BY <1>2, <1>4, <3>1, RestIs
  <2> HIDE DEF new
  <2>3. CallTokens(c)' \subseteq (CallTokens(c) \ {old}) \cup {new}
    BY <1>4, <2>1, <2>2, CallTokensAre
  <2> QED
    BY <1>1, <1>4, <2>3, OneMoves
<1> QED
  BY <1>5, <1>6

LEMMA ExecBoot ==
    ASSUME IInv, NEW c \in Vars, Begins(c), Sent(c) \/ Reconnects(c), ExecRest, CallsTyped'
    PROVE  BootOnce'
<1> DEFINE old == <<"asked", <<c, asked[c]>>>>
<1> SUFFICES ASSUME reran \subseteq Calls \cup Files
             PROVE  AtMostOne(BootTokens') /\ BootInOrder'
  BY DEF BootOnce, AtMostOne, ExecRest
<1>1. AtMostOne(BootTokens) /\ BootInOrder /\ asked \in [Commands -> Nat]
  BY InvParts DEF BootOnce, CallsTyped
<1>2. c \in Commands /\ c \notin Calls /\ c \in BootCallbacks
  BY VarsAre, CommandsAre
<1>3. asked[c] > 0 /\ asked' = [asked EXCEPT ![c] = @ - 1]
  BY <1>2 DEF Begins
<1>4. UntriedFrom(c)
  BY <1>1, <1>3 DEF BootInOrder
<1>5. Again' \subseteq Again \ {<<c, asked[c]>>} /\ <<c, asked[c]>> \in Again
  <2>1. \A v \in Vars : asked[v] \in Nat /\ asked'[v] = IF v = c THEN asked[v] - 1 ELSE asked[v]
    BY <1>1, <1>3, VarsAre
  <2>2. \A v \in Vars : 1 .. asked'[v] \subseteq 1 .. asked[v]
    BY <2>1
  <2>3. asked[c] \notin 1 .. asked'[c] /\ asked[c] \in 1 .. asked[c]
    BY <1>3, <2>1
  <2> QED
    BY <2>2, <2>3, AgainAre
<1>6. old \in BootTokens /\ old \notin Waits(BootCallbacks)
  BY <1>5, BootTokensAre, WaitKind DEF BootRest, WaitKinds
<1>7. \A t : old # <<"try", t>>
  OBVIOUS
<1>8. \A n : old # <<"conn", n>>
  OBVIOUS
<1>9. ({"asked"} \X Again') \subseteq ({"asked"} \X Again) \ {old}
  BY <1>5
<1> HIDE DEF old
<1>10. CASE Sent(c)
  <2> DEFINE new == <<"try", NewTry(c)>>
  <2>1. /\ Tries' = Tries \cup {NewTry(c)}
        /\ \A u \in Tries : At(u)' = At(u)
        /\ Len(tries'[c]) = Len(tries[c]) + 1
        /\ \A d \in Commands \ {c} : tries'[d] = tries[d]
    BY <1>2, <1>10, InvParts, TrySent DEF Sent
  <2>2. Waits(BootCallbacks)' \subseteq Waits(BootCallbacks)
    BY <1>2, <1>10, SentRest
  <2>3. {"try"} \X Running' \subseteq ({"try"} \X Running) \cup {new}
    BY <2>1 DEF Running
  <2>4. new[1] = "try" /\ \A t : new = <<"try", t>> => t = NewTry(c)
    OBVIOUS
  <2> HIDE DEF new
  <2>5. BootTokens' \subseteq (BootTokens \ {old}) \cup {new}
    BY <1>6, <1>7, <1>9, <2>2, <2>3, BootTokensAre DEF BootRest
  <2>6. BootTokens' \subseteq {new}
    BY <1>1, <1>6, <2>5, OneMoves
  <2>7. PICK k \in DOMAIN VarNames : VarNames[k] = c
    BY VarsAre
  <2>8. \A j \in DOMAIN VarNames : k <= j => Untried(j)
    BY <1>4, <2>7 DEF UntriedFrom
  <2>9. \A v \in Vars : Len(tries'[v]) <= 1
    <3>1. tries[c] = <<>>
      BY <2>7, <2>8, CommandsAssumption DEF Untried
    <3>2. Len(tries'[c]) <= 1
      BY <2>1, <3>1
    <3>3. \A v \in Vars : v # c => Len(tries'[v]) <= 1
      BY <1>1, <2>1, VarsAre DEF BootInOrder
    <3> QED
      BY <3>2, <3>3, Zenon
  <2>10. UntriedAfter(c)'
    <3> SUFFICES ASSUME NEW j \in DOMAIN VarNames, NEW i \in DOMAIN VarNames,
                        i < j, VarNames[i] = c
                 PROVE  tries'[VarNames[j]] = <<>>
      BY DEF UntriedAfter, Untried
    <3>1. i = k /\ VarNames[j] # c
      BY <2>7, CommandsAssumption DEF IsInjective
    <3>2. Untried(j)
      BY <2>8, <3>1, CommandsAssumption
    <3> QED
      BY <2>1, <3>1, <3>2, VarsAre DEF Untried
  <2>11. Settles(new)
    <3>1. \A x : new \notin Waits({x})'
      BY <2>4, WaitsThen
    <3>2. \A v : \A i : new # <<"asked", <<v, i>>>>
      BY <2>4
    <3>3. NewTry(c)[1] = c
      BY DEF NewTry, NewName
    <3>4. \A t : new = <<"try", t>> => UntriedAfter(t[1])'
      BY <2>4, <2>10, <3>3
    <3>5. \A x \in BootCallbacks : new \in Waits({x})' => UntriedFrom(x)'
      BY <3>1
    <3>6. \A v \in Vars : \A i : new = <<"asked", <<v, i>>>> => UntriedFrom(v)'
      BY <3>2
    <3> QED
      BY <2>6, <2>9, <3>4, <3>5, <3>6 DEF Settles
  <2> QED
    BY <2>11, BootSettles
<1>11. CASE Reconnects(c)
  <2> DEFINE new == <<"conn", NewConn(c)>>
  <2>1. /\ \A X : c \notin X => Waits(X)' \subseteq Waits(X)
        /\ Waits(BootCallbacks)' \subseteq Waits(BootCallbacks) \cup {new}
        /\ tries' = tries
    BY <1>2, <1>11, ReconnectsRest DEF Reconnects
  <2>2. Running' = Running
    BY <2>1 DEF Running, Tries, At
  <2>3. new # old /\ new[1] = "conn"
    BY <1>8
  <2> HIDE DEF new
  <2>4. BootTokens' \subseteq (BootTokens \ {old}) \cup {new}
    <3>1. old \notin {"try"} \X Running
      BY <1>7
    <3> QED
      BY <1>6, <1>9, <2>1, <2>2, <3>1, BootTokensAre DEF BootRest
  <2>5. BootTokens' \subseteq {new}
    BY <1>1, <1>6, <2>4, OneMoves
  <2>6. \A x : UntriedFrom(x)' <=> UntriedFrom(x)
    BY <2>1 DEF UntriedFrom, Untried
  <2>7. ASSUME NEW x \in BootCallbacks, new \in Waits({x})'
        PROVE  UntriedFrom(x)'
    <3>1. CASE x = c
      BY <1>4, <2>6, <3>1
    <3>2. CASE x # c
      <4>1. new \in Waits({x})
        BY <2>1, <2>7, <3>2
      <4>2. new \in BootTokens
        BY <4>1, WaitsGrow, BootTokensAre
      <4> QED
        BY <1>1, <1>6, <2>3, <4>2 DEF AtMostOne
    <3> QED
      BY <3>1, <3>2
  <2>8. Settles(new)
    <3>1. \A v \in Vars : Len(tries'[v]) <= 1
      BY <1>1, <2>1 DEF BootInOrder
    <3>2. /\ \A v \in Vars : \A i : new = <<"asked", <<v, i>>>> => UntriedFrom(v)'
          /\ \A t : new = <<"try", t>> => UntriedAfter(t[1])'
      BY <2>3
    <3> QED
      BY <2>5, <2>7, <3>1, <3>2 DEF Settles
  <2> QED
    BY <2>8, BootSettles
<1> QED
  BY <1>10, <1>11

LEMMA ExecKeeps ==
    ASSUME IInv, NEW c \in Commands, Begins(c), Exec(c)
    PROVE  IInv'
<1>1. ExecRest /\ (Sent(c) \/ Reconnects(c))
  BY ExecIs
<1>2. NoFault /\ UNCHANGED <<up, boot, turn, transfers, stat, batch, reran>>
  BY <1>1 DEF ExecRest, copyVars
<1>3. /\ CallsTyped' /\ issued \subseteq issued'
      /\ \A d \in Commands : d # c => asked'[d] = asked[d]
  BY <1>2, InvParts, BeginsTakes
<1>4. /\ ConnsTyped' /\ TriesTyped' /\ TableExact' /\ AnswersSound' /\ Conns \subseteq Conns'
      /\ \A X : c \notin X => Passes(X)
      /\ \A C \in SUBSET Commands : c \notin C => SameTries(C)
  BY <1>1, SentRest, ReconnectsRest
<1>5. CopiesTyped' /\ HistoryTyped'
  BY <1>2, <1>4, InvParts, CopiesTypedKept, FaultsTyped
<1>6. CallsOnce'
  <2> SUFFICES ASSUME NEW d \in Calls \ reran
               PROVE  AtMostOne(CallTokens(d)')
    BY <1>2 DEF CallsOnce
  <2>1. CASE d = c
    BY <1>1, <2>1, ExecCall
  <2>2. CASE d # c
    <3>1. SameTries({d}) /\ Passes({d}) /\ d \in Commands
      BY <1>4, <2>2, CommandsAre
    <3>2. DOMAIN tries'[d] \subseteq DOMAIN tries[d] /\ asked'[d] = asked[d]
      BY <1>3, <2>2, <3>1 DEF SameTries
    <3> QED
      BY <1>2, <1>3, <3>1, <3>2, CallStays
  <2> QED
    BY <2>1, <2>2
<1>7. BootOnce'
  <2>1. CASE c \in Vars
    BY <1>1, <1>3, <2>1, ExecBoot
  <2>2. CASE c \notin Vars
    <3>1. SameTries(Vars)
      BY <1>4, <2>2, VarsAre
    <3>2. c \notin BootCallbacks
      BY <2>2, CommandsAre DEF BootCallbacks
    <3>3. \A v \in Vars : asked'[v] = asked[v]
      BY <1>3, <2>2, VarsAre
    <3> QED
      BY <1>2, <1>4, <3>1, <3>2, <3>3, BootStays
  <2> QED
    BY <2>1, <2>2
<1>8. BatchOnce'
  <2>1. Passes(Files) /\ \A f \in Files : Passes({f})
    BY <1>4, CommandsAre
  <2> QED
    BY <1>2, <2>1, InvParts, BatchKept
<1> QED
  BY <1>3, <1>4, <1>5, <1>6, <1>7, <1>8, InvParts

-----------------------------------------------------------------------------
(* A command starts, ends or is failed.                                    *)

(* A try that has not come to its end goes on; nothing else is touched but *)
(* the table, the answers and what the caller does with one.               *)
TryStep(t, place) ==
    /\ t \in Tries /\ place \in Places /\ At(t) # "ended"
    /\ Goes(t, place)
    /\ NoFault \/ \E kind : Fault(kind)
    /\ UNCHANGED <<connVars, issued, copyVars, reran>>

LEMMA TryStepRest ==
    ASSUME IInv, NEW t, NEW place, TryStep(t, place)
    PROVE  /\ ConnsTyped' /\ CopiesTyped' /\ HistoryTyped' /\ BatchOnce'
           /\ SameTries(Commands) /\ WaitersPass
           /\ \A X : Waits(X)' \subseteq Waits(X) /\ Passes(X)
           /\ tries' \in [Commands -> Seq([conn : Conns, at : Places])]
           /\ Conns' = Conns /\ \A n \in Conns : State(n)' = State(n)
           /\ Tries' = Tries
           /\ \A u \in Tries : ConnOf(u)' = ConnOf(u) /\ At(u)' = IF u = t THEN place ELSE At(u)
<1>1. /\ UNCHANGED <<current, sftp, conns, sftpAsks, turn, transfers, stat, batch, reran>>
      /\ t \in Tries /\ place \in Places /\ At(t) # "ended" /\ Goes(t, place)
  BY DEF TryStep, connVars, copyVars
<1>2. Conns' = Conns /\ \A n \in Conns : State(n)' = State(n)
  BY <1>1 DEF Conns, State
<1>3. ConnsTyped' /\ CopiesTyped'
  BY <1>1, <1>2, InvParts, CopiesTypedKept DEF ConnsTyped
<1>4. HistoryTyped'
  BY <1>1, InvParts, FaultsTyped DEF TryStep
<1>5. \A X : Waits(X)' \subseteq Waits(X) /\ Passes(X)
  BY <1>1, StillQuiet, QuietPasses
<1>6. WaitersPass
  BY <1>5 DEF WaitersPass
<1>7. BatchOnce'
  BY <1>1, <1>6, BatchStays
<1>8. /\ tries' \in [Commands -> Seq([conn : Conns, at : Places])]
      /\ Tries' = Tries
      /\ \A u \in Tries : ConnOf(u)' = ConnOf(u) /\ At(u)' = IF u = t THEN place ELSE At(u)
      /\ \A c \in Commands : DOMAIN tries'[c] = DOMAIN tries[c] /\ Len(tries'[c]) = Len(tries[c])
  BY <1>1, InvParts, TryGoes
<1>9. SameTries(Commands)
  <2>1. ASSUME NEW c \in Commands, tries[c] = <<>>
        PROVE  tries'[c] = <<>>
    <3> DEFINE V == [conn : Conns, at : Places]
    <3>1. tries'[c] \in Seq(V) /\ Len(tries'[c]) = 0
      BY <1>8, <2>1
    <3> HIDE DEF V
    <3> QED
      BY <3>1
  <2> QED
    BY <1>1, <1>8, <2>1 DEF SameTries
<1> QED
  BY <1>2, <1>3, <1>4, <1>5, <1>6, <1>7, <1>8, <1>9

(* A try nobody is told of.                                                *)
LEMMA TryGoesKeeps ==
    ASSUME IInv, NEW t, NEW place, TryStep(t, place),
           UNCHANGED <<up, boot, asked, inFlight, answers>>
    PROVE  IInv'
<1>1. TryStep(t, place)
  OBVIOUS
<1>2. UNCHANGED <<up, boot, issued, asked, inFlight, answers, reran>> /\ At(t) # "ended"
  BY DEF TryStep
<1>3. CallsTyped'
  BY <1>2, InvParts DEF CallsTyped
<1>4. Tries' = Tries /\ Conns' = Conns
  BY <1>1, TryStepRest
<1>5. TriesTyped' /\ TableExact'
  <2>1. tries' \in [Commands -> Seq([conn : Conns, at : Places])]
    BY <1>1, TryStepRest
  <2> QED
    BY <1>2, <1>4, <2>1, InvParts DEF TriesTyped, TableExact
<1>6. AnswersSound'
  <2>1. /\ \A n \in Conns : State(n)' = State(n)
        /\ \A u \in Tries : ConnOf(u)' = ConnOf(u) /\ At(u)' = IF u = t THEN place ELSE At(u)
    BY <1>1, TryStepRest
  <2>2. /\ \A u \in Tries : ConnOf(u) \in Conns
        /\ \A a \in answers : a.try \in Tries
    BY InvParts, TryIs DEF TriesTyped
  <2> QED
    BY <1>2, <2>1, <2>2, InvParts DEF AnswersSound, TwiceOnlyAcross
<1>7. CallsOnce' /\ BootOnce'
  BY <1>1, <1>2, TryStepRest, TokensKept
<1> QED
  BY <1>1, <1>3, <1>5, <1>6, <1>7, TryStepRest, InvParts

LEMMA StartsKeeps ==
    ASSUME IInv, NEW t \in Tries, Starts(t)
    PROVE  IInv'
<1>1. PICK place \in {"streaming", "ignored"} : TryStep(t, place)
  BY DEF Starts, TryStep, Places, connVars, copyVars
<1>2. UNCHANGED <<up, boot, asked, inFlight, answers>>
  BY DEF Starts
<1> QED
  BY <1>1, <1>2, TryGoesKeeps

(* The try is answered, while its connection is open.                      *)
LEMMA AnswerKept ==
    ASSUME IInv, NEW t, TryStep(t, "ended"), IsOpen(ConnOf(t)), NEW how \in {"success", "failure"},
           inFlight' = inFlight \ {t}, answers' = answers \cup {Answer(t, how)}
    PROVE  TriesTyped' /\ TableExact' /\ AnswersSound'
<1> DEFINE b == Answer(t, how)
<1>1. /\ tries' \in [Commands -> Seq([conn : Conns, at : Places])]
      /\ Conns' = Conns /\ \A n \in Conns : State(n)' = State(n)
      /\ Tries' = Tries
      /\ \A u \in Tries : ConnOf(u)' = ConnOf(u) /\ At(u)' = IF u = t THEN "ended" ELSE At(u)
  BY TryStepRest
<1>2. /\ b \in [try : Tries, how : {"success", "failure"}] /\ b.try = t /\ b.how = how
      /\ At(t) # "ended" /\ State(ConnOf(t)) = "open"
  BY DEF Answer, TryStep, IsOpen
<1> HIDE DEF b
<1>3. answers' = answers \cup {b}
  BY DEF b
<1>4. /\ inFlight \subseteq Tries
      /\ answers \subseteq [try : Tries, how : {"success", "failure", "own close", "other close"}]
      /\ \A u \in Tries : ConnOf(u) \in Conns
  BY InvParts, TryIs DEF TriesTyped
<1>5. TriesTyped'
  BY <1>1, <1>2, <1>3, <1>4 DEF TriesTyped
<1>6. TableExact'
  <2>1. {a.try : a \in answers'} = {a.try : a \in answers} \cup {t}
    BY <1>2, <1>3
  <2> QED
    BY <1>1, <2>1, InvParts DEF TableExact
<1>7. /\ \A a \in answers : a.how = "own close" => State(ConnOf(a.try)) = "closed"
      /\ \A a \in answers : a.how \in {"success", "failure"} => At(a.try) = "ended"
      /\ TwiceOnlyAcross
  BY InvParts DEF AnswersSound
<1>8. \A a \in answers : a.try = t => a.how = "other close"
  BY <1>2, <1>4, <1>7
<1>9. TwiceOnlyAcross'
  BY <1>2, <1>3, <1>7, <1>8 DEF TwiceOnlyAcross
<1>10. \A a \in answers' : a.how = "own close" => a \in answers
  BY <1>2, <1>3
<1>11. \A a \in answers' : a.try \in Tries
  BY <1>2, <1>3, <1>4
<1>12. \A a \in answers' : a.how = "own close" => State(ConnOf(a.try))' = "closed"
  BY <1>1, <1>4, <1>7, <1>10, <1>11 DEF State
<1>13. \A a \in answers' : a.how \in {"success", "failure"} => At(a.try)' = "ended"
  BY <1>1, <1>2, <1>3, <1>7, <1>11
<1> QED
  BY <1>5, <1>6, <1>9, <1>12, <1>13 DEF AnswersSound

(* The close of a connection answers every try in the table, once.         *)
LEMMA FailedByAre ==
    ASSUME NEW n
    PROVE  /\ \A b \in FailedBy(n) :
                 /\ b.try \in inFlight /\ b = [try |-> b.try, how |-> b.how]
                 /\ b.how \in {"own close", "other close"}
                 /\ b.how = "own close" => ConnOf(b.try) = n
           /\ \A t \in inFlight : \E b \in FailedBy(n) : b.try = t
           /\ \A a, b \in FailedBy(n) : a.try = b.try => a = b
<1> DEFINE how(t) == IF ConnOf(t) = n THEN "own close" ELSE "other close"
<1>1. \A t : how(t) \in {"own close", "other close"} /\ (how(t) = "own close" => ConnOf(t) = n)
  OBVIOUS
<1>2. FailedBy(n) = {[try |-> t, how |-> how(t)] : t \in inFlight}
  BY DEF FailedBy, Answer
<1> HIDE DEF how
<1>3. \A b : b \in FailedBy(n) <=> \E t \in inFlight : b = [try |-> t, how |-> how(t)]
  BY <1>2
<1>4. ASSUME NEW b \in FailedBy(n)
      PROVE  b.try \in inFlight /\ b = [try |-> b.try, how |-> how(b.try)] /\ b.how = how(b.try)
  BY <1>3
<1>5. \A t \in inFlight : \E b \in FailedBy(n) : b.try = t
  <2> TAKE t \in inFlight
  <2>1. [try |-> t, how |-> how(t)] \in FailedBy(n)
    BY <1>3
  <2> QED
    BY <2>1
<1> QED
  BY <1>1, <1>4, <1>5

LEMMA ClosesKeeps ==
    ASSUME IInv, NEW n \in Conns, Closes(n)
    PROVE  IInv'
<1>1. /\ State(n) = "lost" /\ conns' = Becomes(n, "closed") /\ inFlight' = {}
      /\ answers' = answers \cup FailedBy(n) /\ up' \in BOOLEAN /\ NoFault
      /\ UNCHANGED <<boot, current, sftp, sftpAsks, issued, asked, tries, copyVars, reran>>
  BY DEF Closes, NewTable
<1>2. Changes(n, "closed")
  BY <1>1, InvParts, ConnChanges DEF ConnStates
<1>3. /\ Conns' = Conns /\ State(n)' = "closed"
      /\ \A m \in Conns : m # n => State(m)' = State(m)
  BY <1>2 DEF Changes
<1>17. Tries' = Tries /\ \A t : ConnOf(t)' = ConnOf(t) /\ At(t)' = At(t)
  BY <1>1 DEF Tries, ConnOf, At
<1>4. ConnsTyped'
  BY <1>1, <1>2, InvParts, ConnsTypedKept DEF Changes
<1>5. CallsTyped' /\ HistoryTyped' /\ CopiesTyped'
  <2>1. UNCHANGED <<turn, transfers, stat, batch>>
    BY <1>1 DEF copyVars
  <2> QED
    BY <1>1, <1>3, <2>1, InvParts, FaultsTyped, CopiesTypedKept DEF CallsTyped
<1>6. \A X : Passes(X)
  <2>1. sftpAsks' \subseteq sftpAsks
    BY <1>1
  <2>2. \A m \in Conns : State(m)' = "connecting" => State(m) = "connecting"
    BY <1>1, <1>3
  <2>3. Quiet
    BY <1>3, <2>1, <2>2 DEF Quiet
  <2> QED
    BY <2>3, QuietPasses
<1>7. WaitersPass
  BY <1>6 DEF WaitersPass
<1>8. CallsOnce' /\ BootOnce' /\ BatchOnce'
  <2>1. UNCHANGED <<turn, transfers, stat, batch>>
    BY <1>1 DEF copyVars
  <2> QED
    BY <1>1, <1>7, <2>1, StillSameTries, TokensKept, BatchStays
<1>9. inFlight = Tries \ {a.try : a \in answers} /\ inFlight \subseteq Tries
      /\ answers \subseteq [try : Tries, how : {"success", "failure", "own close", "other close"}]
      /\ \A t \in Tries : ConnOf(t) \in Conns
  BY InvParts, TryIs DEF TableExact, TriesTyped
<1>10. ASSUME NEW b \in FailedBy(n)
       PROVE  /\ b.try \in inFlight /\ b = [try |-> b.try, how |-> b.how]
              /\ b.how \in {"own close", "other close"}
              /\ b.how = "own close" => ConnOf(b.try) = n
  BY <1>10, FailedByAre
<1>11. \A t \in inFlight : \E b \in FailedBy(n) : b.try = t
  BY FailedByAre
<1>16. \A a, b \in FailedBy(n) : a.try = b.try => a = b
  BY FailedByAre
<1>12. TriesTyped'
  <2>1. answers' \subseteq [try : Tries, how : {"success", "failure", "own close", "other close"}]
    <3>1. FailedBy(n) \subseteq [try : Tries, how : {"success", "failure", "own close", "other close"}]
      <4> SUFFICES ASSUME NEW b \in FailedBy(n)
                   PROVE  b \in [try : Tries, how : {"success", "failure", "own close", "other close"}]
        OBVIOUS
      <4>1. b.try \in Tries /\ b.how \in {"own close", "other close"}
        BY <1>9, <1>10
      <4>2. b = [try |-> b.try, how |-> b.how]
        BY <1>10
      <4> QED
        BY <4>1, <4>2
    <3> QED
      BY <1>1, <1>9, <1>17, <3>1
  <2> QED
    BY <1>1, <1>3, <1>17, <2>1, InvParts DEF TriesTyped
<1>13. TableExact'
  <2>1. \A t \in Tries : \E a \in answers' : a.try = t
    BY <1>1, <1>9, <1>11
  <2> QED
    BY <1>1, <1>17, <2>1 DEF TableExact
<1>14. TwiceOnlyAcross'
  <2>1. \A a \in answers, b \in FailedBy(n) : a.try # b.try
    BY <1>9, <1>10
  <2>2. TwiceOnlyAcross
    BY InvParts DEF AnswersSound
  <2> SUFFICES ASSUME NEW a \in answers', NEW b \in answers', a.try = b.try, a # b
               PROVE  /\ "other close" \in {a.how, b.how}
                      /\ {a.how, b.how} \cap {"success", "failure"} # {}
    BY DEF TwiceOnlyAcross
  <2>3. a \in answers /\ b \in answers
    BY <1>1, <1>16, <2>1
  <2> QED
    BY <2>2, <2>3 DEF TwiceOnlyAcross
<1>15. AnswersSound'
  <2>1. \A a \in answers : a.how = "own close" => State(ConnOf(a.try)) = "closed"
    BY InvParts DEF AnswersSound
  <2>2. \A a \in answers' : a.how = "own close" =>
           ConnOf(a.try) \in Conns /\ (ConnOf(a.try) = n \/ State(ConnOf(a.try)) = "closed")
    BY <1>1, <1>9, <1>10, <2>1
  <2>3. \A a \in answers' : a.how = "own close" => State(ConnOf(a.try))' = "closed"
    <3> TAKE a \in answers'
    <3>2. ConnOf(a.try)' = ConnOf(a.try)
      BY <1>17
    <3> QED
      BY <1>3, <2>2, <3>2 DEF State
  <2>4. \A a \in answers' : a.how \in {"success", "failure"} => At(a.try)' = "ended"
    <3>1. \A a \in answers' : a.how \in {"success", "failure"} => a \in answers
      BY <1>1, <1>10
    <3> QED
      BY <1>17, <3>1, InvParts DEF AnswersSound
  <2> QED
    BY <1>14, <2>3, <2>4 DEF AnswersSound
<1> QED
  BY <1>4, <1>5, <1>8, <1>12, <1>13, <1>15, InvParts

(* What the caller does with the answer.                                   *)
NextAsked(t, u) ==
    /\ \E i \in DOMAIN VarNames :
          i + 1 \in DOMAIN VarNames /\ VarNames[i] = t[1] /\ VarNames[i + 1] = u
    /\ asked' = [asked EXCEPT ![u] = @ + 1]

LEMMA AnsweredIs ==
    ASSUME NEW t, t[1] \in Commands, NEW ok \in BOOLEAN, Answered(t[1], ok),
           up \in BOOLEAN, boot \in {"connecting", "launched", "listening"}
    PROVE  /\ up' \in BOOLEAN /\ boot' \in {"connecting", "launched", "listening"}
           /\ UNCHANGED asked \/ \E u \in Vars : NextAsked(t, u)
<1>1. CASE t[1] \in Calls
  BY <1>1 DEF Answered
<1>2. CASE t[1] \notin Calls
  <2> DEFINE i == CHOOSE k \in DOMAIN VarNames : VarNames[k] = t[1]
  <2>1. i \in DOMAIN VarNames /\ VarNames[i] = t[1]
    <3>1. \E k \in DOMAIN VarNames : VarNames[k] = t[1]
      BY <1>2, CommandsAre, VarsAre
    <3> QED
      BY <3>1
  <2>2. \/ /\ ok /\ i < Len(VarNames)
           /\ asked' = [asked EXCEPT ![VarNames[i + 1]] = @ + 1] /\ UNCHANGED <<up, boot>>
        \/ /\ up' = (ok /\ boot # "listening")
           /\ boot' = IF ok THEN "listening" ELSE boot
           /\ UNCHANGED asked
    BY <1>2 DEF Answered
  <2> HIDE DEF i
  <2>3. CASE /\ i < Len(VarNames)
             /\ asked' = [asked EXCEPT ![VarNames[i + 1]] = @ + 1] /\ UNCHANGED <<up, boot>>
    <3>1. VarNames \in Seq(ToSet(VarNames))
      BY CommandsAssumption
    <3>2. i + 1 \in DOMAIN VarNames
      BY <2>1, <2>3, <3>1
    <3>3. VarNames[i + 1] \in Vars
      BY <3>2, VarsAre
    <3> QED
      BY <2>1, <2>3, <3>2, <3>3 DEF NextAsked
  <2>4. CASE /\ up' = (ok /\ boot # "listening")
             /\ boot' = IF ok THEN "listening" ELSE boot
             /\ UNCHANGED asked
    BY <2>4
  <2> QED
    BY <2>2, <2>3, <2>4
<1> QED
  BY <1>1, <1>2

LEMMA NextAskedBoot ==
    ASSUME IInv, NEW t, TryStep(t, "ended"), NEW u \in Vars, NextAsked(t, u), CallsTyped'
    PROVE  BootOnce'
<1> DEFINE old == <<"try", t>>
           new == <<"asked", <<u, asked[u] + 1>>>>
<1>1. /\ \A X : Waits(X)' \subseteq Waits(X)
      /\ SameTries(Commands) /\ Tries' = Tries
      /\ \A s \in Tries : At(s)' = IF s = t THEN "ended" ELSE At(s)
      /\ reran' = reran /\ t \in Tries /\ At(t) # "ended"
  BY TryStepRest DEF TryStep
<1> SUFFICES ASSUME reran \subseteq Calls \cup Files
             PROVE  AtMostOne(BootTokens') /\ BootInOrder'
  BY <1>1 DEF BootOnce, AtMostOne
<1>2. AtMostOne(BootTokens) /\ BootInOrder
  BY InvParts DEF BootOnce
<1>3. PICK i \in DOMAIN VarNames :
         i + 1 \in DOMAIN VarNames /\ VarNames[i] = t[1] /\ VarNames[i + 1] = u
  BY DEF NextAsked
<1>4. t \in Running /\ t[1] \in Vars
  BY <1>1, <1>3, VarsAre DEF Running
<1>5. old \in BootTokens /\ old \notin Waits(BootCallbacks)
  BY <1>4, BootTokensAre, WaitKind DEF BootRest, WaitKinds
<1>6. Running' \subseteq Running \ {t}
  BY <1>1 DEF Running
<1>7. Again' \subseteq Again \cup {<<u, asked[u] + 1>>}
  <2>1. \A v \in Vars : asked[v] \in Nat /\ asked'[v] = IF v = u THEN asked[v] + 1 ELSE asked[v]
    BY InvParts, VarsAre DEF CallsTyped, NextAsked
  <2>2. \A v \in Vars : 1 .. asked'[v] \subseteq 1 .. asked[v] \cup
                           {k \in {asked[v] + 1} : v = u}
    BY <2>1
  <2> QED
    BY <2>2, AgainAre
<1>8. BootRest' \subseteq (BootRest \ {old}) \cup {new}
  <2>1. {"try"} \X Running' \subseteq ({"try"} \X Running) \ {old}
    BY <1>6
  <2>2. {"asked"} \X Again' \subseteq ({"asked"} \X Again) \cup {new}
    BY <1>7
  <2>3. old \notin {"asked"} \X Again
    OBVIOUS
  <2> HIDE DEF old, new
  <2> QED
    BY <2>1, <2>2, <2>3 DEF BootRest
<1>9. /\ new[1] = "asked" /\ \A s : new # <<"try", s>>
      /\ \A v : \A k : new = <<"asked", <<v, k>>>> => v = u
  OBVIOUS
<1> HIDE DEF old, new
<1>10. BootTokens' \subseteq (BootTokens \ {old}) \cup {new}
  BY <1>1, <1>5, <1>8, BootTokensAre
<1>11. BootTokens' \subseteq {new}
  BY <1>2, <1>5, <1>10, OneMoves
<1>12. UntriedFrom(u)
  <2>1. UntriedAfter(t[1])
    BY <1>2, <1>4 DEF BootInOrder
  <2>2. i < i + 1 /\ u # Boot
    BY <1>3, VarsAre, CommandsAssumption
  <2>3. \A j, k \in DOMAIN VarNames : k <= j /\ VarNames[k] = u => i < j
    <3>1. \A k \in DOMAIN VarNames : VarNames[k] = u => k = i + 1
      BY <1>3, CommandsAssumption DEF IsInjective
    <3>2. DOMAIN VarNames \subseteq Nat
      BY CommandsAssumption
    <3> QED
      BY <3>1, <3>2
  <2> QED
    BY <1>3, <2>1, <2>2, <2>3 DEF UntriedFrom, UntriedAfter
<1>13. UntriedFrom(u)' /\ SameTries(Vars)
  <2>1. SameTries(Vars)
    BY <1>1, VarsAre DEF SameTries
  <2> QED
    BY <1>12, <2>1, UntriedLasts
<1>14. \A v \in Vars : Len(tries'[v]) <= 1
  BY <1>2, <1>13 DEF SameTries, BootInOrder
<1>15. Settles(new)
  <2>1. \A x \in BootCallbacks : new \in Waits({x})' => UntriedFrom(x)'
    BY <1>9, WaitsThen
  <2>2. \A v \in Vars : \A k : new = <<"asked", <<v, k>>>> => UntriedFrom(v)'
    BY <1>9, <1>13
  <2>3. \A s : new = <<"try", s>> => UntriedAfter(s[1])'
    BY <1>9
  <2> QED
    BY <1>11, <1>14, <2>1, <2>2, <2>3 DEF Settles
<1> QED
  BY <1>15, BootSettles

LEMMA AnsweredKeeps ==
    ASSUME IInv, NEW t, TryStep(t, "ended"), IsOpen(ConnOf(t)), NEW how \in {"success", "failure"},
           inFlight' = inFlight \ {t}, answers' = answers \cup {Answer(t, how)},
           NEW ok \in BOOLEAN, Answered(t[1], ok)
    PROVE  IInv'
<1>1. TriesTyped' /\ TableExact' /\ AnswersSound'
  BY AnswerKept
<1>2. /\ ConnsTyped' /\ CopiesTyped' /\ HistoryTyped' /\ BatchOnce'
      /\ SameTries(Commands) /\ WaitersPass /\ \A X : Passes(X)
      /\ UNCHANGED <<issued, reran>>
  BY TryStepRest DEF TryStep
<1>3. t[1] \in Commands /\ up \in BOOLEAN /\ boot \in {"connecting", "launched", "listening"}
      /\ asked \in [Commands -> Nat] /\ issued \subseteq Calls
  BY InvParts, TryIs DEF TryStep, CallsTyped
<1>4. /\ up' \in BOOLEAN /\ boot' \in {"connecting", "launched", "listening"}
      /\ UNCHANGED asked \/ \E u \in Vars : NextAsked(t, u)
  BY <1>3, AnsweredIs
<1>5. CASE UNCHANGED asked
  <2>1. CallsTyped'
    BY <1>2, <1>3, <1>4, <1>5 DEF CallsTyped
  <2>2. CallsOnce' /\ BootOnce'
    BY <1>2, <1>5, TokensKept
  <2> QED
    BY <1>1, <1>2, <2>1, <2>2, InvParts
<1>6. ASSUME NEW u \in Vars, NextAsked(t, u)
      PROVE  IInv'
  <2>1. asked' \in [Commands -> Nat] /\ \A c \in Commands : c # u => asked'[c] = asked[c]
    BY <1>3, <1>6, VarsAre DEF NextAsked
  <2>2. CallsTyped'
    BY <1>2, <1>3, <1>4, <2>1 DEF CallsTyped
  <2>3. BootOnce'
    BY <1>6, <2>2, NextAskedBoot
  <2>4. CallsOnce'
    <3> SUFFICES ASSUME NEW c \in Calls \ reran
                 PROVE  AtMostOne(CallTokens(c)')
      BY <1>2 DEF CallsOnce
    <3>1. c \in Commands /\ c # u
      BY CommandsAre, VarsAre
    <3>2. asked'[c] = asked[c] /\ DOMAIN tries'[c] \subseteq DOMAIN tries[c]
      BY <1>2, <2>1, <3>1 DEF SameTries
    <3> QED
      BY <1>2, <3>2, CallStays
  <2> QED
    BY <1>1, <1>2, <2>2, <2>3, <2>4, InvParts
<1> QED
  BY <1>4, <1>5, <1>6

LEMMA ExitsKeeps ==
    ASSUME IInv, NEW t \in Tries, Exits(t)
    PROVE  IInv'
<1>1. PICK how \in {"success", "failure"} :
         answers' = answers \cup {Answer(t, how)} /\ Answered(t[1], how = "success")
  BY DEF Exits
<1>2. TryStep(t, "ended") /\ IsOpen(ConnOf(t)) /\ inFlight' = inFlight \ {t}
  BY DEF Exits, Delete, TryStep, Places, copyVars
<1> DEFINE ok == how = "success"
<1>3. ok \in BOOLEAN /\ Answered(t[1], ok)
  BY <1>1
<1> HIDE DEF ok
<1> QED
  BY <1>1, <1>2, <1>3, AnsweredKeeps

LEMMA RefusedKeeps ==
    ASSUME IInv, NEW t \in Tries, Refused(t)
    PROVE  IInv'
<1>1. TryStep(t, "ended") /\ IsOpen(ConnOf(t)) /\ inFlight' = inFlight \ {t}
  BY DEF Refused, Delete, TryStep, Places, copyVars
<1>2. CASE t \in inFlight
  <2>1. answers' = answers \cup {Answer(t, "failure")} /\ Answered(t[1], FALSE)
    BY <1>2 DEF Refused
  <2> QED
    BY <1>1, <2>1, AnsweredKeeps
<1>3. CASE t \notin inFlight
  <2>1. UNCHANGED <<up, boot, asked, answers, inFlight>>
    BY <1>1, <1>3 DEF Refused
  <2> QED
    BY <1>1, <2>1, TryGoesKeeps
<1> QED
  BY <1>2, <1>3

-----------------------------------------------------------------------------
(* Copies.                                                                 *)

(* The batch goes on with the only token there is.                         *)
GoesOn(new) ==
    /\ CopyTokens' \subseteq {new}
    /\ \A f \in Files : new \in Waits({f})' => IsNext(f)'
    /\ \A f \in Files : new = <<"turn", f>> => IsNext(f)'
    /\ \A x : new = <<"transfer", x>> => IsNext(x.file)'
    /\ Len(stat') <= Len(Copies)
    /\ \A i \in 1 .. Len(stat') : stat'[i].file = Copies[i]
    /\ \/ batch' = "running"
       \/ batch' = "answered" /\ CopyTokens' = {} /\ Len(stat') = Len(Copies)

LEMMA BatchGoesOn ==
    ASSUME CopiesTyped', NEW new, GoesOn(new)
    PROVE  AtMostOne(CopyTokens') /\ BatchInOrder'
<1>1. AtMostOne(CopyTokens')
  BY DEF AtMostOne, GoesOn
<1>2. ASSUME NEW f \in Files, Waits({f})' # {}
      PROVE  IsNext(f)'
  <2>1. Waits({f})' \subseteq CopyTokens'
    BY WaitsGrow, CopyTokensAre
  <2> QED
    BY <1>2, <2>1 DEF GoesOn
<1>3. ASSUME turn' # NoCopy
      PROVE  IsNext(turn)'
  <2>1. <<"turn", turn'>> \in CopyTokens' /\ turn' \in Files
    BY <1>3, CopyTokensAre DEF CopyRest, CopiesTyped
  <2>2. \A f \in Files : new = <<"turn", f>> =>
           Len(stat') < Len(Copies) /\ f = Copies[Len(stat') + 1]
    BY DEF GoesOn, IsNext
  <2>3. new = <<"turn", turn'>>
    BY <2>1 DEF GoesOn
  <2> QED
    BY <2>1, <2>2, <2>3 DEF IsNext
<1>4. ASSUME NEW x \in transfers'
      PROVE  IsNext(x.file)'
  <2>1. <<"transfer", x>> \in CopyTokens'
    BY <1>4, CopyTokensAre DEF CopyRest
  <2> QED
    BY <2>1 DEF GoesOn
<1> QED
  BY <1>1, <1>2, <1>3, <1>4 DEF BatchInOrder, GoesOn

CopyStep ==
    /\ NoFault
    /\ UNCHANGED <<up, boot, connVars, issued, asked, tryVars, reran>>

LEMMA CopyStepKeeps ==
    ASSUME IInv, CopyStep, CopiesTyped', BatchOnce'
    PROVE  IInv'
<1>1. /\ UNCHANGED <<up, boot, current, sftp, conns, sftpAsks, issued, asked, tries, reran>>
      /\ UNCHANGED tryVars /\ NoFault
  BY DEF CopyStep, connVars, tryVars
<1>2. Lasts /\ Conns' = Conns
  BY <1>1, StillLasts
<1>3. ConnsTyped' /\ CallsTyped' /\ HistoryTyped'
  BY <1>1, <1>2, InvParts, FaultsTyped DEF ConnsTyped, CallsTyped
<1>4. TriesTyped' /\ TableExact' /\ AnswersSound'
  BY <1>1, <1>2, InvParts, TriesKept
<1>5. WaitersPass
  BY <1>1, StillQuiet, QuietPasses DEF WaitersPass
<1>6. CallsOnce' /\ BootOnce'
  BY <1>1, <1>5, StillSameTries, TokensKept
<1> QED
  BY <1>3, <1>4, <1>6, InvParts

LEMMA StillWaits == UNCHANGED <<conns, sftpAsks>> => \A X : Waits(X)' \subseteq Waits(X)
BY StillQuiet, QuietPasses

LEMMA CopiesAre ==
    /\ Copies \in Seq(Files) /\ Len(Copies) > 0
    /\ \A i \in 1 .. Len(Copies) : Copies[i] \in Files
    /\ \A f \in Files : \E i \in 1 .. Len(Copies) : Copies[i] = f
    /\ \A i, j \in 1 .. Len(Copies) : Copies[i] = Copies[j] => i = j
    /\ NoCopy \notin Files
<1>1. Copies \in Seq(Files) /\ Copies # <<>> /\ IsInjective(Copies) /\ NoCopy \notin Files
  BY CommandsAssumption
<1>2. DOMAIN Copies = 1 .. Len(Copies) /\ Len(Copies) > 0
  BY <1>1
<1>3. \A f \in Files : \E i \in 1 .. Len(Copies) : Copies[i] = f
  BY <1>2 DEF Files, ToSet
<1> QED
  BY <1>1, <1>2, <1>3 DEF IsInjective

LEMMA BatchedClusterCopyKeeps ==
    ASSUME IInv, BatchedClusterCopy
    PROVE  IInv'
<1> DEFINE new == <<"turn", Copies[1]>>
<1>1. CopyStep /\ batch = "idle" /\ batch' = "running" /\ turn' = Copies[1]
      /\ UNCHANGED <<transfers, stat, conns, sftpAsks, reran>>
  BY DEF BatchedClusterCopy, CopyStep, connVars
<1>2. Copies[1] \in Files /\ Len(Copies) > 0 /\ Len(Copies) \in Nat
  BY CopiesAre
<1>3. CopiesTyped'
  <2>1. Conns' = Conns
    BY <1>1, StillLasts
  <2> QED
    BY <1>1, <1>2, <2>1, InvParts DEF CopiesTyped
<1>4. ASSUME reran \cap Files = {}
      PROVE  AtMostOne(CopyTokens') /\ BatchInOrder'
  <2>1. CopyTokens = {} /\ stat = <<>>
    BY <1>1, <1>4, InvParts DEF BatchOnce, BatchInOrder
  <2>2. CopyTokens' \subseteq {new}
    <3>1. Waits(Files)' \subseteq Waits(Files)
      BY <1>1, StillWaits
    <3>2. CopyRest' \subseteq CopyRest \cup {new}
      BY <1>1 DEF CopyRest
    <3> QED
      BY <2>1, <3>1, <3>2, CopyTokensAre
  <2>3. Len(stat') = 0 /\ IsNext(Copies[1])'
    BY <1>1, <1>2, <2>1 DEF IsNext
  <2>4. new[1] \notin WaitKinds /\ (\A f : new = <<"turn", f>> => f = Copies[1])
        /\ \A x : new # <<"transfer", x>>
    BY DEF WaitKinds
  <2> HIDE DEF new
  <2>5. GoesOn(new)
    <3>1. \A f \in Files : new \in Waits({f})' => IsNext(f)'
      BY <2>4, WaitsThen DEF WaitKinds
    <3>2. \A f \in Files : new = <<"turn", f>> => IsNext(f)'
      BY <2>3, <2>4
    <3>3. \A x : new = <<"transfer", x>> => IsNext(x.file)'
      BY <2>4
    <3>4. Len(stat') <= Len(Copies) /\ \A i \in 1 .. Len(stat') : stat'[i].file = Copies[i]
      BY <1>2, <2>3
    <3> QED
      BY <1>1, <2>2, <3>1, <3>2, <3>3, <3>4 DEF GoesOn
  <2> QED
    BY <1>3, <2>5, BatchGoesOn
<1>5. BatchOnce'
  BY <1>1, <1>4 DEF BatchOnce
<1> QED
  BY <1>1, <1>3, <1>5, CopyStepKeeps

LEMMA ClusterCopyKeeps ==
    ASSUME IInv, turn # NoCopy, ClusterCopy
    PROVE  IInv'
<1> DEFINE x == [file |-> turn, conn |-> sftp]
           old == <<"turn", turn>>
           new == <<"transfer", x>>
<1>1. CopyStep /\ sftp # NoConn /\ transfers' = transfers \cup {x} /\ turn' = NoCopy
      /\ UNCHANGED <<stat, batch, conns, sftpAsks, reran>>
  BY DEF ClusterCopy, CopyStep, connVars
<1>2. turn \in Files /\ sftp \in Conns
  BY <1>1, InvParts DEF CopiesTyped, ConnsTyped
<1>3. CopiesTyped'
  <2>1. Conns' = Conns
    BY <1>1, StillLasts
  <2> QED
    BY <1>1, <1>2, <2>1, InvParts DEF CopiesTyped
<1>4. x.file = turn
  OBVIOUS
<1>5. new[1] \notin WaitKinds /\ (\A f : new # <<"turn", f>>)
      /\ \A y : new = <<"transfer", y>> => y = x
  BY DEF WaitKinds
<1>6. old[1] \notin WaitKinds /\ \A y : old # <<"transfer", y>>
  BY DEF WaitKinds
<1>7. old \in CopyTokens
  BY CopyTokensAre DEF CopyRest
<1>8. CopyRest' \subseteq (CopyRest \ {old}) \cup {new}
  <2>1. CopyRest' = {"transfer"} \X (transfers \cup {x})
    BY <1>1 DEF CopyRest
  <2> HIDE DEF old, x
  <2> QED
    BY <1>6, <2>1 DEF CopyRest
<1> HIDE DEF x, old, new
<1>9. ASSUME reran \cap Files = {}
      PROVE  AtMostOne(CopyTokens') /\ BatchInOrder'
  <2>1. AtMostOne(CopyTokens) /\ BatchInOrder
    BY <1>9, InvParts DEF BatchOnce
  <2>2. Waits(Files)' \subseteq Waits(Files) /\ old \notin Waits(Files)
    BY <1>1, <1>6, StillWaits, WaitKind
  <2>3. CopyTokens' \subseteq (CopyTokens \ {old}) \cup {new}
    BY <1>8, <2>2, CopyTokensAre
  <2>4. CopyTokens' \subseteq {new}
    BY <1>7, <2>1, <2>3, OneMoves
  <2>5. IsNext(turn)
    BY <2>1 DEF BatchInOrder
  <2>6. Len(stat') < Len(Copies) /\ x.file = Copies[Len(stat') + 1]
    BY <1>1, <1>4, <2>5 DEF IsNext
  <2>7. GoesOn(new)
    <3>1. \A f \in Files : new \in Waits({f})' => IsNext(f)'
      BY <1>5, WaitsThen DEF WaitKinds
    <3>2. \A f \in Files : new = <<"turn", f>> => IsNext(f)'
      BY <1>5
    <3>3. \A y : new = <<"transfer", y>> => IsNext(y.file)'
      BY <1>5, <2>6 DEF IsNext
    <3>4. Len(stat') <= Len(Copies) /\ \A i \in 1 .. Len(stat') : stat'[i].file = Copies[i]
      BY <1>1, <2>1 DEF BatchInOrder
    <3>5. batch' = "running"
      BY <1>1, <1>7, <2>1, <1>3 DEF BatchInOrder, CopiesTyped
    <3> QED
      BY <2>4, <3>1, <3>2, <3>3, <3>4, <3>5 DEF GoesOn
  <2> QED
    BY <1>3, <2>7, BatchGoesOn
<1>10. BatchOnce'
  BY <1>1, <1>9 DEF BatchOnce
<1> QED
  BY <1>1, <1>3, <1>10, CopyStepKeeps

LEMMA ClusterCopyThrowsKeeps ==
    ASSUME IInv, turn # NoCopy, ClusterCopyThrows
    PROVE  IInv'
<1> DEFINE old == <<"turn", turn>>
           new == <<"conn", NewConn(turn)>>
<1>1. /\ turn' = NoCopy /\ NoFault /\ up' \in {up, FALSE}
      /\ UNCHANGED <<boot, sftpAsks, issued, asked, tries, transfers, stat, batch, reran>>
      /\ UNCHANGED tryVars
      /\ \/ UNCHANGED <<current, sftp, conns>>
         \/ /\ current # NoConn /\ current' = NoConn /\ sftp' = NoConn
            /\ conns' = Connect(IF IsOpen(current) THEN Becomes(current, "lost") ELSE conns, turn)
  BY DEF ClusterCopyThrows, tryVars
<1>2. turn \in Files /\ turn \in Callbacks /\ current \in Conns \cup {NoConn}
  BY InvParts DEF CopiesTyped, ConnsTyped, Callbacks
<1>3. \/ UNCHANGED <<current, sftp, conns>>
      \/ /\ Makes(turn) /\ current' = NoConn /\ sftp' = NoConn
         /\ \A m \in Conns : State(m)' \in {State(m), "lost"}
                             /\ (State(m) = "closed" => State(m)' = "closed")
  <2>1. CASE /\ current # NoConn /\ current' = NoConn /\ sftp' = NoConn /\ IsOpen(current)
             /\ conns' = Connect(Becomes(current, "lost"), turn)
    <3>1. current \in Conns /\ State(current) = "open"
      BY <1>2, <2>1 DEF IsOpen
    <3>2. Makes(turn) /\ \A m \in Conns : State(m)' = IF m = current THEN "lost" ELSE State(m)
      BY <1>2, <2>1, <3>1, InvParts, ConnLostAndMade
    <3>3. \A m \in Conns : State(m)' \in {State(m), "lost"}
                           /\ (State(m) = "closed" => State(m)' = "closed")
      BY <3>1, <3>2
    <3> QED
      BY <2>1, <3>2, <3>3
  <2>2. CASE current' = NoConn /\ sftp' = NoConn /\ conns' = Connect(conns, turn)
    <3>1. Makes(turn) /\ \A m \in Conns : State(m)' = State(m)
      BY <1>2, <2>2, InvParts, ConnMadeHere
    <3> QED
      BY <2>2, <3>1
  <2> QED
    BY <1>1, <2>1, <2>2
<1>4. Lasts /\ ConnsTyped'
  <2>1. CASE UNCHANGED <<current, sftp, conns>>
    BY <1>1, <2>1, StillLasts, InvParts DEF ConnsTyped
  <2>2. CASE /\ Makes(turn) /\ current' = NoConn /\ sftp' = NoConn
             /\ \A m \in Conns : State(m)' \in {State(m), "lost"}
                                 /\ (State(m) = "closed" => State(m)' = "closed")
    <3>1. conns' \in [Callbacks -> Seq(ConnStates)] /\ Conns \subseteq Conns'
      BY <2>2 DEF Makes
    <3>2. Lasts
      BY <2>2, <3>1 DEF Lasts
    <3> QED
      BY <1>1, <2>2, <3>1, <3>2, InvParts, ConnsTypedKept
  <2> QED
    BY <1>3, <2>1, <2>2
<1>5. /\ \A X : turn \notin X => Waits(X)' \subseteq Waits(X)
      /\ \A X : Waits(X)' \subseteq Waits(X) \cup {new}
  <2>1. CASE UNCHANGED <<current, sftp, conns>>
    BY <1>1, <2>1, StillWaits
  <2>2. CASE Makes(turn) /\ \A m \in Conns : State(m)' \in {State(m), "lost"}
    <3>1. \A m \in Conns : State(m)' = "connecting" => State(m) = "connecting"
      BY <2>2
    <3> QED
      BY <1>1, <2>2, <3>1, MadePasses
  <2> QED
    BY <1>3, <2>1, <2>2
<1>6. CallsTyped' /\ HistoryTyped'
  BY <1>1, InvParts, FaultsTyped DEF CallsTyped
<1>7. TriesTyped' /\ TableExact' /\ AnswersSound'
  BY <1>1, <1>4, InvParts, TriesKept
<1>8. CopiesTyped'
  BY <1>1, <1>4, InvParts DEF CopiesTyped, Lasts
<1>9. \A X : turn \notin X => Passes(X)
  BY <1>5 DEF Passes
<1>10. CallsOnce'
  <2> SUFFICES ASSUME NEW c \in Calls \ reran
               PROVE  AtMostOne(CallTokens(c)')
    BY <1>1 DEF CallsOnce
  <2>1. Passes({c})
    BY <1>2, <1>9, CommandsAre
  <2> QED
    BY <1>1, <2>1, CallStays
<1>11. BootOnce'
  <2>1. \A X : X \subseteq BootCallbacks => Passes(X)
    BY <1>2, <1>9, CommandsAre
  <2> QED
    BY <1>1, <2>1, StillSameTries, BootStays
<1>12. /\ old[1] \notin WaitKinds /\ new # old
       /\ (\A f : new # <<"turn", f>>) /\ \A y : new # <<"transfer", y>>
  BY DEF WaitKinds
<1>13. old \in CopyTokens
  BY CopyTokensAre DEF CopyRest
<1>14. CopyRest' \subseteq CopyRest \ {old}
  <2>1. CopyRest' = {"transfer"} \X transfers
    BY <1>1 DEF CopyRest
  <2>2. old \notin {"transfer"} \X transfers
    OBVIOUS
  <2> HIDE DEF old
  <2> QED
    BY <2>1, <2>2 DEF CopyRest
<1> HIDE DEF old, new
<1>15. ASSUME reran \cap Files = {}
       PROVE  AtMostOne(CopyTokens') /\ BatchInOrder'
  <2>1. AtMostOne(CopyTokens) /\ BatchInOrder
    BY <1>15, InvParts DEF BatchOnce
  <2>2. old \notin Waits(Files)
    BY <1>12, WaitKind
  <2>3. CopyTokens' \subseteq (CopyTokens \ {old}) \cup {new}
    BY <1>5, <1>14, <2>2, CopyTokensAre
  <2>4. CopyTokens' \subseteq {new}
    BY <1>13, <2>1, <2>3, OneMoves
  <2>5. IsNext(turn)
    BY <2>1 DEF BatchInOrder
  <2>6. ASSUME NEW f \in Files, new \in Waits({f})'
        PROVE  IsNext(f)'
    <3>1. CASE f = turn
      <4>1. IsNext(f)
        BY <2>5, <3>1
      <4> QED
        BY <1>1, <4>1 DEF IsNext
    <3>2. CASE f # turn
      <4>1. new \in CopyTokens
        BY <1>5, <2>6, <3>2, WaitsGrow, CopyTokensAre
      <4> QED
        BY <1>12, <1>13, <2>1, <4>1 DEF AtMostOne
    <3> QED
      BY <3>1, <3>2
  <2>7. GoesOn(new)
    <3>1. Len(stat') <= Len(Copies) /\ \A i \in 1 .. Len(stat') : stat'[i].file = Copies[i]
      BY <1>1, <2>1 DEF BatchInOrder
    <3>2. batch' = "running"
      BY <1>1, <1>8, <1>13, <2>1 DEF BatchInOrder, CopiesTyped
    <3>3. /\ \A f \in Files : new = <<"turn", f>> => IsNext(f)'
          /\ \A x : new = <<"transfer", x>> => IsNext(x.file)'
      BY <1>12
    <3> QED
      BY <2>4, <2>6, <3>1, <3>2, <3>3 DEF GoesOn
  <2> QED
    BY <1>8, <2>7, BatchGoesOn
<1>16. BatchOnce'
  BY <1>1, <1>15 DEF BatchOnce
<1> QED
  BY <1>4, <1>6, <1>7, <1>8, <1>10, <1>11, <1>16, InvParts

LEMMA TransferEndsKeeps ==
    ASSUME IInv, turn = NoCopy, NEW x \in transfers, NEW success \in BOOLEAN,
           TransferEnds(x, success)
    PROVE  IInv'
<1> DEFINE i == CHOOSE k \in DOMAIN Copies : Copies[k] = x.file
           r == [file |-> x.file, success |-> success]
           old == <<"transfer", x>>
           new == <<"turn", Copies[i + 1]>>
<1>1. /\ CopyStep /\ transfers' = transfers \ {x} /\ stat' = Append(stat, r)
      /\ \/ i < Len(Copies) /\ turn' = Copies[i + 1] /\ batch' = batch
         \/ ~ (i < Len(Copies)) /\ turn' = NoCopy /\ batch' = "answered"
      /\ UNCHANGED <<conns, sftpAsks, reran>>
  BY DEF TransferEnds, AfterFile, CopyStep, connVars
<1>2. /\ x \in [file : Files, conn : Conns] /\ transfers \subseteq [file : Files, conn : Conns]
      /\ stat \in Seq([file : Files, success : BOOLEAN])
      /\ batch \in {"idle", "running", "answered"}
  BY InvParts DEF CopiesTyped
<1>3. i \in 1 .. Len(Copies) /\ Copies[i] = x.file
  <2>1. \E k \in DOMAIN Copies : Copies[k] = x.file
    BY <1>2, CopiesAre
  <2>2. i \in DOMAIN Copies /\ Copies[i] = x.file
    BY <2>1
  <2> HIDE DEF i
  <2> QED
    BY <2>2, CopiesAre
<1>4. r \in [file : Files, success : BOOLEAN] /\ r.file = x.file
  BY <1>2
<1>5. old[1] \notin WaitKinds /\ \A f : old # <<"turn", f>>
  BY DEF WaitKinds
<1>6. new[1] \notin WaitKinds /\ (\A f : new = <<"turn", f>> => f = Copies[i + 1])
      /\ \A y : new # <<"transfer", y>>
  <2> HIDE DEF i
  <2> QED
    BY DEF WaitKinds
<1>7. old \in CopyTokens /\ old \notin Waits(Files)
  BY <1>5, CopyTokensAre, WaitKind DEF CopyRest
<1> HIDE DEF i, r
<1>8. Len(Copies) \in Nat /\ i < Len(Copies) => i + 1 \in 1 .. Len(Copies)
  BY <1>3
<1>9. CopiesTyped'
  <2>1. Conns' = Conns
    BY <1>1, StillLasts
  <2>2. turn' \in Files \cup {NoCopy}
    BY <1>1, <1>8, CopiesAre
  <2>3. stat' \in Seq([file : Files, success : BOOLEAN])
    BY <1>1, <1>2, <1>4
  <2> QED
    BY <1>1, <1>2, <2>1, <2>2, <2>3 DEF CopiesTyped
<1>10. ASSUME reran \cap Files = {}
       PROVE  AtMostOne(CopyTokens') /\ BatchInOrder'
  <2>1. AtMostOne(CopyTokens) /\ BatchInOrder
    BY <1>10, InvParts DEF BatchOnce
  <2>2. IsNext(x.file)
    BY <2>1 DEF BatchInOrder
  <2>3. /\ Len(stat) \in Nat /\ Len(stat') = Len(stat) + 1 /\ i = Len(stat) + 1
        /\ stat'[i].file = Copies[i] /\ \A k \in 1 .. Len(stat) : stat'[k] = stat[k]
    <3>1. Len(stat) \in Nat /\ Len(stat) + 1 \in 1 .. Len(Copies)
      BY <1>2, <2>2, CopiesAre DEF IsNext
    <3>2. i = Len(stat) + 1
      BY <1>3, <2>2, <3>1, CopiesAre DEF IsNext
    <3>3. stat'[i] = r
      BY <1>1, <1>2, <3>2
    <3> QED
      BY <1>1, <1>2, <1>3, <1>4, <3>1, <3>2, <3>3
  <2>4. /\ Len(stat') <= Len(Copies)
        /\ \A k \in 1 .. Len(stat') : stat'[k].file = Copies[k]
    <3>1. Len(stat') = i /\ i <= Len(Copies)
      BY <1>3, <2>3
    <3> SUFFICES ASSUME NEW k \in 1 .. Len(stat')
                 PROVE  stat'[k].file = Copies[k]
      BY <3>1
    <3>2. k = i \/ k \in 1 .. Len(stat)
      BY <2>3
    <3> QED
      BY <2>1, <2>3, <3>2 DEF BatchInOrder
  <2>5. batch = "running"
    BY <1>2, <1>7, <2>1 DEF BatchInOrder
  <2>6. Waits(Files)' \subseteq Waits(Files)
    BY <1>1, StillWaits
  <2>7. ({"transfer"} \X transfers') \subseteq ({"transfer"} \X transfers) \ {old}
    BY <1>1
  <2> HIDE DEF old, new
  <2>8. CASE i < Len(Copies)
    <3>1. {"turn"} \X ({turn'} \ {NoCopy}) \subseteq {new}
      BY <1>1, <2>8 DEF new
    <3>2. CopyTokens' \subseteq (CopyTokens \ {old}) \cup {new}
      BY <1>7, <2>6, <2>7, <3>1, CopyTokensAre DEF CopyRest
    <3>3. CopyTokens' \subseteq {new}
      BY <1>7, <2>1, <3>2, OneMoves
    <3>4. Len(stat') < Len(Copies) /\ Copies[i + 1] = Copies[Len(stat') + 1]
      BY <2>3, <2>8
    <3>5. GoesOn(new)
      <4>1. \A f \in Files : new \in Waits({f})' => IsNext(f)'
        BY <1>6, WaitsThen DEF WaitKinds
      <4>2. \A f \in Files : new = <<"turn", f>> => IsNext(f)'
        BY <1>6, <3>4 DEF IsNext
      <4>3. \A y : new = <<"transfer", y>> => IsNext(y.file)'
        BY <1>6
      <4>4. batch' = "running"
        BY <1>1, <2>5, <2>8
      <4> QED
        BY <2>4, <3>3, <4>1, <4>2, <4>3, <4>4 DEF GoesOn
    <3> QED
      BY <1>9, <3>5, BatchGoesOn
  <2>9. CASE ~ (i < Len(Copies))
    <3>1. {"turn"} \X ({turn'} \ {NoCopy}) = {}
      BY <1>1, <2>9
    <3>2. CopyTokens' \subseteq CopyTokens \ {old}
      BY <1>7, <2>6, <2>7, <3>1, CopyTokensAre DEF CopyRest
    <3>3. CopyTokens' = {}
      BY <1>7, <2>1, <3>2 DEF AtMostOne
    <3>4. Len(stat') = Len(Copies)
      BY <1>3, <2>3, <2>9, CopiesAre
    <3> DEFINE none == <<"none">>
    <3>5. none[1] \notin WaitKinds /\ (\A f : none # <<"turn", f>>) /\ \A y : none # <<"transfer", y>>
      BY DEF WaitKinds
    <3> HIDE DEF none
    <3>6. GoesOn(none)
      <4>1. \A f \in Files : none \in Waits({f})' => IsNext(f)'
        BY <3>5, WaitsThen DEF WaitKinds
      <4>2. /\ \A f \in Files : none = <<"turn", f>> => IsNext(f)'
            /\ \A y : none = <<"transfer", y>> => IsNext(y.file)'
        BY <3>5
      <4> QED
        BY <1>1, <2>4, <2>9, <3>3, <3>4, <4>1, <4>2 DEF GoesOn
    <3> QED
      BY <1>9, <3>6, BatchGoesOn
  <2> QED
    BY <2>8, <2>9
<1>11. BatchOnce'
  BY <1>1, <1>10 DEF BatchOnce
<1> QED
  BY <1>1, <1>9, <1>11, CopyStepKeeps

-----------------------------------------------------------------------------
(* The invariant.                                                          *)

LEMMA StutterKeeps ==
    ASSUME IInv, UNCHANGED vars
    PROVE  IInv'
<1>1. /\ UNCHANGED <<up, boot, current, sftp, conns, sftpAsks, issued, asked, tryVars, copyVars,
                     reran, faults>>
  BY DEF vars, connVars
<1>2. Lasts /\ Conns' = Conns
  BY <1>1, StillLasts
<1>3. ConnsTyped' /\ HistoryTyped' /\ up' \in BOOLEAN
  BY <1>1, <1>2, InvParts DEF ConnsTyped, HistoryTyped, CallsTyped
<1>4. WaitersPass
  BY <1>1, StillQuiet, QuietPasses DEF WaitersPass
<1> QED
  BY <1>1, <1>2, <1>3, <1>4, ConnKeeps

LEMMA InitSound == Init => IInv
<1> SUFFICES ASSUME Init PROVE IInv
  OBVIOUS
<1>1. /\ up = TRUE /\ boot = "connecting"
      /\ current = NoConn /\ sftp = NoConn /\ sftpAsks = {}
      /\ conns = [x \in Callbacks |-> IF x = Boot THEN <<"connecting">> ELSE <<>>]
      /\ issued = {} /\ asked = [c \in Commands |-> 0]
      /\ tries = [c \in Commands |-> <<>>] /\ inFlight = {} /\ answers = {}
      /\ turn = NoCopy /\ transfers = {} /\ stat = <<>> /\ batch = "idle"
      /\ reran = {} /\ faults = 0
  BY DEF Init
<1>2. /\ \A x \in Callbacks : x # Boot => conns[x] = <<>>
      /\ Boot \in Callbacks /\ conns[Boot] = <<"connecting">>
      /\ \A c \in Commands : tries[c] = <<>> /\ asked[c] = 0
  BY <1>1, CommandsAre
<1>3. \A n \in Conns : n = <<Boot, 1>>
  <2> TAKE n \in Conns
  <2>1. n[1] \in Callbacks /\ n[2] \in DOMAIN conns[n[1]] /\ n = <<n[1], n[2]>>
    BY NamesHere, NamesAre
  <2>2. n[1] = Boot
    <3>1. DOMAIN conns[n[1]] # {}
      BY <2>1
    <3> QED
      BY <1>2, <2>1, <3>1
  <2>3. n[2] \in 1 .. 1
    BY <1>2, <2>1, <2>2
  <2> QED
    BY <2>1, <2>2, <2>3
<1>4. Tries = {}
  <2> SUFFICES ASSUME NEW t \in Tries PROVE FALSE
    OBVIOUS
  <2>1. t[1] \in Commands /\ t[2] \in DOMAIN tries[t[1]]
    BY NamesHere, NamesAre
  <2> QED
    BY <1>2, <2>1
<1>5. ConnsTyped
  <2>1. conns \in [Callbacks -> Seq(ConnStates)]
    <3>1. <<"connecting">> \in Seq(ConnStates) /\ <<>> \in Seq(ConnStates)
      BY DEF ConnStates
    <3> QED
      BY <1>1, <3>1
  <2> QED
    BY <1>1, <2>1 DEF ConnsTyped
<1>6. CallsTyped /\ CopiesTyped /\ HistoryTyped
  BY <1>1, CommandsAssumption DEF CallsTyped, CopiesTyped, HistoryTyped
<1>7. TriesTyped /\ TableExact /\ AnswersSound
  <2>1. tries \in [Commands -> Seq([conn : Conns, at : Places])]
    BY <1>1
  <2> QED
    BY <1>1, <1>4, <2>1 DEF TriesTyped, TableExact, AnswersSound, TwiceOnlyAcross
<1>8. /\ \A X : Boot \notin X => Waits(X) = {}
      /\ \A X : Waits(X) \subseteq {<<"conn", <<Boot, 1>>>>}
  BY <1>1, <1>3, WaitsAre
<1>9. CallsOnce
  <2> SUFFICES ASSUME NEW c \in Calls PROVE AtMostOne(CallTokens(c))
    BY DEF CallsOnce
  <2>1. Waits({c}) = {}
    BY <1>8, CommandsAre
  <2>2. CallRest(c) \subseteq {<<"new", c>>}
    <3>1. 1 .. asked[c] = {} /\ DOMAIN tries[c] = {}
      BY <1>2, CommandsAre
    <3> QED
      BY <3>1 DEF CallRest
  <2>3. CallTokens(c) \subseteq {<<"new", c>>}
    BY <2>1, <2>2, CallTokensAre
  <2> QED
    BY <2>3 DEF AtMostOne
<1>10. BootOnce
  <2>1. Again = {}
    <3>1. \A v \in Vars : 1 .. asked[v] = {}
      BY <1>2, VarsAre
    <3> QED
      BY <3>1, AgainAre
  <2>2. Running = {}
    BY <1>4 DEF Running
  <2>3. BootTokens \subseteq {<<"conn", <<Boot, 1>>>>}
    BY <1>8, <2>1, <2>2, BootTokensAre DEF BootRest
  <2>4. AtMostOne(BootTokens)
    BY <2>3 DEF AtMostOne
  <2>5. \A j \in DOMAIN VarNames : Untried(j)
    BY <1>2, VarsAre DEF Untried
  <2>6. \A v \in Vars : Len(tries[v]) <= 1
    BY <1>2, VarsAre
  <2>7. BootInOrder
    BY <2>2, <2>5, <2>6 DEF BootInOrder, UntriedFrom
  <2> QED
    BY <2>4, <2>7 DEF BootOnce
<1>11. BatchOnce
  <2>1. Waits(Files) = {} /\ \A f \in Files : Waits({f}) = {}
    BY <1>8, CommandsAssumption
  <2>2. CopyRest = {}
    BY <1>1 DEF CopyRest
  <2>3. CopyTokens = {}
    BY <2>1, <2>2, CopyTokensAre
  <2>4. Len(stat) = 0 /\ Len(Copies) \in Nat
    BY <1>1, CopiesAre
  <2> QED
    BY <1>1, <2>1, <2>3, <2>4 DEF BatchOnce, BatchInOrder, AtMostOne
<1> QED
  BY <1>5, <1>6, <1>7, <1>9, <1>10, <1>11, InvParts

LEMMA NextKeeps ==
    ASSUME IInv, [Next]_vars
    PROVE  IInv'
<1> USE DEF ConnEvent, CommandEvent, CopyEvent, Faults
<1>1. CASE UNCHANGED vars
  BY <1>1, StutterKeeps
<1>2. CASE up /\ turn # NoCopy /\ (ClusterCopy \/ ClusterCopyThrows)
  BY <1>2, ClusterCopyKeeps, ClusterCopyThrowsKeeps
<1>3. CASE up /\ ConnEvent
  BY <1>3, ReadyKeeps, ClosesKeeps
<1>4. CASE up /\ CommandEvent
  <2>1. ASSUME NEW q \in sftpAsks, SftpOpens(q)
        PROVE  IInv'
    BY <2>1, SftpOpensKeeps
  <2>2. ASSUME NEW q \in sftpAsks, SftpFails(q), up
        PROVE  IInv'
    BY <2>2, SftpFailsKeeps
  <2>3. ASSUME NEW c \in Commands, RunAgain(c)
        PROVE  IInv'
    BY <2>3, ExecKeeps DEF RunAgain, Begins
  <2>4. ASSUME NEW t \in Tries, Starts(t) \/ Exits(t)
        PROVE  IInv'
    BY <2>4, StartsKeeps, ExitsKeeps
  <2> QED
    BY <1>4, <2>1, <2>2, <2>3, <2>4
<1>5. CASE turn = NoCopy /\ CopyEvent
  BY <1>5, TransferEndsKeeps
<1>6. CASE up /\ Faults
  BY <1>6, ConnectFailsKeeps, SocketErrorKeeps, SocketEndsKeeps, RefusedKeeps
<1>7. CASE BatchedClusterCopy
  BY <1>7, BatchedClusterCopyKeeps
<1>8. ASSUME NEW c \in Calls, RunClusterCmd(c)
      PROVE  IInv'
  BY <1>8, CommandsAre, ExecKeeps DEF RunClusterCmd, Begins
<1>9. \/ UNCHANGED vars
      \/ up /\ turn # NoCopy /\ (ClusterCopy \/ ClusterCopyThrows)
      \/ up /\ turn = NoCopy /\ (ConnEvent \/ CommandEvent \/ CopyEvent \/ Faults
                                 \/ BatchedClusterCopy \/ \E c \in Calls : RunClusterCmd(c))
  <2> HIDE DEF ConnEvent, CommandEvent, CopyEvent, Faults
  <2> QED
    BY DEF Next, Step
<1> QED
  BY <1>1, <1>2, <1>3, <1>4, <1>5, <1>6, <1>7, <1>8, <1>9

-----------------------------------------------------------------------------
(* The theorems.                                                           *)

(* The types of ClusterCommands, the table of commands in flight, what the *)
(* answers say of their tries, and whose turn it is.                       *)
THEOREM CommandsSound == Spec => []IInv
<1>1. IInv /\ [Next]_vars => IInv'
  BY NextKeeps
<1> QED
  BY InitSound, <1>1, PTL DEF Spec

(* in_flight_cmds holds exactly the tries whose callback has not been      *)
(* called: no command is forgotten when a connection ends, and none that   *)
(* has answered is failed by it, however many connections come and go.     *)
THEOREM TableIsExact == Spec => []InFlightExact
<1>1. IInv => InFlightExact
  BY DEF IInv, TableExact, InFlightExact
<1> QED
  BY CommandsSound, <1>1, PTL

(* A callback that is called twice was called by the close of a connection *)
(* that was not its own, before its own connection answered it.            *)
THEOREM TwiceIsAcross == Spec => []TwiceOnlyAcross
<1>1. IInv => TwiceOnlyAcross
  BY DEF IInv, AnswersSound
<1> QED
  BY CommandsSound, <1>1, PTL

(* However often exec throws and connections are made again, a command     *)
(* goes to the cluster once, unless an error came from the connection that *)
(* was made for it after that was ready.                                   *)
THEOREM CommandsSentOnce == Spec => []SentOnce
<1>1. ASSUME IInv, NEW c \in Calls \ reran
      PROVE  Len(tries[c]) <= 1
  <2>1. AtMostOne(CallTokens(c))
    BY <1>1 DEF IInv, CallsOnce
  <2>2. \A i, j \in DOMAIN tries[c] : i = j
    <3> TAKE i, j \in DOMAIN tries[c]
    <3>1. <<"try", i>> \in CallTokens(c) /\ <<"try", j>> \in CallTokens(c)
      BY DEF CallTokens
    <3>2. <<"try", i>> = <<"try", j>>
      BY <2>1, <3>1 DEF AtMostOne
    <3> QED
      BY <3>2
  <2>3. Len(tries[c]) \in Nat /\ DOMAIN tries[c] = 1 .. Len(tries[c])
    <3> DEFINE V == [conn : Conns, at : Places]
    <3>1. tries \in [Commands -> Seq(V)] /\ c \in Commands
      BY <1>1, InvParts, CommandsAre DEF TriesTyped
    <3> HIDE DEF V
    <3>2. tries[c] \in Seq(V)
      BY <3>1
    <3> QED
      BY <3>2
  <2>4. CASE Len(tries[c]) > 1
    <3>1. 1 \in DOMAIN tries[c] /\ 2 \in DOMAIN tries[c]
      BY <2>3, <2>4
    <3> QED
      BY <2>2, <3>1
  <2> QED
    BY <2>3, <2>4
<1>2. ASSUME IInv, NEW c \in Commands \ Calls, reran \ (Calls \cup Files) = {}
      PROVE  Len(tries[c]) <= 1
  <2>1. c \in Vars /\ BootInOrder
    BY <1>2, CommandsAre DEF IInv, BootOnce
  <2> QED
    BY <2>1 DEF BootInOrder
<1>3. IInv => SentOnce
  BY <1>1, <1>2 DEF SentOnce
<1> QED
  BY CommandsSound, <1>3, PTL

(* A batch is answered with one result for each of its files, in their     *)
(* order, whatever fails, unless a connection made for one of its copies   *)
(* had an error after it was ready.                                        *)
THEOREM BatchesComplete == Spec => []BatchComplete
<1>1. ASSUME IInv, batch = "answered", reran \cap Files = {}
      PROVE  [i \in DOMAIN stat |-> stat[i].file] = Copies
  <2>1. Len(stat) = Len(Copies) /\ \A i \in 1 .. Len(stat) : stat[i].file = Copies[i]
    BY <1>1 DEF IInv, BatchOnce, BatchInOrder
  <2>2. DOMAIN stat = 1 .. Len(Copies) /\ Copies = [i \in 1 .. Len(Copies) |-> Copies[i]]
    BY <1>1, <2>1, InvParts, CopiesAre DEF CopiesTyped
  <2> QED
    BY <2>1, <2>2
<1>2. IInv => BatchComplete
  BY <1>1 DEF BatchComplete
<1> QED
  BY CommandsSound, <1>2, PTL
=============================================================================
