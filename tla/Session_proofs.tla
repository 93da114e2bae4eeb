--------------------------- MODULE Session_proofs ---------------------------
(***************************************************************************)
(* What Session promises, for any accounts, friends and bounds: its types, *)
(* that the buffer of an account whose sign-up was answered for can be     *)
(* cast for good, that the badges on screen settle on what an account of   *)
(* this process sees, and that badges get into another account's buffer    *)
(* only if the accounts shared a process.                                  *)
(***************************************************************************)
EXTENDS Session, FiniteSetTheorems, TLAPS

Lemmas == INSTANCE FirestoreLemmas WITH
  Device <- Account, Path <- SessionPath, Field <- SessionField
-----------------------------------------------------------------------------
(***************************************************************************)
(* The inductive invariant.  Types first.                                  *)
(***************************************************************************)
Person == Account \cup {NoOne}

Event ==
  [kind : {"auth"}, user : Person] \cup [kind : {"signIn", "signUp"}] \cup
  [kind : {"buffer"}, account : Account, doc : Document] \cup
  [kind : {"signedUp"}, account : Account]

Listener == [account : Account, told : BOOLEAN]

ScreenTypes ==
  /\ registered \subseteq Account
  /\ currentUser \in registered \cup {NoOne}
  /\ clientUser \in Person
  /\ request \in {<< >>} \cup ({"signIn", "signUp"} \X Account)
  /\ screen \in {"login", "signup", "tabs", "chat", "crashed"}
  /\ signingUp \in Person
  /\ listeners \in Seq(Listener)
  /\ Listened \subseteq registered
  /\ bufferChat \subseteq Friend
  /\ mainQueue \in Seq(Event)
  /\ begun \subseteq registered
  /\ sentTo \subseteq Friend \X Account
  /\ shared \in BOOLEAN

Types == FsTypeOK /\ ScreenTypes

(***************************************************************************)
(* Who is asked for, answered and current, and what the screen shows of    *)
(* it.  Only snapshots and the completion of a last write may wait behind  *)
(* the completion of a request, but for a sign-out behind a sign-in.       *)
(***************************************************************************)
Queued(q, kind) == \E i \in 1..Len(q) : q[i].kind = kind

LastAuth(q, user, client) ==
  \/ user = client /\ ~Queued(q, "auth")
  \/ \E i \in 1..Len(q) :
       /\ q[i].kind = "auth" /\ q[i].user = user
       /\ \A j \in 1..Len(q) : j > i => q[j].kind # "auth"

InTurn(q) ==
  \A i, j \in 1..Len(q) : i < j =>
    /\ q[i].kind \in {"signIn", "signUp"} => q[j].kind \notin {"signIn", "signUp"}
    /\ q[i].kind = "signIn" /\ q[j].kind = "auth" => q[j].user = NoOne
    /\ q[i].kind = "signUp" => q[j].kind # "auth"

NothingAsked ==
  request = << >> /\ ~Queued(mainQueue, "signIn") /\ ~Queued(mainQueue, "signUp")

AskedRight ==
  request # << >> =>
    /\ signingUp = NoOne
    /\ ~Queued(mainQueue, "signIn") /\ ~Queued(mainQueue, "signUp")
    /\ request[1] = "signIn" => screen \in {"login", "crashed"}
    /\ request[1] = "signUp" => /\ screen \in {"signup", "crashed"}
                                /\ request[2] \notin registered
                                /\ ~Queued(mainQueue, "auth")

SignInRight ==
  Queued(mainQueue, "signIn") =>
    screen \in {"login", "crashed"} /\ request = << >> /\ signingUp = NoOne

SignUpRight ==
  Queued(mainQueue, "signUp") =>
    /\ screen \in {"signup", "crashed"} /\ request = << >> /\ signingUp = NoOne
    /\ currentUser # NoOne /\ currentUser \notin begun \cup Listened

WritingRight ==
  signingUp # NoOne =>
    /\ screen \in {"signup", "crashed"} /\ NothingAsked
    /\ currentUser # NoOne /\ ~Queued(mainQueue, "auth")

TabsRight ==
  screen \in {"tabs", "chat"} =>
    /\ NothingAsked /\ signingUp = NoOne /\ ~Queued(mainQueue, "auth")
    /\ currentUser \in Listened

Flow ==
  /\ LastAuth(mainQueue, currentUser, clientUser)
  /\ InTurn(mainQueue)
  /\ AskedRight /\ SignInRight /\ SignUpRight /\ WritingRight /\ TabsRight

(***************************************************************************)
(* The documents of sign-up.  An account's queue holds sign-up's three     *)
(* writes, in order, then what OpenChat writes; userID is in a document,   *)
(* or in the cached one, only while the write that deletes it is still to  *)
(* be committed, or seen to be.  All this but the kind of the writes may   *)
(* be lost in a kill that cuts sign-up's last write off; the account is    *)
(* not Whole then, and will never be.                                      *)
(***************************************************************************)
First(a) == Put(Buffer(a), {Exists, UserID})

Second(a) == MergeInto(Buffer(a), {NoUserID})

Third(a) == Put(Profile(a), {Exists})

CleanWrite(a) == {Put(Buffer(a), {Exists} \cup {Badge(g) : g \in S}) : S \in SUBSET Friend}

Permanent == [p \in SessionPath |-> {"document"}]

EntriesRight(a, q) ==
  \A i \in 1..Len(q) : q[i] \in {First(a), Second(a), Third(a)} \cup CleanWrite(a)

QueueRight(a, q, writing) ==
  \A i \in 1..Len(q) :
    /\ q[i] \in {First(a), Second(a), Third(a)} \cup CleanWrite(a)
    /\ q[i] = First(a) => \E j \in 1..Len(q) : j > i /\ q[j] = Second(a)
    /\ q[i] = Third(a) => \A j \in 1..Len(q) : j > i => q[j] \in CleanWrite(a)
    /\ ~writing => q[i] \in CleanWrite(a)

CaughtRight(q, caught) ==
  \A i \in caught : \A j \in 1..i : q[j].path = q[i].path => j \in caught

UserIDGoes(a, doc, cached, q, n, caught) ==
  /\ UserID \in doc => \E i \in 1..Len(q) : i > n /\ q[i] = Second(a)
  /\ UserID \in cached => \E i \in 1..Len(q) : i \notin caught /\ q[i] = Second(a)

BufferComes(a, cached, q) == Exists \in cached \/ \E i \in 1..Len(q) : q[i] = First(a)

AccountRight(a) ==
  /\ QueueRight(a, mutationQueue[a], a \in begun \ finished)
  /\ CaughtRight(mutationQueue[a], caughtUp[a])
  /\ UserIDGoes(a, docs[Buffer(a)], remoteDocs[a][Buffer(a)], mutationQueue[a], applied[a], caughtUp[a])
  /\ a \in begun => BufferComes(a, remoteDocs[a][Buffer(a)], mutationQueue[a])

Whole(a) ==
  a \in begun \ finished => \E i \in 1..Len(mutationQueue[a]) : mutationQueue[a][i] = Third(a)

Readable ==
  /\ finished \subseteq begun
  /\ Lemmas!KeysKept(Permanent)
  /\ \A a \in Account : EntriesRight(a, mutationQueue[a]) /\ (Whole(a) => AccountRight(a))

(***************************************************************************)
(* The badges.  What waits last for the screen, or else is on it, is what  *)
(* an account with a listener sees; and while all listeners are of one     *)
(* account, all badges anywhere are of friends who sent a message.         *)
(***************************************************************************)
IsLatest(q, shown, friends) ==
  \/ shown = friends /\ ~Queued(q, "buffer")
  \/ \E i \in 1..Len(q) :
       /\ q[i].kind = "buffer" /\ FriendsIn(q[i].doc) = friends
       /\ \A j \in 1..Len(q) : j > i => q[j].kind # "buffer"

Settling ==
  (Running /\ \E i \in 1..Len(listeners) : listeners[i].told) =>
    \E i \in 1..Len(listeners) :
      /\ listeners[i].told
      /\ IsLatest(mainQueue, bufferChat, FriendsIn(Seen(listeners[i].account)))

Senders(sent, a) == {f \in Friend : <<f, a>> \in sent}

OwnFields(sent) ==
  [p \in SessionPath |->
     IF p = Buffer(p.owner) THEN {Exists, UserID, NoUserID} \cup {Badge(f) : f \in Senders(sent, p.owner)}
     ELSE SessionField]

WaitingOwn(q, listened, A) ==
  \A i \in 1..Len(q) : q[i].kind = "buffer" =>
    q[i].account \in listened /\ q[i].doc \subseteq A[Buffer(q[i].account)]

OwnNow(A) ==
  /\ Lemmas!OnlyFields(A)
  /\ \A a, b \in Listened : a = b
  /\ WaitingOwn(mainQueue, Listened, A)
  /\ Listened = {} => bufferChat = {}
  /\ \A a \in Listened : bufferChat \subseteq Senders(sentTo, a)

OwnBadges == ~shared => OwnNow(OwnFields(sentTo))
-----------------------------------------------------------------------------
(***************************************************************************)
(* The client's definitions, here and in FirestoreLemmas, are the same.    *)
(***************************************************************************)
LEMMA Fields ==
  /\ Exists \in SessionField /\ UserID \in SessionField /\ NoUserID \in SessionField
  /\ \A f \in Friend : Badge(f) \in SessionField
  /\ \A f \in SessionField : "key" \in DOMAIN f
  /\ Exists.key = "document" /\ UserID.key = "userID" /\ NoUserID.key = "userID"
  /\ \A f : Badge(f).key = f
  /\ UserID # NoUserID /\ Exists # UserID /\ Exists # NoUserID
  /\ \A f \in Friend : f # "document" /\ f # "userID"
  /\ \A f \in Friend : Badge(f) # Exists /\ Badge(f) # UserID /\ Badge(f) # NoUserID
  /\ \A f, g : Badge(f) = Badge(g) => f = g
<1>1. /\ Exists.key = "document" /\ UserID.key = "userID" /\ NoUserID.key = "userID"
      /\ \A f : Badge(f).key = f
      /\ UserID.there = TRUE /\ NoUserID.there = FALSE
  BY DEF Exists, UserID, NoUserID, Badge
<1>2. \A f \in Friend : f # "document" /\ f # "userID"
  BY SessionAssumption
<1>3. /\ "key" \in DOMAIN Exists /\ "key" \in DOMAIN UserID /\ "key" \in DOMAIN NoUserID
      /\ \A f : "key" \in DOMAIN Badge(f)
  BY DEF Exists, UserID, NoUserID, Badge
<1>4. \A f \in SessionField : "key" \in DOMAIN f
  BY <1>3 DEF SessionField
<1>5. /\ Exists \in SessionField /\ UserID \in SessionField /\ NoUserID \in SessionField
      /\ \A f \in Friend : Badge(f) \in SessionField
  BY DEF SessionField
<1>6. UserID # NoUserID /\ Exists # UserID /\ Exists # NoUserID
  BY <1>1
<1>7. \A f \in Friend : Badge(f) # Exists /\ Badge(f) # UserID /\ Badge(f) # NoUserID
  BY <1>1, <1>2
<1>8. \A f, g : Badge(f) = Badge(g) => f = g
  BY <1>1
<1> QED  BY <1>1, <1>2, <1>4, <1>5, <1>6, <1>7, <1>8

LEMMA Paths ==
  /\ \A a \in Account : Buffer(a) \in SessionPath /\ Profile(a) \in SessionPath
  /\ \A p \in SessionPath : p.owner \in Account /\ (p = Buffer(p.owner) \/ p = Profile(p.owner))
  /\ \A a : Buffer(a).owner = a /\ Profile(a).owner = a
  /\ \A a, b : Buffer(a) # Profile(b)
  /\ \A a, b : Buffer(a) = Buffer(b) => a = b
<1>1. /\ \A a : Buffer(a).owner = a /\ Profile(a).owner = a
      /\ \A a : Buffer(a).coll = "ChatBuffer" /\ Profile(a).coll = "User"
  BY DEF Buffer, Profile
<1>2. \A a \in Account : Buffer(a) \in SessionPath /\ Profile(a) \in SessionPath
  BY DEF SessionPath
<1>3. \A p \in SessionPath : p.owner \in Account /\ (p = Buffer(p.owner) \/ p = Profile(p.owner))
  BY <1>1 DEF SessionPath
<1>4. \A a, b : Buffer(a) # Profile(b)
  BY <1>1
<1>5. \A a, b : Buffer(a) = Buffer(b) => a = b
  BY <1>1
<1> QED  BY <1>1, <1>2, <1>3, <1>4, <1>5

LEMMA SameTypes ==
  /\ Lemmas!FirestoreAssumption
  /\ Lemmas!Document = Document
  /\ Lemmas!Mutation = Mutation
  /\ Lemmas!FsTypeOK <=> FsTypeOK
<1>1. Lemmas!FirestoreAssumption
  BY Fields DEF Lemmas!FirestoreAssumption
<1>2. Lemmas!Document = Document
  BY DEF Lemmas!Document, Document
<1>3. Lemmas!Mutation = Mutation
  BY <1>2 DEF Lemmas!Mutation, Mutation
<1>4. Lemmas!FsTypeOK <=> FsTypeOK
  BY <1>2, <1>3 DEF Lemmas!FsTypeOK, FsTypeOK
<1> QED  BY <1>1, <1>2, <1>3, <1>4

LEMMA SameView ==
  ASSUME NEW doc, NEW queue, NEW p
  PROVE  LocalView(doc, queue, p) = Lemmas!LocalView(doc, queue, p)
  BY DEF LocalView, Lemmas!LocalView, Survives, Lemmas!Survives, Overwrites, Lemmas!Overwrites

LEMMA SameApply ==
  ASSUME NEW m, NEW doc
  PROVE  ApplyTo(m, doc) = Lemmas!ApplyTo(m, doc)
  BY DEF ApplyTo, Lemmas!ApplyTo, Overwrites, Lemmas!Overwrites

LEMMA SameWrite ==
  ASSUME NEW a, NEW ms, LocallyWrite(a, ms)
  PROVE  Lemmas!LocallyWrite(a, ms)
  BY DEF LocallyWrite, Lemmas!LocallyWrite

\* The kill, of all accounts' queues at once.
AllKilled == Lemmas!Killed(Account)

LEMMA SameKill ==
  ASSUME Relaunch
  PROVE  AllKilled
<1>1. \A a : OnDisk(a) = Lemmas!OnDisk(a)
  BY DEF OnDisk, Lemmas!OnDisk
<1>2. /\ mutationQueue' = [a \in Account |-> OnDisk(a)]
      /\ applied' = [a \in Account |-> 0] /\ caughtUp' = [a \in Account |-> {}]
      /\ UNCHANGED <<docs, remoteDocs, persisted>>
  BY DEF Relaunch, FreshProcess
<1>3. mutationQueue' = [a \in Account |-> IF a \in Account THEN Lemmas!OnDisk(a) ELSE mutationQueue[a]]
  BY <1>1, <1>2
<1>4. /\ applied' = [a \in Account |-> IF a \in Account THEN 0 ELSE applied[a]]
      /\ caughtUp' = [a \in Account |-> IF a \in Account THEN {} ELSE caughtUp[a]]
  BY <1>2
<1> QED  BY <1>2, <1>3, <1>4 DEF AllKilled, Lemmas!Killed

LEMMA SameNetwork ==
  /\ \A a \in Account : Persist(a) => Lemmas!NetworkStep
  /\ \A a \in Account : Commit(a) => Lemmas!NetworkStep
  /\ \A a \in Account : Acknowledge(a) => Lemmas!NetworkStep /\ Lemmas!Acknowledge(a)
  /\ \A a \in Account : RestartStream(a) => Lemmas!NetworkStep
  /\ \A a \in Account : \A p \in SessionPath : Watch(a, p) => Lemmas!NetworkStep
  /\ UNCHANGED clientVars => Lemmas!NetworkStep
<1>1. ASSUME NEW a \in Account, Commit(a) PROVE Lemmas!Commit(a)
  BY <1>1 DEF Commit, Lemmas!Commit, ApplyTo, Lemmas!ApplyTo, Overwrites, Lemmas!Overwrites
<1>2. ASSUME NEW a \in Account, Acknowledge(a) PROVE Lemmas!Acknowledge(a)
  BY <1>2 DEF Acknowledge, Lemmas!Acknowledge, ApplyTo, Lemmas!ApplyTo,
              Overwrites, Lemmas!Overwrites
<1>3. ASSUME NEW a \in Account, RestartStream(a) PROVE Lemmas!Restart(a)
  BY <1>3 DEF RestartStream, Lemmas!Restart
<1>4. ASSUME NEW a \in Account, NEW p \in SessionPath, Watch(a, p) PROVE Lemmas!Watch(a, p)
  BY <1>4 DEF Watch, Lemmas!Watch, CommittedOn, Lemmas!CommittedOn
<1>5. UNCHANGED clientVars => UNCHANGED Lemmas!fsVars
  BY DEF clientVars, Lemmas!fsVars
<1>6. ASSUME NEW a \in Account, Persist(a) PROVE Lemmas!Persist(a)
  BY <1>6 DEF Persist, Lemmas!Persist
<1> QED  BY <1>1, <1>2, <1>3, <1>4, <1>5, <1>6 DEF Lemmas!NetworkStep
-----------------------------------------------------------------------------
(***************************************************************************)
(* Sequences, and the shapes of the actions.                               *)
(***************************************************************************)
LEMMA Concat ==
  ASSUME NEW S, NEW q \in Seq(S), NEW r \in Seq(S), NEW s, s = q \o r
  PROVE  /\ s \in Seq(S) /\ Len(s) = Len(q) + Len(r) /\ Len(q) \in Nat /\ Len(r) \in Nat
         /\ \A i \in 1..Len(q) : i \in 1..Len(s) /\ s[i] = q[i]
         /\ \A i \in 1..Len(r) : i + Len(q) \in 1..Len(s) /\ s[i + Len(q)] = r[i]
         /\ \A i \in 1..Len(s) : \/ i \in 1..Len(q) /\ s[i] = q[i]
                                 \/ i - Len(q) \in 1..Len(r) /\ s[i] = r[i - Len(q)]
<1>1. s \in Seq(S) /\ Len(s) = Len(q) + Len(r) /\ Len(q) \in Nat /\ Len(r) \in Nat
  OBVIOUS
<1>2. \A i \in 1..Len(q) : i \in 1..Len(s) /\ s[i] = q[i]
  BY <1>1
<1>3. \A i \in 1..Len(r) : i + Len(q) \in 1..Len(s) /\ s[i + Len(q)] = r[i]
  BY <1>1
<1>4. ASSUME NEW i \in 1..Len(s)
      PROVE  \/ i \in 1..Len(q) /\ s[i] = q[i]
             \/ i - Len(q) \in 1..Len(r) /\ s[i] = r[i - Len(q)]
  <2>1. CASE i <= Len(q)
    BY <1>1, <1>2, <2>1
  <2>2. CASE i > Len(q)
    <3>1. i - Len(q) \in 1..Len(r)
      BY <1>1, <2>2
    <3>2. s[(i - Len(q)) + Len(q)] = r[i - Len(q)] /\ (i - Len(q)) + Len(q) = i
      BY <1>1, <1>3, <3>1
    <3> QED  BY <3>1, <3>2
  <2> QED  BY <1>1, <2>1, <2>2
<1> QED  BY <1>1, <1>2, <1>3, <1>4

LEMMA Rest ==
  ASSUME NEW S, NEW q \in Seq(S), q # << >>, NEW s, s = Tail(q)
  PROVE  /\ s \in Seq(S) /\ Len(q) \in Nat /\ Len(q) = Len(s) + 1 /\ Len(s) \in Nat
         /\ Head(q) = q[1] /\ 1 \in 1..Len(q) /\ q[1] \in S
         /\ \A i \in 1..Len(s) : i + 1 \in 1..Len(q) /\ s[i] = q[i + 1]
         /\ \A i \in 1..Len(q) : i # 1 => i - 1 \in 1..Len(s) /\ s[i - 1] = q[i]
<1>1. /\ s \in Seq(S) /\ Len(q) \in Nat /\ Len(q) = Len(s) + 1 /\ Len(s) \in Nat
      /\ Head(q) = q[1] /\ 1 \in 1..Len(q) /\ q[1] \in S
  OBVIOUS
<1>2. \A i \in 1..Len(s) : i + 1 \in 1..Len(q) /\ s[i] = q[i + 1]
  BY <1>1
<1>3. ASSUME NEW i \in 1..Len(q), i # 1
      PROVE  i - 1 \in 1..Len(s) /\ s[i - 1] = q[i]
  <2>1. i - 1 \in 1..Len(s) /\ (i - 1) + 1 = i
    BY <1>1, <1>3
  <2> QED  BY <1>2, <2>1
<1> QED  BY <1>1, <1>2, <1>3

LEMMA Single ==
  ASSUME NEW S, NEW e \in S, NEW s, s = <<e>>
  PROVE  s \in Seq(S) /\ Len(s) = 1 /\ s[1] = e
  OBVIOUS

LEMMA Added ==
  ASSUME NEW S, NEW q \in Seq(S), NEW e \in S, NEW s, s = Append(q, e)
  PROVE  /\ s \in Seq(S) /\ Len(s) = Len(q) + 1 /\ Len(q) \in Nat /\ s[Len(s)] = e
         /\ \A i \in 1..Len(q) : i \in 1..Len(s) /\ s[i] = q[i]
         /\ \A i \in 1..Len(s) : i \in 1..Len(q) \/ i = Len(s)
  OBVIOUS

LEMMA Functions ==
  ASSUME NEW S, NEW n \in Nat, NEW s \in [1..n -> S]
  PROVE  s \in Seq(S) /\ Len(s) = n
  OBVIOUS

LEMMA TurnsType ==
  ASSUME NEW n \in Nat, NEW T \in SUBSET (1..n), NEW turn \in SetToSeqs(T)
  PROVE  /\ turn \in Seq(T)
         /\ T # {} => Len(turn) > 0
<1>1. IsFiniteSet(T)
  <2>1. IsFiniteSet(1..n)
    BY FS_Interval
  <2> QED  BY <2>1, FS_Subset
<1>2. Cardinality(T) \in Nat /\ (T # {} => Cardinality(T) > 0)
  BY <1>1, FS_CardinalityType, FS_EmptySet
<1>3. turn \in [1..Cardinality(T) -> T]
  BY DEF SetToSeqs
<1>4. turn \in Seq(T) /\ Len(turn) = Cardinality(T)
  BY <1>2, <1>3, Functions
<1> QED  BY <1>2, <1>4

LEMMA ClientTypes ==
  ASSUME FsTypeOK
  PROVE  /\ \A p \in SessionPath : docs[p] \in Document
         /\ \A a \in Account : \A p \in SessionPath : remoteDocs[a][p] \in Document
         /\ \A a \in Account : mutationQueue[a] \in Seq(Mutation) /\ Len(mutationQueue[a]) \in Nat
         /\ \A a \in Account : /\ applied[a] \in Nat /\ applied[a] <= Len(mutationQueue[a])
                               /\ caughtUp[a] \subseteq 1..applied[a]
<1>1. \A a \in Account : mutationQueue[a] \in Seq(Mutation)
  BY DEF FsTypeOK
<1>2. \A a \in Account : Len(mutationQueue[a]) \in Nat
  BY <1>1
<1>3. \A p \in SessionPath : docs[p] \in Document
  BY DEF FsTypeOK
<1>4. \A a \in Account : remoteDocs[a] \in [SessionPath -> Document]
  BY DEF FsTypeOK
<1>5. \A a \in Account : /\ applied[a] \in Nat /\ applied[a] <= Len(mutationQueue[a])
                         /\ caughtUp[a] \subseteq 1..applied[a]
  <2>1. \A a \in Account : /\ applied[a] \in Nat /\ persisted[a] \in Nat
                           /\ applied[a] <= persisted[a] /\ persisted[a] <= Len(mutationQueue[a])
                           /\ caughtUp[a] \subseteq 1..applied[a]
    BY DEF FsTypeOK
  <2> QED  BY <1>2, <2>1
<1> QED  BY <1>1, <1>2, <1>3, <1>4, <1>5

LEMMA SeenType ==
  ASSUME FsTypeOK, NEW a \in Account
  PROVE  Seen(a) \in Document
<1>1. Buffer(a) \in SessionPath
  BY Paths
<1>2. remoteDocs[a][Buffer(a)] \in Document /\ mutationQueue[a] \in Seq(Mutation)
  BY <1>1, ClientTypes
<1>3. Lemmas!LocalView(remoteDocs[a][Buffer(a)], mutationQueue[a], Buffer(a)) \in Document
  BY <1>1, <1>2, SameTypes, Lemmas!LocalViewType
<1> QED  BY <1>2, <1>3, SameView DEF Seen, View

LEMMA NextSeen ==
  ASSUME NEW a
  PROVE  Seen(a)' = NewSeen(a)
  BY DEF Seen, NewSeen, View, LocalView, Survives, Overwrites

LEMMA NewSeenType ==
  ASSUME FsTypeOK', NEW a \in Account
  PROVE  NewSeen(a) \in Document
<1> DEFINE doc == remoteDocs'[a][Buffer(a)]
           queue == mutationQueue'[a]
<1>1. Buffer(a) \in SessionPath
  BY Paths
<1>2. doc \in Document /\ queue \in Seq(Mutation)
  <2>1. remoteDocs'[a] \in [SessionPath -> Document] /\ queue \in Seq(Mutation)
    BY DEF FsTypeOK, Document, Mutation
  <2> QED  BY <1>1, <2>1
<1> HIDE DEF doc, queue
<1>3. Lemmas!LocalView(doc, queue, Buffer(a)) \in Document
  BY <1>1, <1>2, SameTypes, Lemmas!LocalViewType
<1>4. LocalView(doc, queue, Buffer(a)) \in Document
  BY <1>3, SameView
<1> QED  BY <1>2, <1>4 DEF NewSeen, doc, queue

LEMMA ListenedIs ==
  ASSUME listeners \in Seq(Listener)
  PROVE  /\ \A a : a \in Listened <=> \E i \in 1..Len(listeners) : listeners[i].account = a
         /\ Len(listeners) \in Nat
         /\ \A i \in 1..Len(listeners) : listeners[i] \in Listener
  BY DEF Listened

LEMMA NextListenedIs ==
  ASSUME listeners' \in Seq(Listener)
  PROVE  \A a : a \in Listened' <=> \E i \in 1..Len(listeners') : listeners'[i].account = a
  BY DEF Listened

\* The snapshots of a step of the client, and what becomes of the listeners.
News(new, accounts) ==
  \A i \in 1..Len(new) :
    /\ new[i] = Snapshot(new[i].account, NewSeen(new[i].account))
    /\ new[i].account \in accounts \cap Listened
    /\ \E k \in 1..Len(listeners) : listeners[k].account = new[i].account /\ listeners'[k].told

SameListeners ==
  /\ listeners' \in Seq(Listener) /\ Len(listeners') = Len(listeners)
  /\ \A i \in 1..Len(listeners) : /\ listeners'[i].account = listeners[i].account
                                  /\ listeners[i].told => listeners'[i].told

NobodyTold(accounts, now) ==
  \A i \in 1..Len(listeners) :
    /\ listeners'[i].told = listeners[i].told
    /\ listeners[i].account \in accounts =>
         ~IsTold(i, Seen(listeners[i].account), NewSeen(listeners[i].account), now)

LEMMA Told ==
  ASSUME Types, FsTypeOK', NEW waiting \in Seq(Event), NEW accounts, NEW now, Tell(waiting, accounts, now)
  PROVE  /\ SameListeners
         /\ \E new \in Seq(Event) :
              /\ mainQueue' = waiting \o new
              /\ News(new, accounts)
              /\ new = << >> => NobodyTold(accounts, now)
<1> DEFINE Of(i) == listeners[i].account
           told == {i \in DOMAIN listeners : Of(i) \in accounts /\ IsTold(i, Seen(Of(i)), NewSeen(Of(i)), now)}
<1>1. /\ listeners \in Seq(Listener) /\ Len(listeners) \in Nat /\ DOMAIN listeners = 1..Len(listeners)
      /\ \A i \in 1..Len(listeners) : listeners[i] \in Listener
  BY DEF Types, ScreenTypes
<1>2. told \in SUBSET (1..Len(listeners))
  BY <1>1
<1>3. PICK turn \in SetToSeqs(told) :
        mainQueue' = waiting \o [n \in DOMAIN turn |-> Snapshot(Of(turn[n]), NewSeen(Of(turn[n])))]
  BY DEF Tell
<1>4. listeners' = [i \in DOMAIN listeners |-> [listeners[i] EXCEPT !.told = @ \/ i \in told]]
  BY DEF Tell
<1>t. \A i \in 1..Len(listeners) : i \in told <=>
        Of(i) \in accounts /\ IsTold(i, Seen(Of(i)), NewSeen(Of(i)), now)
  BY <1>1
<1> HIDE DEF told
<1>5. turn \in Seq(told) /\ (told # {} => Len(turn) > 0)
  BY <1>1, <1>2, TurnsType
<1>6. Len(turn) \in Nat /\ DOMAIN turn = 1..Len(turn) /\ \A n \in 1..Len(turn) : turn[n] \in told
  BY <1>5
<1>7. ASSUME NEW i \in 1..Len(listeners)
      PROVE  /\ listeners'[i] \in Listener /\ listeners'[i].account = listeners[i].account
             /\ listeners'[i].told <=> listeners[i].told \/ i \in told
  <2>1. listeners'[i] = [listeners[i] EXCEPT !.told = @ \/ i \in told]
    BY <1>1, <1>4
  <2>2. listeners[i] \in Listener
    BY <1>1
  <2> QED  BY <2>1, <2>2 DEF Listener
<1>8. SameListeners
  <2>1. listeners' \in [1..Len(listeners) -> Listener]
    BY <1>1, <1>4, <1>7
  <2>2. listeners' \in Seq(Listener) /\ Len(listeners') = Len(listeners)
    BY <1>1, <2>1, Functions
  <2> QED  BY <1>7, <2>2 DEF SameListeners
<1> DEFINE new == [n \in 1..Len(turn) |-> Snapshot(Of(turn[n]), NewSeen(Of(turn[n])))]
<1>9. ASSUME NEW n \in 1..Len(turn)
      PROVE  /\ new[n] \in Event /\ new[n].account = Of(turn[n])
             /\ new[n] = Snapshot(Of(turn[n]), NewSeen(Of(turn[n])))
             /\ turn[n] \in 1..Len(listeners) /\ turn[n] \in told
  <2>1. turn[n] \in told /\ turn[n] \in 1..Len(listeners)
    BY <1>2, <1>6
  <2>2. Of(turn[n]) \in Account
    BY <1>1, <2>1 DEF Listener
  <2>3. NewSeen(Of(turn[n])) \in Document
    BY <2>2, NewSeenType
  <2>4. new[n] = Snapshot(Of(turn[n]), NewSeen(Of(turn[n])))
    OBVIOUS
  <2> QED  BY <2>1, <2>2, <2>3, <2>4 DEF Snapshot, Event
<1>10. new \in [1..Len(turn) -> Event]
  BY <1>9
<1>11. new \in Seq(Event) /\ Len(new) = Len(turn)
  BY <1>6, <1>10, Functions
<1>12. mainQueue' = waiting \o new
  BY <1>3, <1>6
<1> HIDE DEF new
<1>13. News(new, accounts)
  <2> SUFFICES ASSUME NEW i \in 1..Len(new)
               PROVE  /\ new[i] = Snapshot(new[i].account, NewSeen(new[i].account))
                      /\ new[i].account \in accounts \cap Listened
                      /\ \E k \in 1..Len(listeners) :
                           listeners[k].account = new[i].account /\ listeners'[k].told
    BY DEF News
  <2>1. /\ new[i].account = Of(turn[i]) /\ new[i] = Snapshot(Of(turn[i]), NewSeen(Of(turn[i])))
        /\ turn[i] \in 1..Len(listeners) /\ turn[i] \in told
    BY <1>9, <1>11
  <2>2. Of(turn[i]) \in accounts
    BY <1>t, <2>1
  <2>3. Of(turn[i]) \in Listened
    BY <1>1, <2>1 DEF Listened
  <2>4. listeners'[turn[i]].told
    BY <1>7, <2>1
  <2> QED  BY <2>1, <2>2, <2>3, <2>4
<1>14. new = << >> => NobodyTold(accounts, now)
  <2> SUFFICES ASSUME new = << >> PROVE NobodyTold(accounts, now)
    OBVIOUS
  <2>1. told = {}
    BY <1>5, <1>11
  <2>2. ASSUME NEW i \in 1..Len(listeners)
        PROVE  /\ listeners'[i].told = listeners[i].told
               /\ Of(i) \in accounts => ~IsTold(i, Seen(Of(i)), NewSeen(Of(i)), now)
    <3>1. listeners'[i].told \in BOOLEAN /\ listeners[i].told \in BOOLEAN
      BY <1>1, <1>7 DEF Listener
    <3>2. listeners'[i].told <=> listeners[i].told
      BY <1>7, <2>1
    <3>3. listeners'[i].told = listeners[i].told
      BY <3>1, <3>2
    <3> QED  BY <1>t, <2>1, <3>3
  <2> QED  BY <2>2 DEF NobodyTold
<1> QED  BY <1>8, <1>11, <1>12, <1>13, <1>14

\* A new tab bar.
LEMMA TabBar ==
  ASSUME Types, NEW waiting \in Seq(Event), NewTabBar(waiting)
  PROVE  \/ /\ currentUser = NoOne /\ screen' = "crashed" /\ mainQueue' = waiting
            /\ listeners' = listeners /\ shared' = shared
         \/ \E first \in Seq(Event), l \in Listener :
              /\ currentUser \in Account /\ currentUser # NoOne /\ screen' = "tabs"
              /\ first = IF Exists \in Seen(currentUser)
                         THEN <<Snapshot(currentUser, Seen(currentUser))>> ELSE << >>
              /\ l.account = currentUser /\ l.told = (first # << >>)
              /\ mainQueue' = waiting \o first /\ listeners' = Append(listeners, l)
              /\ shared' = (shared \/ ~(Listened \subseteq {currentUser}))
<1>1. CASE currentUser = NoOne
  BY <1>1 DEF NewTabBar
<1>2. CASE currentUser # NoOne
  <2> DEFINE first == IF Exists \in Seen(currentUser)
                      THEN <<Snapshot(currentUser, Seen(currentUser))>> ELSE << >>
             l == [account |-> currentUser, told |-> first # << >>]
  <2>1. currentUser \in Account
    BY <1>2 DEF Types, ScreenTypes
  <2>2. Seen(currentUser) \in Document
    BY <2>1, SeenType DEF Types
  <2>3. Snapshot(currentUser, Seen(currentUser)) \in Event
    BY <2>1, <2>2 DEF Snapshot, Event
  <2>4. first \in Seq(Event)
    <3>1. << >> \in Seq(Event)
      OBVIOUS
    <3>2. <<Snapshot(currentUser, Seen(currentUser))>> \in Seq(Event)
      BY <2>3
    <3> QED  BY <3>1, <3>2
  <2>5. l \in Listener
    BY <2>1 DEF Listener
  <2>6. /\ screen' = "tabs" /\ mainQueue' = waiting \o first /\ listeners' = Append(listeners, l)
        /\ shared' = (shared \/ ~(Listened \subseteq {currentUser}))
    BY <1>2 DEF NewTabBar
  <2>7. l.account = currentUser /\ l.told = (first # << >>)
    OBVIOUS
  <2> HIDE DEF l
  <2> QED  BY <1>2, <2>1, <2>4, <2>5, <2>6, <2>7
<1> QED  BY <1>1, <1>2
\* The writes.
LEMMA Writes ==
  ASSUME NEW a \in Account
  PROVE  /\ First(a) \in Mutation /\ Second(a) \in Mutation /\ Third(a) \in Mutation
         /\ First(a).path = Buffer(a) /\ First(a).fields = {Exists, UserID} /\ ~First(a).merge
         /\ Second(a).path = Buffer(a) /\ Second(a).fields = {NoUserID} /\ Second(a).merge
         /\ Third(a).path = Profile(a) /\ Third(a).fields = {Exists} /\ ~Third(a).merge
<1>1. Buffer(a) \in SessionPath /\ Profile(a) \in SessionPath
  BY Paths
<1>2. {Exists, UserID} \in Document /\ {NoUserID} \in Document /\ {Exists} \in Document
  BY Fields DEF Document
<1>3. First(a) = [path |-> Buffer(a), fields |-> {Exists, UserID}, merge |-> FALSE]
  BY DEF First, Put
<1>4. Second(a) = [path |-> Buffer(a), fields |-> {NoUserID}, merge |-> TRUE]
  BY DEF Second, MergeInto
<1>5. Third(a) = [path |-> Profile(a), fields |-> {Exists}, merge |-> FALSE]
  BY DEF Third, Put
<1> QED  BY <1>1, <1>2, <1>3, <1>4, <1>5 DEF Mutation

LEMMA CleanWrites ==
  ASSUME NEW a \in Account, NEW m \in CleanWrite(a)
  PROVE  /\ m \in Mutation /\ m.path = Buffer(a) /\ ~m.merge
         /\ Exists \in m.fields /\ UserID \notin m.fields /\ NoUserID \notin m.fields
         /\ m \notin {First(a), Second(a), Third(a)}
<1>1. PICK S \in SUBSET Friend : m = Put(Buffer(a), {Exists} \cup {Badge(g) : g \in S})
  BY DEF CleanWrite
<1> DEFINE fields == {Exists} \cup {Badge(g) : g \in S}
<1>2. m = [path |-> Buffer(a), fields |-> fields, merge |-> FALSE]
  BY <1>1 DEF Put
<1>3. fields \subseteq SessionField
  BY Fields
<1>4. \A f, g \in fields : f.key = g.key => f = g
  BY Fields
<1>5. fields \in Document
  BY <1>3, <1>4 DEF Document
<1>6. Exists \in fields /\ UserID \notin fields /\ NoUserID \notin fields
  BY Fields
<1> HIDE DEF fields
<1>7. Buffer(a) \in SessionPath
  BY Paths
<1>8. /\ m \in Mutation /\ m.path = Buffer(a) /\ ~m.merge
      /\ Exists \in m.fields /\ UserID \notin m.fields /\ NoUserID \notin m.fields
  BY <1>2, <1>5, <1>6, <1>7 DEF Mutation
<1>9. m # First(a) /\ m # Second(a) /\ m # Third(a)
  BY <1>8, Writes, Paths
<1> QED  BY <1>8, <1>9

LEMMA SignUpWritesAre ==
  ASSUME NEW a \in Account
  PROVE  /\ SignUpWrites(a) \in Seq(Mutation) /\ Len(SignUpWrites(a)) = 3
         /\ SignUpWrites(a)[1] = First(a) /\ SignUpWrites(a)[2] = Second(a)
         /\ SignUpWrites(a)[3] = Third(a)
<1>1. SignUpWrites(a) = <<First(a), Second(a), Third(a)>>
  BY DEF SignUpWrites, First, Second, Third
<1>2. <<First(a), Second(a), Third(a)>> \in Seq(Mutation)
  BY Writes
<1> QED  BY <1>1, <1>2

LEMMA CleanedIs ==
  ASSUME NEW a \in Account, NEW f, bufferChat \subseteq Friend
  PROVE  /\ Put(Buffer(a), Cleaned(f)) \in CleanWrite(a)
         /\ <<Put(Buffer(a), Cleaned(f))>> \in Seq(Mutation)
         /\ Len(<<Put(Buffer(a), Cleaned(f))>>) = 1
         /\ <<Put(Buffer(a), Cleaned(f))>>[1] = Put(Buffer(a), Cleaned(f))
<1>1. bufferChat \ {f} \in SUBSET Friend
  OBVIOUS
<1>2. Put(Buffer(a), Cleaned(f)) = Put(Buffer(a), {Exists} \cup {Badge(g) : g \in bufferChat \ {f}})
  BY DEF Cleaned
<1>3. Put(Buffer(a), Cleaned(f)) \in CleanWrite(a)
  BY <1>1, <1>2 DEF CleanWrite
<1>4. Put(Buffer(a), Cleaned(f)) \in Mutation
  BY <1>3, CleanWrites
<1> QED  BY <1>3, <1>4

\* Nobody else is signed in when the app writes.
LEMMA AuthIsFirst ==
  ASSUME Flow, ~Queued(mainQueue, "auth")
  PROVE  currentUser = clientUser
  BY DEF Flow, LastAuth, Queued

LEMMA CreatedWrites ==
  ASSUME Types, Flow, Created
  PROVE  /\ currentUser \in Account /\ currentUser \in registered /\ clientUser = currentUser
         /\ currentUser \notin begun \cup Listened
         /\ LocallyWrite(currentUser, SignUpWrites(currentUser))
         /\ mainQueue # << >> /\ mainQueue[1].kind = "signUp" /\ mainQueue' = Tail(mainQueue)
         /\ signingUp' = currentUser /\ begun' = begun \cup {currentUser} /\ screen' = screen
<1>1. mainQueue \in Seq(Event) /\ mainQueue # << >> /\ Head(mainQueue).kind = "signUp"
  BY DEF Created, Turn, Types, ScreenTypes
<1>2. 1 \in 1..Len(mainQueue) /\ mainQueue[1].kind = "signUp"
  BY <1>1, Rest
<1>3. Queued(mainQueue, "signUp")
  BY <1>2 DEF Queued
<1>4. currentUser # NoOne /\ currentUser \notin begun \cup Listened
  BY <1>3 DEF Flow, SignUpRight
<1>5. ASSUME NEW i \in 1..Len(mainQueue) PROVE mainQueue[i].kind # "auth"
  <2>1. CASE i = 1
    BY <1>2, <2>1
  <2>2. CASE i # 1
    <3>1. 1 < i
      BY <1>1, <2>2
    <3> QED  BY <1>2, <3>1 DEF Flow, InTurn
  <2> QED  BY <2>1, <2>2
<1>6. clientUser = currentUser
  BY <1>5, AuthIsFirst DEF Queued
<1>7. currentUser \in Account /\ currentUser \in registered
  BY <1>4 DEF Types, ScreenTypes
<1> QED  BY <1>1, <1>2, <1>4, <1>6, <1>7 DEF Created

LEMMA OpenChatWrites ==
  ASSUME Types, Flow, NEW f \in Friend, OpenChat(f)
  PROVE  /\ currentUser \in Account /\ clientUser = currentUser /\ currentUser \in Listened
         /\ LocallyWrite(currentUser, <<Put(Buffer(currentUser), Cleaned(f))>>)
         /\ Tell(mainQueue, {currentUser}, FALSE)
<1>1. currentUser \in Listened /\ ~Queued(mainQueue, "auth")
  BY DEF OpenChat, Flow, TabsRight
<1>2. currentUser \in Account
  BY <1>1 DEF Types, ScreenTypes
<1> QED  BY <1>1, <1>2, AuthIsFirst DEF OpenChat
-----------------------------------------------------------------------------
(***************************************************************************)
(* What each step does to the client, to begun and to finished.            *)
(***************************************************************************)
AllRestart ==
  /\ applied' = [a \in Account |-> 0]
  /\ caughtUp' = [a \in Account |-> {}]
  /\ UNCHANGED <<docs, remoteDocs, mutationQueue, persisted>>

Sends(f, a) ==
  /\ docs' = [docs EXCEPT ![Buffer(a)] = ApplyTo(MergeInto(Buffer(a), {Exists, Badge(f)}), @)]
  /\ sentTo' = sentTo \cup {<<f, a>>}
  /\ UNCHANGED <<remoteDocs, mutationQueue, persisted, applied, caughtUp>>

Answers(a) ==
  /\ Acknowledge(a)
  /\ finished' = IF mutationQueue[a][1].path = Profile(a) THEN finished \cup {a} ELSE finished

SignsUp(a) ==
  /\ a \notin begun /\ begun' = begun \cup {a}
  /\ LocallyWrite(a, SignUpWrites(a))

WritesClean(a, m) == m \in CleanWrite(a) /\ LocallyWrite(a, <<m>>)

ClientSteps ==
  \/ /\ UNCHANGED <<begun, finished>>
     /\ \/ UNCHANGED clientVars
        \/ AllRestart
        \/ AllKilled
        \/ \E a \in Account : Persist(a) \/ Commit(a) \/ RestartStream(a) \/ Watch(a, Buffer(a))
        \/ \E f \in Friend, a \in Account : Sends(f, a)
        \/ \E a \in Account, m \in Mutation : WritesClean(a, m)
  \/ begun' = begun /\ \E a \in Account : Answers(a)
  \/ finished' = finished /\ \E a \in Account : SignsUp(a)

LEMMA StepsOfClient ==
  ASSUME Types, Flow, [Next]_vars
  PROVE  ClientSteps
<1>1. ASSUME NEW f \in Friend, OpenChat(f) PROVE ClientSteps
  <2>1. /\ currentUser \in Account
        /\ LocallyWrite(currentUser, <<Put(Buffer(currentUser), Cleaned(f))>>)
    BY <1>1, OpenChatWrites
  <2>2. Put(Buffer(currentUser), Cleaned(f)) \in CleanWrite(currentUser)
    BY <2>1, CleanedIs DEF Types, ScreenTypes
  <2>3. Put(Buffer(currentUser), Cleaned(f)) \in Mutation
    BY <2>1, <2>2, CleanWrites
  <2>4. WritesClean(currentUser, Put(Buffer(currentUser), Cleaned(f)))
    BY <2>1, <2>2 DEF WritesClean
  <2>5. UNCHANGED <<begun, finished>>
    BY <1>1 DEF OpenChat, history
  <2> QED  BY <2>1, <2>3, <2>4, <2>5 DEF ClientSteps
<1>2. ASSUME Created PROVE ClientSteps
  <2>1. SignsUp(currentUser) /\ currentUser \in Account
    BY <1>2, CreatedWrites DEF SignsUp
  <2>2. finished' = finished
    BY <1>2 DEF Created
  <2> QED  BY <2>1, <2>2 DEF ClientSteps
<1>3. CASE OnScreen
  <2>1. ASSUME NEW a \in Account, LoginClick(a) \/ SignupClick(a) PROVE ClientSteps
    BY <2>1 DEF LoginClick, SignupClick, Ask, ClientSteps
  <2>2. CASE OtherScreen
    BY <2>2 DEF OtherScreen, ClientSteps, history
  <2>3. CASE SignOut
    BY <2>3 DEF SignOut, ClientSteps, history
  <2>4. CASE Back
    BY <2>4 DEF Back, ClientSteps
  <2> QED  BY <1>1, <1>3, <2>1, <2>2, <2>3, <2>4 DEF OnScreen
<1>4. CASE OnMain
  <2>1. CASE CredentialDidChange
    BY <2>1 DEF CredentialDidChange, ClientSteps, AllRestart, history
  <2>2. CASE SignedIn
    BY <2>2 DEF SignedIn, ClientSteps
  <2>3. CASE SignedUp
    BY <2>3 DEF SignedUp, ClientSteps
  <2>4. CASE BufferCallback
    BY <2>4 DEF BufferCallback, ClientSteps, history
  <2> QED  BY <1>2, <1>4, <2>1, <2>2, <2>3, <2>4 DEF OnMain
<1>5. CASE Answer
  BY <1>5 DEF Answer, ClientSteps, history
<1>6. ASSUME NEW e \in Messages, FriendSends(e[1], e[2]) PROVE ClientSteps
  <2>1. e[1] \in Friend /\ e[2] \in Account
    BY SessionAssumption
  <2>2. Sends(e[1], e[2]) /\ UNCHANGED <<begun, finished>>
    BY <1>6 DEF FriendSends, Sends
  <2> QED  BY <2>1, <2>2 DEF ClientSteps
<1>7. ASSUME NEW a \in Account, CommitWrite(a) PROVE ClientSteps
  BY <1>7 DEF CommitWrite, ClientSteps, history
<1>8. ASSUME NEW a \in Account, WriteAnswered(a) PROVE ClientSteps
  <2>1. mutationQueue[a] # << >> /\ mutationQueue[a] \in Seq(Mutation)
    <3>1. applied[a] > 0
      BY <1>8 DEF WriteAnswered, Acknowledge
    <3> QED  BY <3>1, ClientTypes DEF Types
  <2>2. Head(mutationQueue[a]) = mutationQueue[a][1]
    BY <2>1, Rest
  <2>3. Answers(a) /\ begun' = begun
    BY <1>8, <2>2 DEF WriteAnswered, Answers
  <2> QED  BY <2>3 DEF ClientSteps
<1>9. ASSUME NEW a \in Account, ReceiveSnapshot(a) PROVE ClientSteps
  BY <1>9 DEF ReceiveSnapshot, ClientSteps, history
<1>10. ASSUME NEW a \in Account, GoOffline(a) PROVE ClientSteps
  BY <1>10 DEF GoOffline, ClientSteps, history
<1>11. ASSUME NEW a \in Account, StreamBroken(a) PROVE ClientSteps
  BY <1>11 DEF StreamBroken, ClientSteps
<1>12. CASE Relaunch
  <2>1. AllKilled /\ UNCHANGED <<begun, finished>>
    BY <1>12, SameKill DEF Relaunch, FreshProcess
  <2> QED  BY <2>1 DEF ClientSteps
<1>13. CASE UNCHANGED vars
  BY <1>13 DEF vars, ClientSteps, history
<1>14. ASSUME NEW a \in Account, PersistWrite(a) PROVE ClientSteps
  BY <1>14 DEF PersistWrite, ClientSteps, history
<1> QED
  BY <1>3, <1>4, <1>5, <1>6, <1>7, <1>8, <1>9, <1>10, <1>11, <1>12, <1>13, <1>14 DEF Next

LEMMA StepsKeepFsTypes ==
  ASSUME FsTypeOK, ClientSteps
  PROVE  FsTypeOK'
<1>p. \A a \in Account : Buffer(a) \in SessionPath
  BY Paths
<1>n. Lemmas!NetworkStep => FsTypeOK'
  <2>1. Lemmas!NetworkStep => Lemmas!FsTypeOK'
    BY SameTypes, Lemmas!NetworkType
  <2>2. Lemmas!FsTypeOK' => FsTypeOK'
    BY SameTypes DEF Lemmas!FsTypeOK, FsTypeOK, Lemmas!Document, Document, Lemmas!Mutation, Mutation
  <2> QED  BY <2>1, <2>2
<1>w. ASSUME NEW a \in Account, NEW ms \in Seq(Mutation), LocallyWrite(a, ms) PROVE FsTypeOK'
  <2>1. Lemmas!FsTypeOK'
    BY <1>w, SameTypes, SameWrite, Lemmas!LocallyWriteType
  <2> QED
    BY <2>1, SameTypes DEF Lemmas!FsTypeOK, FsTypeOK, Lemmas!Document, Document, Lemmas!Mutation, Mutation
<1>1. UNCHANGED clientVars => FsTypeOK'
  BY <1>n, SameNetwork
<1>2. ASSUME AllRestart PROVE FsTypeOK'
  <2>1. applied' \in [Account -> Nat] /\ caughtUp' \in [Account -> SUBSET Nat]
    BY <1>2 DEF AllRestart
  <2>2. ASSUME NEW a \in Account
        PROVE  /\ applied'[a] <= persisted'[a] /\ persisted'[a] <= Len(mutationQueue'[a])
               /\ caughtUp'[a] \subseteq 1..applied'[a]
    <3>1. /\ applied'[a] = 0 /\ caughtUp'[a] = {} /\ mutationQueue'[a] = mutationQueue[a]
          /\ persisted'[a] = persisted[a]
      BY <1>2 DEF AllRestart
    <3>2. persisted[a] \in Nat /\ persisted[a] <= Len(mutationQueue[a])
      BY DEF FsTypeOK
    <3> QED  BY <3>1, <3>2
  <2>3. UNCHANGED <<docs, remoteDocs, mutationQueue, persisted>>
    BY <1>2 DEF AllRestart
  <2> QED  BY <2>1, <2>2, <2>3 DEF FsTypeOK, Document, Mutation
<1>k. ASSUME AllKilled PROVE FsTypeOK'
  <2>1. Lemmas!FsTypeOK'
    BY <1>k, SameTypes, Lemmas!KilledType DEF AllKilled
  <2> QED
    BY <2>1, SameTypes DEF Lemmas!FsTypeOK, FsTypeOK, Lemmas!Document, Document, Lemmas!Mutation, Mutation
<1>3. \A a \in Account :
        Persist(a) \/ Commit(a) \/ RestartStream(a) \/ Watch(a, Buffer(a)) \/ Answers(a) => FsTypeOK'
  BY <1>p, <1>n, SameNetwork DEF Answers
<1>4. ASSUME NEW f \in Friend, NEW a \in Account, Sends(f, a) PROVE FsTypeOK'
  <2> DEFINE m == MergeInto(Buffer(a), {Exists, Badge(f)})
             doc == ApplyTo(m, docs[Buffer(a)])
  <2>1. m = [path |-> Buffer(a), fields |-> {Exists, Badge(f)}, merge |-> TRUE]
    BY DEF MergeInto
  <2>2. {Exists, Badge(f)} \in Document
    <3>1. /\ Exists \in SessionField /\ Badge(f) \in SessionField
          /\ Exists.key = "document" /\ Badge(f).key = f /\ f # "document"
      BY Fields
    <3>2. \A x, y \in {Exists, Badge(f)} : x.key = y.key => x = y
      BY <3>1
    <3>3. {Exists, Badge(f)} \in SUBSET SessionField
      BY <3>1
    <3> QED  BY <3>2, <3>3 DEF Document
  <2>3. m \in Mutation
    <3>1. \A fields \in Document : [path |-> Buffer(a), fields |-> fields, merge |-> TRUE] \in Mutation
      BY <1>p DEF Mutation
    <3> QED  BY <2>1, <2>2, <3>1
  <2>4. docs[Buffer(a)] \in Document
    BY <1>p, ClientTypes
  <2> HIDE DEF m
  <2>5. Lemmas!ApplyTo(m, docs[Buffer(a)]) \in Document
    BY <2>3, <2>4, SameTypes, Lemmas!ApplyToType
  <2>6. doc \in Document
    BY <2>5, SameApply
  <2>7. docs' = [docs EXCEPT ![Buffer(a)] = doc]
    BY <1>4 DEF Sends, m
  <2> HIDE DEF doc
  <2>8. docs' \in [SessionPath -> Document]
    BY <2>6, <2>7 DEF FsTypeOK
  <2> QED  BY <1>4, <2>8 DEF Sends, FsTypeOK, Document, Mutation
<1>5. ASSUME NEW a \in Account, NEW m \in Mutation, WritesClean(a, m) PROVE FsTypeOK'
  BY <1>5, <1>w DEF WritesClean
<1>6. ASSUME NEW a \in Account, SignsUp(a) PROVE FsTypeOK'
  BY <1>6, <1>w, SignUpWritesAre DEF SignsUp
<1> QED  BY <1>1, <1>2, <1>3, <1>4, <1>5, <1>6, <1>k DEF ClientSteps
-----------------------------------------------------------------------------
(***************************************************************************)
(* Types.                                                                  *)
(***************************************************************************)
LEMMA SameListened ==
  ASSUME Types, SameListeners
  PROVE  Listened' = Listened
<1>1. listeners \in Seq(Listener) /\ listeners' \in Seq(Listener)
  BY DEF Types, ScreenTypes, SameListeners
<1>2. \A a : a \in Listened' <=> a \in Listened
  BY <1>1, ListenedIs, NextListenedIs DEF SameListeners
<1> QED  BY <1>2

LEMMA TabBarListened ==
  ASSUME Types, NEW l \in Listener, listeners' = Append(listeners, l)
  PROVE  listeners' \in Seq(Listener) /\ Listened' = Listened \cup {l.account}
<1>1. listeners \in Seq(Listener)
  BY DEF Types, ScreenTypes
<1>2. /\ listeners' \in Seq(Listener)
      /\ Len(listeners') = Len(listeners) + 1 /\ Len(listeners) \in Nat /\ listeners'[Len(listeners')] = l
      /\ \A i \in 1..Len(listeners) : i \in 1..Len(listeners') /\ listeners'[i] = listeners[i]
      /\ \A i \in 1..Len(listeners') : i \in 1..Len(listeners) \/ i = Len(listeners')
  BY <1>1, Added
<1>3. \A a : a \in Listened' <=> a \in Listened \cup {l.account}
  BY <1>1, <1>2, ListenedIs, NextListenedIs
<1> QED  BY <1>2, <1>3

\* The variables that change in few steps.
LEMMA ToldTypes ==
  ASSUME Types, FsTypeOK', NEW waiting \in Seq(Event), NEW accounts, NEW now, Tell(waiting, accounts, now)
  PROVE  listeners' \in Seq(Listener) /\ Listened' = Listened /\ mainQueue' \in Seq(Event)
<1>1. SameListeners
  BY Told
<1>2. PICK new \in Seq(Event) : mainQueue' = waiting \o new
  BY Told
<1> QED  BY <1>1, <1>2, SameListened DEF SameListeners

LEMMA TabBarTypes ==
  ASSUME Types, NEW waiting \in Seq(Event), NewTabBar(waiting)
  PROVE  /\ screen' \in {"tabs", "crashed"} /\ shared' \in BOOLEAN
         /\ listeners' \in Seq(Listener) /\ Listened' \subseteq registered /\ mainQueue' \in Seq(Event)
<1>1. CASE currentUser = NoOne /\ screen' = "crashed" /\ mainQueue' = waiting
           /\ listeners' = listeners /\ shared' = shared
  BY <1>1 DEF Types, ScreenTypes, Listened
<1>2. ASSUME NEW first \in Seq(Event), NEW l \in Listener,
             currentUser # NoOne, screen' = "tabs", l.account = currentUser,
             mainQueue' = waiting \o first, listeners' = Append(listeners, l),
             shared' = (shared \/ ~(Listened \subseteq {currentUser}))
      PROVE  /\ screen' \in {"tabs", "crashed"} /\ shared' \in BOOLEAN
             /\ listeners' \in Seq(Listener) /\ Listened' \subseteq registered /\ mainQueue' \in Seq(Event)
  <2>1. listeners' \in Seq(Listener) /\ Listened' = Listened \cup {currentUser}
    BY <1>2, TabBarListened
  <2>2. Listened' \subseteq registered
    BY <1>2, <2>1 DEF Types, ScreenTypes
  <2>3. mainQueue' \in Seq(Event)
    BY <1>2
  <2> QED  BY <1>2, <2>1, <2>2, <2>3
<1> QED  BY <1>1, <1>2, TabBar

LEMMA TailType ==
  ASSUME Types, mainQueue # << >>
  PROVE  Tail(mainQueue) \in Seq(Event) /\ Head(mainQueue) \in Event
<1>1. mainQueue \in Seq(Event)
  BY DEF Types, ScreenTypes
<1> QED  BY <1>1

LEMMA RequestType ==
  ASSUME Types, request # << >>
  PROVE  request[1] \in {"signIn", "signUp"} /\ request[2] \in Account
  BY DEF Types, ScreenTypes

LEMMA InitTypes == Init => Types
<1> SUFFICES ASSUME Init PROVE Types
  OBVIOUS
<1>1. docs \in [SessionPath -> Document]
  <2>1. {Exists} \in Document /\ {} \in Document
    BY Fields DEF Document
  <2> QED  BY <2>1 DEF Init
<1>2. remoteDocs \in [Account -> [SessionPath -> Document]]
  <2>1. {} \in Document
    BY DEF Document
  <2> QED  BY <2>1 DEF Init
<1>3. << >> \in Seq(Mutation) /\ Len(<< >>) = 0 /\ << >> \in Seq(Event) /\ << >> \in Seq(Listener)
  OBVIOUS
<1>4. FsTypeOK
  <2>1. /\ mutationQueue \in [Account -> Seq(Mutation)] /\ persisted \in [Account -> Nat]
        /\ applied \in [Account -> Nat] /\ caughtUp \in [Account -> SUBSET Nat]
    BY <1>3 DEF Init
  <2>2. \A a \in Account : /\ mutationQueue[a] = << >> /\ persisted[a] = 0
                           /\ applied[a] = 0 /\ caughtUp[a] = {}
    BY DEF Init
  <2> QED  BY <1>1, <1>2, <1>3, <2>1, <2>2 DEF FsTypeOK
<1>5. Listened = {}
  BY DEF Init, Listened
<1>6. ScreenTypes
  BY <1>3, <1>5, SessionAssumption DEF Init, ScreenTypes, Person
<1> QED  BY <1>4, <1>6 DEF Types

LEMMA StepTypes ==
  ASSUME Types, Flow, [Next]_vars
  PROVE  Types'
<1>1. FsTypeOK'
  BY StepsOfClient, StepsKeepFsTypes DEF Types
<1>q. mainQueue \in Seq(Event)
  BY DEF Types, ScreenTypes
<1>l. listeners' = listeners => Listened' = Listened
  BY DEF Listened
<1>2. CASE OnScreen
  <2>1. ASSUME NEW a \in Account, LoginClick(a) \/ SignupClick(a) PROVE ScreenTypes'
    <3>1. request' \in {"signIn", "signUp"} \X Account
      BY <2>1 DEF LoginClick, SignupClick, Ask
    <3> QED
      BY <1>l, <2>1, <3>1 DEF LoginClick, SignupClick, Ask, screenVars, Types, ScreenTypes
  <2>2. CASE OtherScreen
    <3>1. UNCHANGED <<registered, currentUser, clientUser, request, begun, sentTo, shared>>
      BY <2>2 DEF OtherScreen, authVars, history
    <3>2. /\ screen' \in {"login", "signup"} /\ signingUp' = NoOne
          /\ UNCHANGED <<listeners, bufferChat, mainQueue>>
      BY <2>2 DEF OtherScreen
    <3> QED  BY <1>1, <1>l, <3>1, <3>2 DEF Types, ScreenTypes, Person
  <2>3. CASE SignOut
    <3>1. [kind |-> "auth", user |-> NoOne] \in Event
      BY DEF Event, Person
    <3>2. mainQueue' \in Seq(Event)
      BY <1>q, <2>3, <3>1 DEF SignOut
    <3>3. UNCHANGED <<registered, clientUser, request, signingUp, begun, sentTo, shared>>
      BY <2>3 DEF SignOut, history
    <3>4. screen' = "login" /\ currentUser' = NoOne /\ UNCHANGED <<listeners, bufferChat>>
      BY <2>3 DEF SignOut
    <3> QED  BY <1>1, <1>l, <3>2, <3>3, <3>4 DEF Types, ScreenTypes, Person
  <2>4. ASSUME NEW f \in Friend, OpenChat(f) PROVE ScreenTypes'
    <3>1. listeners' \in Seq(Listener) /\ Listened' = Listened /\ mainQueue' \in Seq(Event)
      BY <1>1, <1>q, <2>4, ToldTypes DEF OpenChat
    <3> QED  BY <2>4, <3>1 DEF OpenChat, authVars, history, Types, ScreenTypes
  <2>5. CASE Back
    <3>1. /\ screen' \in {"tabs", "crashed"} /\ shared' \in BOOLEAN
          /\ listeners' \in Seq(Listener) /\ Listened' \subseteq registered /\ mainQueue' \in Seq(Event)
      BY <1>q, <2>5, TabBarTypes DEF Back
    <3>2. UNCHANGED <<registered, currentUser, clientUser, request, signingUp, bufferChat, begun, sentTo>>
      BY <2>5 DEF Back, authVars
    <3> QED  BY <1>1, <3>1, <3>2 DEF Types, ScreenTypes, Person
  <2> QED  BY <1>1, <1>2, <2>1, <2>2, <2>3, <2>4, <2>5 DEF OnScreen, Types
<1>3. CASE OnMain
  <2>1. CASE CredentialDidChange
    <3>1. mainQueue # << >> /\ Head(mainQueue).kind = "auth"
      BY <2>1 DEF CredentialDidChange, Turn
    <3>2. Tail(mainQueue) \in Seq(Event) /\ Head(mainQueue).user \in Person
      BY <3>1, TailType DEF Event
    <3>3. listeners' \in Seq(Listener) /\ Listened' = Listened /\ mainQueue' \in Seq(Event)
      BY <1>1, <2>1, <3>2, ToldTypes DEF CredentialDidChange
    <3>4. /\ UNCHANGED <<registered, currentUser, request, screen, signingUp, bufferChat>>
          /\ UNCHANGED <<begun, sentTo, shared>> /\ clientUser' = Head(mainQueue).user
      BY <2>1 DEF CredentialDidChange, authVars, history
    <3> QED  BY <1>1, <3>2, <3>3, <3>4 DEF Types, ScreenTypes, Person
  <2>2. CASE SignedIn
    <3>1. Tail(mainQueue) \in Seq(Event)
      BY <2>2, TailType DEF SignedIn, Turn
    <3>2. /\ screen' \in {"tabs", "crashed"} /\ shared' \in BOOLEAN
          /\ listeners' \in Seq(Listener) /\ Listened' \subseteq registered /\ mainQueue' \in Seq(Event)
      BY <2>2, <3>1, TabBarTypes DEF SignedIn
    <3>3. UNCHANGED <<registered, currentUser, clientUser, request, signingUp, bufferChat, begun, sentTo>>
      BY <2>2 DEF SignedIn, authVars
    <3> QED  BY <1>1, <3>2, <3>3 DEF Types, ScreenTypes, Person
  <2>3. CASE Created
    <3>1. mainQueue' \in Seq(Event)
      BY <2>3, TailType DEF Created, Turn
    <3>2. /\ currentUser \in registered /\ currentUser \in Account
          /\ signingUp' = currentUser /\ begun' = begun \cup {currentUser} /\ screen' = screen
      BY <2>3, CreatedWrites
    <3>3. UNCHANGED <<registered, currentUser, clientUser, request, listeners, bufferChat, sentTo, shared>>
      BY <2>3 DEF Created, authVars
    <3> QED  BY <1>1, <1>l, <3>1, <3>2, <3>3 DEF Types, ScreenTypes, Person
  <2>4. CASE SignedUp
    <3>1. Tail(mainQueue) \in Seq(Event)
      BY <2>4, TailType DEF SignedUp, Turn
    <3>u. UNCHANGED <<registered, currentUser, clientUser, request, bufferChat, begun, sentTo>>
      BY <2>4 DEF SignedUp, authVars
    <3>2. CASE NewTabBar(Tail(mainQueue)) /\ signingUp' = NoOne
      <4>1. /\ screen' \in {"tabs", "crashed"} /\ shared' \in BOOLEAN
            /\ listeners' \in Seq(Listener) /\ Listened' \subseteq registered /\ mainQueue' \in Seq(Event)
        BY <3>1, <3>2, TabBarTypes
      <4> QED  BY <1>1, <3>u, <3>2, <4>1 DEF Types, ScreenTypes, Person
    <3>3. CASE mainQueue' = Tail(mainQueue) /\ UNCHANGED <<screen, listeners, shared, signingUp>>
      BY <1>1, <1>l, <3>u, <3>1, <3>3 DEF Types, ScreenTypes
    <3> QED  BY <2>4, <3>2, <3>3 DEF SignedUp
  <2>5. CASE BufferCallback
    <3>1. mainQueue' \in Seq(Event)
      BY <2>5, TailType DEF BufferCallback, Turn
    <3>2. bufferChat' \subseteq Friend /\ screen' \in {"login", "signup", "tabs", "chat", "crashed"}
      BY <2>5 DEF BufferCallback, FriendsIn, Types, ScreenTypes
    <3>3. /\ UNCHANGED <<registered, currentUser, clientUser, request, signingUp, listeners>>
          /\ UNCHANGED <<begun, sentTo, shared>>
      BY <2>5 DEF BufferCallback, authVars, history
    <3> QED  BY <1>1, <1>l, <3>1, <3>2, <3>3 DEF Types, ScreenTypes, Person
  <2> QED  BY <1>1, <1>3, <2>1, <2>2, <2>3, <2>4, <2>5 DEF OnMain, Types
<1>4. CASE Answer
  <2>1. request[1] \in {"signIn", "signUp"} /\ request[2] \in Account
    BY <1>4, RequestType DEF Answer
  <2>2. /\ [kind |-> "auth", user |-> request[2]] \in Event
        /\ [kind |-> request[1]] \in Event
    BY <2>1 DEF Event, Person
  <2>3. mainQueue' \in Seq(Event)
    BY <1>4, <1>q, <2>2 DEF Answer
  <2>4. ScreenTypes'
    BY <1>l, <1>4, <2>1, <2>3 DEF Answer, screenVars, history, Types, ScreenTypes
  <2> QED  BY <1>1, <2>4 DEF Types
<1>5. ASSUME NEW e \in Messages, FriendSends(e[1], e[2]) PROVE Types'
  <2>1. <<e[1], e[2]>> \in Friend \X Account
    BY SessionAssumption
  <2>2. ScreenTypes'
    BY <1>l, <1>5, <2>1 DEF FriendSends, authVars, screenVars, Types, ScreenTypes
  <2> QED  BY <1>1, <2>2 DEF Types
<1>6. ASSUME NEW a \in Account, PersistWrite(a) \/ CommitWrite(a) \/ StreamBroken(a) PROVE Types'
  <2>1. ScreenTypes'
    BY <1>l, <1>6 DEF PersistWrite, CommitWrite, StreamBroken, authVars, screenVars, history, Types, ScreenTypes
  <2> QED  BY <1>1, <2>1 DEF Types
<1>7. ASSUME NEW a \in Account, WriteAnswered(a) PROVE Types'
  <2>1. [kind |-> "signedUp", account |-> a] \in Event
    BY DEF Event
  <2> DEFINE waiting == IF Head(mutationQueue[a]).path = Profile(a) /\ signingUp = a
                        THEN Append(mainQueue, [kind |-> "signedUp", account |-> a]) ELSE mainQueue
  <2>2. Tell(waiting, {a}, FALSE) /\ waiting \in Seq(Event)
    <3>1. waiting \in Seq(Event)
      BY <1>q, <2>1
    <3> QED  BY <1>7, <3>1 DEF WriteAnswered
  <2> HIDE DEF waiting
  <2>3. listeners' \in Seq(Listener) /\ Listened' = Listened /\ mainQueue' \in Seq(Event)
    BY <1>1, <2>2, ToldTypes
  <2>4. ScreenTypes'
    BY <1>7, <2>3 DEF WriteAnswered, authVars, Types, ScreenTypes
  <2> QED  BY <1>1, <2>4 DEF Types
<1>8. ASSUME NEW a \in Account, ReceiveSnapshot(a) \/ GoOffline(a) PROVE Types'
  <2>1. Tell(mainQueue, {a}, TRUE)
    BY <1>8 DEF ReceiveSnapshot, GoOffline
  <2>2. listeners' \in Seq(Listener) /\ Listened' = Listened /\ mainQueue' \in Seq(Event)
    BY <1>1, <1>q, <2>1, ToldTypes
  <2>3. ScreenTypes'
    BY <1>8, <2>2 DEF ReceiveSnapshot, GoOffline, authVars, history, Types, ScreenTypes
  <2> QED  BY <1>1, <2>3 DEF Types
<1>9. CASE Relaunch
  <2>1. registered \subseteq registered' /\ registered' \subseteq Account
    BY <1>9, RequestType DEF Relaunch, FreshProcess, Types, ScreenTypes
  <2>2. Listened' = {} /\ << >> \in Seq(Listener) /\ << >> \in Seq(Event)
    BY <1>9 DEF Relaunch, FreshProcess, Listened
  <2>3. currentUser \in Person
    BY DEF Types, ScreenTypes, Person
  <2>4. ScreenTypes'
    BY <1>9, <2>1, <2>2, <2>3 DEF Relaunch, FreshProcess, Types, ScreenTypes, Person
  <2> QED  BY <1>1, <2>4 DEF Types
<1>10. CASE UNCHANGED vars
  <2>1. ScreenTypes'
    BY <1>l, <1>10 DEF vars, authVars, screenVars, history, Types, ScreenTypes
  <2> QED  BY <1>1, <2>1 DEF Types
<1> QED
  BY <1>2, <1>3, <1>4, <1>5, <1>6, <1>7, <1>8, <1>9, <1>10 DEF Next
-----------------------------------------------------------------------------
(***************************************************************************)
(* Who is asked for and current.                                           *)
(***************************************************************************)
\* s asks nothing that q does not, and tells the same of who is signed in.
Follows(q, s) ==
  /\ \A kind \in {"auth", "signIn", "signUp"} : Queued(s, kind) => Queued(q, kind)
  /\ InTurn(q) => InTurn(s)
  /\ \A u, c : LastAuth(q, u, c) => LastAuth(s, u, c)

\* What the steps that ask nothing add to the main queue.
LEMMA FlowLonger ==
  ASSUME NEW q \in Seq(Event), NEW r \in Seq(Event), NEW s, s = q \o r,
         \A i \in 1..Len(r) : r[i].kind \in {"buffer", "signedUp"}
  PROVE  Follows(q, s)
<1>1. /\ Len(s) = Len(q) + Len(r) /\ Len(q) \in Nat /\ Len(r) \in Nat
      /\ \A i \in 1..Len(q) : i \in 1..Len(s) /\ s[i] = q[i]
      /\ \A i \in 1..Len(s) : \/ i \in 1..Len(q) /\ s[i] = q[i]
                              \/ i - Len(q) \in 1..Len(r) /\ s[i] = r[i - Len(q)]
  BY Concat
<1>2. \A i \in 1..Len(s) : \/ i \in 1..Len(q) /\ s[i] = q[i]
                           \/ i > Len(q) /\ s[i].kind \in {"buffer", "signedUp"}
  BY <1>1
<1>3. \A kind \in {"auth", "signIn", "signUp"} : Queued(s, kind) => Queued(q, kind)
  BY <1>2 DEF Queued
<1>4. ASSUME InTurn(q) PROVE InTurn(s)
  <2>1. ASSUME NEW i \in 1..Len(s), NEW j \in 1..Len(s), i < j
        PROVE  /\ s[i].kind \in {"signIn", "signUp"} => s[j].kind \notin {"signIn", "signUp"}
               /\ s[i].kind = "signIn" /\ s[j].kind = "auth" => s[j].user = NoOne
               /\ s[i].kind = "signUp" => s[j].kind # "auth"
    <3>1. CASE i \in 1..Len(q) /\ j \in 1..Len(q)
      BY <1>1, <1>4, <2>1, <3>1 DEF InTurn
    <3>2. CASE i \in 1..Len(q) /\ j \notin 1..Len(q)
      BY <1>2, <3>2
    <3>3. CASE i \notin 1..Len(q)
      BY <1>2, <3>3
    <3> QED  BY <3>1, <3>2, <3>3
  <2> QED  BY <2>1 DEF InTurn
<1>5. ASSUME NEW u, NEW c, LastAuth(q, u, c) PROVE LastAuth(s, u, c)
  <2>1. CASE u = c /\ ~Queued(q, "auth")
    BY <1>3, <2>1 DEF LastAuth
  <2>2. ASSUME NEW i \in 1..Len(q), q[i].kind = "auth", q[i].user = u,
               \A j \in 1..Len(q) : j > i => q[j].kind # "auth"
        PROVE  LastAuth(s, u, c)
    <3>1. i \in 1..Len(s) /\ s[i].kind = "auth" /\ s[i].user = u
      BY <1>1, <2>2
    <3>2. \A j \in 1..Len(s) : j > i => s[j].kind # "auth"
      BY <1>2, <2>2
    <3> QED  BY <3>1, <3>2 DEF LastAuth
  <2> QED  BY <1>5, <2>1, <2>2 DEF LastAuth
<1> QED  BY <1>3, <1>4, <1>5 DEF Follows

\* What the main thread leaves of it.
LEMMA FlowShorter ==
  ASSUME NEW q \in Seq(Event), q # << >>, NEW s, s = Tail(q), InTurn(q)
  PROVE  /\ \A kind : Queued(s, kind) => Queued(q, kind)
         /\ InTurn(s)
         /\ \A u, c : LastAuth(q, u, c) => LastAuth(s, u, IF q[1].kind = "auth" THEN q[1].user ELSE c)
         /\ Queued(q, q[1].kind)
         /\ q[1].kind \in {"signIn", "signUp"} => ~Queued(s, "signIn") /\ ~Queued(s, "signUp")
         /\ q[1].kind = "signUp" => ~Queued(s, "auth")
         /\ \A u, c : q[1].kind = "signIn" /\ LastAuth(q, u, c) /\ u # NoOne => ~Queued(s, "auth")
<1>1. /\ Len(q) \in Nat /\ Len(q) = Len(s) + 1 /\ Len(s) \in Nat /\ 1 \in 1..Len(q)
      /\ \A i \in 1..Len(s) : i + 1 \in 1..Len(q) /\ s[i] = q[i + 1]
      /\ \A i \in 1..Len(q) : i # 1 => i - 1 \in 1..Len(s) /\ s[i - 1] = q[i]
  BY Rest
<1>2. \A kind : Queued(s, kind) => Queued(q, kind)
  BY <1>1 DEF Queued
<1>3. InTurn(s)
  BY <1>1 DEF InTurn
<1>4. ASSUME NEW u, NEW c, LastAuth(q, u, c)
      PROVE  LastAuth(s, u, IF q[1].kind = "auth" THEN q[1].user ELSE c)
  <2>1. CASE u = c /\ ~Queued(q, "auth")
    BY <1>1, <1>2, <2>1 DEF LastAuth, Queued
  <2>2. ASSUME NEW i \in 1..Len(q), q[i].kind = "auth", q[i].user = u,
               \A j \in 1..Len(q) : j > i => q[j].kind # "auth"
        PROVE  LastAuth(s, u, IF q[1].kind = "auth" THEN q[1].user ELSE c)
    <3>1. CASE i = 1
      <4>1. ~Queued(s, "auth")
        BY <1>1, <2>2, <3>1 DEF Queued
      <4> QED  BY <2>2, <3>1, <4>1 DEF LastAuth
    <3>2. CASE i # 1
      <4>1. i - 1 \in 1..Len(s) /\ s[i - 1].kind = "auth" /\ s[i - 1].user = u
        BY <1>1, <2>2, <3>2
      <4>2. \A j \in 1..Len(s) : j > i - 1 => s[j].kind # "auth"
        BY <1>1, <2>2
      <4> QED  BY <4>1, <4>2 DEF LastAuth
    <3> QED  BY <3>1, <3>2
  <2> QED  BY <1>4, <2>1, <2>2 DEF LastAuth
<1>5. Queued(q, q[1].kind)
  BY <1>1 DEF Queued
<1>6. \A i \in 1..Len(s) : 1 < i + 1 /\ i + 1 \in 1..Len(q) /\ s[i] = q[i + 1]
  BY <1>1
<1>7. q[1].kind \in {"signIn", "signUp"} => ~Queued(s, "signIn") /\ ~Queued(s, "signUp")
  BY <1>1, <1>6 DEF InTurn, Queued
<1>8. q[1].kind = "signUp" => ~Queued(s, "auth")
  BY <1>1, <1>6 DEF InTurn, Queued
<1>9. ASSUME NEW u, NEW c, q[1].kind = "signIn", LastAuth(q, u, c), u # NoOne
      PROVE  ~Queued(s, "auth")
  <2>1. ~Queued(q, "auth") \/ \E i \in 1..Len(q) : q[i].kind = "auth" /\ q[i].user = u
    BY <1>9 DEF LastAuth
  <2>2. \A i \in 1..Len(q) : q[i].kind = "auth" => 1 < i /\ q[i].user = NoOne
    BY <1>1, <1>9 DEF InTurn
  <2>3. ~Queued(q, "auth")
    BY <1>9, <2>1, <2>2
  <2> QED  BY <1>2, <2>3
<1> QED  BY <1>2, <1>3, <1>4, <1>5, <1>7, <1>8, <1>9

\* A step that asks nothing, and at most ends the app.
LEMMA FlowQuiet ==
  ASSUME Flow,
         \A kind \in {"auth", "signIn", "signUp"} : Queued(mainQueue', kind) => Queued(mainQueue, kind),
         InTurn(mainQueue'), LastAuth(mainQueue', currentUser', clientUser'),
         screen' \in {screen, "crashed"}, Listened' = Listened,
         UNCHANGED <<registered, currentUser, request, signingUp, begun>>
  PROVE  Flow'
<1>1. AskedRight'
  BY DEF Flow, AskedRight
<1>2. SignInRight' /\ SignUpRight'
  BY DEF Flow, SignInRight, SignUpRight
<1>3. WritingRight' /\ TabsRight'
  BY DEF Flow, WritingRight, TabsRight, NothingAsked
<1>4. LastAuth(mainQueue, currentUser, clientUser)' /\ InTurn(mainQueue)'
  BY DEF LastAuth, InTurn, Queued
<1> QED  BY <1>1, <1>2, <1>3, <1>4 DEF Flow

\* ... with what it leaves of the main queue, or adds to it.
LEMMA FlowSame ==
  ASSUME Flow, mainQueue' = mainQueue, screen' \in {screen, "crashed"}, Listened' = Listened,
         UNCHANGED <<registered, currentUser, clientUser, request, signingUp, begun>>
  PROVE  Flow'
  BY FlowQuiet DEF Flow

LEMMA FlowTold ==
  ASSUME Types, Flow, FsTypeOK', NEW waiting \in Seq(Event), NEW accounts, NEW now,
         Tell(waiting, accounts, now),
         \A kind \in {"auth", "signIn", "signUp"} : Queued(waiting, kind) => Queued(mainQueue, kind),
         InTurn(waiting), LastAuth(waiting, currentUser', clientUser')
  PROVE  /\ \A kind \in {"auth", "signIn", "signUp"} : Queued(mainQueue', kind) => Queued(mainQueue, kind)
         /\ InTurn(mainQueue') /\ LastAuth(mainQueue', currentUser', clientUser')
         /\ Listened' = Listened
<1>1. PICK new \in Seq(Event) : mainQueue' = waiting \o new /\ News(new, accounts)
  BY Told
<1>2. \A i \in 1..Len(new) : new[i].kind \in {"buffer", "signedUp"}
  <2>1. \A i \in 1..Len(new) : new[i] = Snapshot(new[i].account, NewSeen(new[i].account))
    BY <1>1 DEF News
  <2>2. \A a, doc : Snapshot(a, doc).kind = "buffer"
    BY DEF Snapshot
  <2> QED  BY <2>1, <2>2
<1>3. Listened' = Listened
  BY ToldTypes
<1>4. PICK s : s = mainQueue'
  OBVIOUS
<1>5. PICK u, c : u = currentUser' /\ c = clientUser'
  OBVIOUS
<1>6. Follows(waiting, s)
  BY <1>1, <1>2, <1>4, FlowLonger
<1>7. /\ \A kind \in {"auth", "signIn", "signUp"} : Queued(s, kind) => Queued(mainQueue, kind)
      /\ InTurn(s) /\ LastAuth(s, u, c)
  BY <1>5, <1>6 DEF Follows
<1> QED  BY <1>3, <1>4, <1>5, <1>7

\* The new tab bar is that of the current user.
LEMMA FlowTabBar ==
  ASSUME Types, Flow, NEW waiting \in Seq(Event), NewTabBar(waiting), currentUser # NoOne,
         request = << >>, signingUp' = NoOne,
         UNCHANGED <<currentUser, clientUser, request>>,
         \A kind \in {"auth", "signIn", "signUp"} : ~Queued(waiting, kind),
         InTurn(waiting), LastAuth(waiting, currentUser, clientUser)
  PROVE  Flow'
<1>1. PICK first \in Seq(Event), l \in Listener :
        /\ screen' = "tabs" /\ l.account = currentUser
        /\ first = IF Exists \in Seen(currentUser)
                   THEN <<Snapshot(currentUser, Seen(currentUser))>> ELSE << >>
        /\ mainQueue' = waiting \o first /\ listeners' = Append(listeners, l)
  BY TabBar
<1>2. \A i \in 1..Len(first) : first[i].kind \in {"buffer", "signedUp"}
  BY <1>1 DEF Snapshot
<1>3. PICK s, u, c : s = mainQueue' /\ u = currentUser /\ c = clientUser
  OBVIOUS
<1>4. /\ \A kind \in {"auth", "signIn", "signUp"} : ~Queued(s, kind)
      /\ InTurn(s) /\ LastAuth(s, u, c)
  <2>1. Follows(waiting, s)
    BY <1>1, <1>2, <1>3, FlowLonger
  <2> QED  BY <1>3, <2>1 DEF Follows
<1>5. currentUser \in Listened'
  BY <1>1, TabBarListened
<1>6. LastAuth(mainQueue, currentUser, clientUser)' /\ InTurn(mainQueue)'
  BY <1>3, <1>4 DEF LastAuth, InTurn, Queued
<1>7. ~Queued(mainQueue', "auth") /\ ~Queued(mainQueue', "signIn") /\ ~Queued(mainQueue', "signUp")
  BY <1>3, <1>4
<1>8. AskedRight' /\ SignInRight' /\ SignUpRight' /\ WritingRight'
  BY <1>7 DEF AskedRight, SignInRight, SignUpRight, WritingRight
<1>9. TabsRight'
  BY <1>5, <1>7 DEF TabsRight, NothingAsked
<1> QED  BY <1>6, <1>8, <1>9 DEF Flow

LEMMA InitFlow == Init => Flow
<1> SUFFICES ASSUME Init PROVE Flow
  OBVIOUS
<1>1. mainQueue = << >> /\ Len(mainQueue) = 0
  BY DEF Init
<1>2. \A kind : ~Queued(mainQueue, kind)
  BY <1>1 DEF Queued
<1>3. InTurn(mainQueue) /\ LastAuth(mainQueue, currentUser, clientUser)
  BY <1>1, <1>2 DEF Init, InTurn, LastAuth
<1> QED
  BY <1>2, <1>3 DEF Init, Flow, AskedRight, SignInRight, SignUpRight, WritingRight, TabsRight

\* Nothing is asked while the user may ask or leave.
LEMMA IdleFlow ==
  ASSUME Types, Idle
  PROVE  \A kind \in {"auth", "signIn", "signUp"} : ~Queued(mainQueue, kind)
<1>1. \A i \in 1..Len(mainQueue) : mainQueue[i].kind = "buffer"
  BY DEF Types, ScreenTypes, Idle
<1> QED  BY <1>1 DEF Queued

LEMMA AskFlow ==
  ASSUME Types, Flow, Idle, NEW kind \in {"signIn", "signUp"}, NEW a \in Account,
         kind = "signIn" => screen = "login",
         kind = "signUp" => screen = "signup" /\ signingUp = NoOne /\ a \notin registered,
         Ask(kind, a)
  PROVE  Flow'
<1>1. /\ request' = <<kind, a>> /\ UNCHANGED <<mainQueue, screen, signingUp, registered, listeners>>
      /\ UNCHANGED <<currentUser, clientUser, begun>>
  BY DEF Ask, screenVars
<1>2. \A k \in {"auth", "signIn", "signUp"} : ~Queued(mainQueue, k)
  BY IdleFlow
<1>3. signingUp = NoOne
  BY DEF Flow, WritingRight
<1>4. ~Queued(mainQueue', "auth") /\ ~Queued(mainQueue', "signIn") /\ ~Queued(mainQueue', "signUp")
  BY <1>1, <1>2
<1>5. request'[1] = kind /\ request'[2] = a
  BY <1>1
<1>6. AskedRight'
  BY <1>1, <1>3, <1>4, <1>5 DEF AskedRight
<1>7. SignInRight' /\ SignUpRight'
  BY <1>4 DEF SignInRight, SignUpRight
<1>8. WritingRight' /\ TabsRight'
  BY <1>1, <1>3 DEF WritingRight, TabsRight
<1>9. LastAuth(mainQueue, currentUser, clientUser)' /\ InTurn(mainQueue)'
  BY <1>1 DEF Flow, LastAuth, InTurn, Queued
<1> QED  BY <1>6, <1>7, <1>8, <1>9 DEF Flow

LEMMA SignOutFlow ==
  ASSUME Types, Flow, SignOut
  PROVE  Flow'
<1>1. /\ screen \in {"login", "tabs"} /\ screen' = "login" /\ currentUser' = NoOne
      /\ mainQueue' = Append(mainQueue, [kind |-> "auth", user |-> NoOne])
      /\ UNCHANGED <<registered, request, clientUser, signingUp, listeners, begun>>
  BY DEF SignOut, history
<1>2. mainQueue \in Seq(Event) /\ [kind |-> "auth", user |-> NoOne] \in Event
  BY DEF Types, ScreenTypes, Event, Person
<1>3. PICK e, s : e = [kind |-> "auth", user |-> NoOne] /\ s = mainQueue'
  OBVIOUS
<1>4. /\ s \in Seq(Event) /\ Len(s) = Len(mainQueue) + 1 /\ Len(mainQueue) \in Nat /\ s[Len(s)] = e
      /\ \A i \in 1..Len(mainQueue) : i \in 1..Len(s) /\ s[i] = mainQueue[i]
      /\ \A i \in 1..Len(s) : i \in 1..Len(mainQueue) \/ i = Len(s)
  BY <1>1, <1>2, <1>3, Added
<1>5. e.kind = "auth" /\ e.user = NoOne
  BY <1>3
<1>6. ~Queued(mainQueue, "signUp") /\ signingUp = NoOne /\ (request # << >> => request[1] # "signUp")
  BY <1>1 DEF Flow, AskedRight, SignUpRight, WritingRight
<1>7. /\ Queued(s, "signIn") => Queued(mainQueue, "signIn")
      /\ ~Queued(s, "signUp")
  BY <1>4, <1>5, <1>6 DEF Queued
<1>8. InTurn(s)
  <2>1. InTurn(mainQueue)
    BY DEF Flow
  <2>2. ASSUME NEW i \in 1..Len(s), NEW j \in 1..Len(s), i < j
        PROVE  /\ s[i].kind \in {"signIn", "signUp"} => s[j].kind \notin {"signIn", "signUp"}
               /\ s[i].kind = "signIn" /\ s[j].kind = "auth" => s[j].user = NoOne
               /\ s[i].kind = "signUp" => s[j].kind # "auth"
    <3>1. i \in 1..Len(mainQueue)
      BY <1>4, <2>2
    <3>2. CASE j \in 1..Len(mainQueue)
      BY <1>4, <2>1, <2>2, <3>1, <3>2 DEF InTurn
    <3>3. CASE j = Len(s)
      BY <1>4, <1>5, <1>7, <3>3 DEF Queued
    <3> QED  BY <1>4, <3>2, <3>3
  <2> QED  BY <2>2 DEF InTurn
<1>9. LastAuth(s, NoOne, clientUser)
  <2>1. Len(s) \in 1..Len(s) /\ \A j \in 1..Len(s) : ~(j > Len(s))
    BY <1>4
  <2> QED  BY <1>4, <1>5, <2>1 DEF LastAuth
<1>10. LastAuth(mainQueue, currentUser, clientUser)' /\ InTurn(mainQueue)'
  BY <1>1, <1>3, <1>8, <1>9 DEF LastAuth, InTurn, Queued
<1>11. AskedRight'
  BY <1>1, <1>3, <1>6, <1>7 DEF Flow, AskedRight, TabsRight
<1>12. SignInRight' /\ SignUpRight'
  BY <1>1, <1>3, <1>6, <1>7 DEF Flow, SignInRight, SignUpRight
<1>13. WritingRight' /\ TabsRight'
  BY <1>1, <1>6 DEF WritingRight, TabsRight
<1> QED  BY <1>10, <1>11, <1>12, <1>13 DEF Flow

LEMMA AnswerFlow ==
  ASSUME Types, Flow, Answer
  PROVE  Flow'
<1>1. PICK kind \in {"signIn", "signUp"}, a \in Account : kind = request[1] /\ a = request[2] /\ request # << >>
  BY RequestType DEF Answer
<1>2. PICK new : new = <<[kind |-> "auth", user |-> a], [kind |-> kind]>>
  OBVIOUS
<1>3. /\ currentUser' = a /\ registered' = registered \cup {a} /\ request' = << >>
      /\ mainQueue' = mainQueue \o new
      /\ UNCHANGED <<clientUser, screen, signingUp, listeners, begun>>
  BY <1>1, <1>2 DEF Answer, screenVars, history
<1>4. /\ new \in Seq(Event) /\ Len(new) = 2 /\ new[1].kind = "auth" /\ new[1].user = a /\ new[2].kind = kind
  BY <1>1, <1>2 DEF Event, Person
<1>5. PICK q, s : q = mainQueue /\ s = mainQueue'
  OBVIOUS
<1>6. q \in Seq(Event)
  BY <1>5 DEF Types, ScreenTypes
<1>7. /\ Len(s) = Len(q) + 2 /\ Len(q) \in Nat
      /\ \A i \in 1..Len(new) : i + Len(q) \in 1..Len(s) /\ s[i + Len(q)] = new[i]
      /\ \A i \in 1..Len(s) : \/ i \in 1..Len(q) /\ s[i] = q[i]
                              \/ i - Len(q) \in 1..Len(new) /\ s[i] = new[i - Len(q)]
  <2>1. s = q \o new /\ new \in Seq(Event)
    BY <1>3, <1>4, <1>5
  <2>2. /\ s \in Seq(Event) /\ Len(s) = Len(q) + Len(new) /\ Len(q) \in Nat /\ Len(new) \in Nat
        /\ \A i \in 1..Len(q) : i \in 1..Len(s) /\ s[i] = q[i]
        /\ \A i \in 1..Len(new) : i + Len(q) \in 1..Len(s) /\ s[i + Len(q)] = new[i]
        /\ \A i \in 1..Len(s) : \/ i \in 1..Len(q) /\ s[i] = q[i]
                                \/ i - Len(q) \in 1..Len(new) /\ s[i] = new[i - Len(q)]
    BY <1>6, <2>1, Concat
  <2> QED  BY <1>4, <2>2
<1>8. /\ Len(q) + 1 \in 1..Len(s) /\ s[Len(q) + 1].kind = "auth" /\ s[Len(q) + 1].user = a
      /\ Len(q) + 2 \in 1..Len(s) /\ s[Len(q) + 2].kind = kind
      /\ \A i \in 1..Len(s) : \/ i \in 1..Len(q) /\ s[i] = q[i]
                              \/ i = Len(q) + 1 \/ i = Len(q) + 2
  <2>1. 1 \in 1..Len(new) /\ 2 \in 1..Len(new) /\ 1 + Len(q) = Len(q) + 1 /\ 2 + Len(q) = Len(q) + 2
    BY <1>4, <1>7
  <2>2. \A i \in 1..Len(s) : \/ i \in 1..Len(q) /\ s[i] = q[i]
                             \/ i = Len(q) + 1 \/ i = Len(q) + 2
    BY <1>4, <1>7
  <2> QED  BY <1>4, <1>7, <2>1, <2>2
<1>9. /\ ~Queued(q, "signIn") /\ ~Queued(q, "signUp") /\ signingUp = NoOne
      /\ kind = "signIn" => screen \in {"login", "crashed"}
      /\ kind = "signUp" => screen \in {"signup", "crashed"} /\ a \notin registered /\ ~Queued(q, "auth")
  BY <1>1, <1>5 DEF Flow, AskedRight
<1>10. \A i \in 1..Len(s) : s[i].kind \in {"signIn", "signUp"} => i = Len(q) + 2
  BY <1>8, <1>9 DEF Queued
<1>11. InTurn(s)
  BY <1>7, <1>10 DEF InTurn
<1>12. LastAuth(s, a, clientUser)
  <2>1. \A j \in 1..Len(s) : j > Len(q) + 1 => s[j].kind # "auth"
    BY <1>7, <1>8
  <2> QED  BY <1>8, <2>1 DEF LastAuth
<1>13. LastAuth(mainQueue, currentUser, clientUser)' /\ InTurn(mainQueue)'
  BY <1>3, <1>5, <1>11, <1>12 DEF LastAuth, InTurn, Queued
<1>14. (Queued(s, "signIn") => kind = "signIn") /\ (Queued(s, "signUp") => kind = "signUp")
  BY <1>8, <1>10 DEF Queued
<1>15. Listened' = Listened
  BY <1>3 DEF Listened
<1>16. AskedRight'
  BY <1>3 DEF AskedRight
<1>17. SignInRight'
  BY <1>3, <1>5, <1>9, <1>14 DEF SignInRight
<1>18. SignUpRight'
  <2>1. a # NoOne
    BY SessionAssumption
  <2>2. kind = "signUp" => a \notin begun \cup Listened
    BY <1>9 DEF Types, ScreenTypes
  <2> QED  BY <1>3, <1>5, <1>9, <1>14, <1>15, <2>1, <2>2 DEF SignUpRight
<1>19. WritingRight'
  BY <1>3, <1>9 DEF WritingRight
<1>20. TabsRight'
  BY <1>3, <1>9 DEF TabsRight
<1> QED  BY <1>13, <1>16, <1>17, <1>18, <1>19, <1>20 DEF Flow

LEMMA StepFlow ==
  ASSUME Types, Flow, FsTypeOK', [Next]_vars
  PROVE  Flow'
<1>l. listeners' = listeners => Listened' = Listened
  BY DEF Listened
<1>q. mainQueue \in Seq(Event)
  BY DEF Types, ScreenTypes
<1>f. InTurn(mainQueue) /\ LastAuth(mainQueue, currentUser, clientUser)
  BY DEF Flow
\* What a turn of the main thread leaves of the main queue.
<1>t. ASSUME mainQueue # << >>
      PROVE  /\ Tail(mainQueue) \in Seq(Event) /\ mainQueue[1] = Head(mainQueue)
             /\ \A kind : Queued(Tail(mainQueue), kind) => Queued(mainQueue, kind)
             /\ InTurn(Tail(mainQueue)) /\ Queued(mainQueue, Head(mainQueue).kind)
             /\ LastAuth(Tail(mainQueue), currentUser,
                         IF Head(mainQueue).kind = "auth" THEN Head(mainQueue).user ELSE clientUser)
  <2>1. PICK q, s, u, c : q = mainQueue /\ s = Tail(mainQueue) /\ u = currentUser /\ c = clientUser
    OBVIOUS
  <2>2. q \in Seq(Event) /\ q # << >> /\ s = Tail(q) /\ InTurn(q) /\ LastAuth(q, u, c)
    BY <1>f, <1>q, <1>t, <2>1
  <2>3. Head(q) = q[1] /\ s \in Seq(Event)
    BY <2>2, Rest
  <2>4. /\ \A kind : Queued(s, kind) => Queued(q, kind)
        /\ InTurn(s) /\ Queued(q, q[1].kind)
        /\ LastAuth(s, u, IF q[1].kind = "auth" THEN q[1].user ELSE c)
    BY <2>2, FlowShorter
  <2> QED  BY <2>1, <2>3, <2>4
<1>1. ASSUME NEW a \in Account, LoginClick(a) \/ SignupClick(a) PROVE Flow'
  BY <1>1, AskFlow DEF LoginClick, SignupClick, Ask
<1>2. CASE OtherScreen
  <2>1. /\ request = << >> /\ screen' \in {"login", "signup"} /\ signingUp' = NoOne
        /\ UNCHANGED <<currentUser, clientUser, request, mainQueue>>
    BY <1>2 DEF OtherScreen, Idle, authVars
  <2>2. \A kind \in {"auth", "signIn", "signUp"} : ~Queued(mainQueue, kind)
    BY <1>2, IdleFlow DEF OtherScreen
  <2>3. AskedRight' /\ SignInRight' /\ SignUpRight' /\ WritingRight' /\ TabsRight'
    BY <2>1, <2>2 DEF AskedRight, SignInRight, SignUpRight, WritingRight, TabsRight
  <2>4. LastAuth(mainQueue, currentUser, clientUser)' /\ InTurn(mainQueue)'
    BY <1>f, <2>1 DEF LastAuth, InTurn, Queued
  <2> QED  BY <2>3, <2>4 DEF Flow
<1>3. CASE SignOut
  BY <1>3, SignOutFlow
<1>4. ASSUME NEW f \in Friend, OpenChat(f) PROVE Flow'
  <2>1. Tell(mainQueue, {currentUser}, FALSE) /\ screen = "tabs" /\ screen' = "chat"
    BY <1>4 DEF OpenChat
  <2>2. UNCHANGED <<registered, currentUser, clientUser, request, signingUp, begun>>
    BY <1>4 DEF OpenChat, authVars, history
  <2>3. LastAuth(mainQueue, currentUser', clientUser')
    BY <1>f, <2>2
  <2>4. /\ \A kind \in {"auth", "signIn", "signUp"} : Queued(mainQueue', kind) => Queued(mainQueue, kind)
        /\ InTurn(mainQueue') /\ LastAuth(mainQueue', currentUser', clientUser')
        /\ Listened' = Listened
    BY <1>f, <1>q, <2>1, <2>3, FlowTold
  <2>5. /\ request = << >> /\ signingUp = NoOne /\ currentUser \in Listened
        /\ ~Queued(mainQueue, "auth") /\ ~Queued(mainQueue, "signIn") /\ ~Queued(mainQueue, "signUp")
    BY <2>1 DEF Flow, TabsRight, NothingAsked
  <2>6. AskedRight' /\ SignInRight' /\ SignUpRight' /\ WritingRight'
    BY <2>2, <2>4, <2>5 DEF AskedRight, SignInRight, SignUpRight, WritingRight
  <2>7. TabsRight'
    BY <2>2, <2>4, <2>5 DEF TabsRight, NothingAsked
  <2>8. LastAuth(mainQueue, currentUser, clientUser)' /\ InTurn(mainQueue)'
    BY <2>4 DEF LastAuth, InTurn, Queued
  <2> QED  BY <2>6, <2>7, <2>8 DEF Flow
<1>5. CASE Back
  <2>1. NewTabBar(mainQueue) /\ UNCHANGED <<currentUser, clientUser, request, signingUp>>
    BY <1>5 DEF Back, authVars
  <2>2. /\ request = << >> /\ signingUp = NoOne /\ currentUser \in Listened
        /\ ~Queued(mainQueue, "auth") /\ ~Queued(mainQueue, "signIn") /\ ~Queued(mainQueue, "signUp")
    BY <1>5 DEF Back, Flow, TabsRight, NothingAsked
  <2>3. currentUser # NoOne
    BY <2>2, SessionAssumption DEF Types, ScreenTypes
  <2> QED  BY <1>f, <1>q, <2>1, <2>2, <2>3, FlowTabBar
<1>6. CASE CredentialDidChange
  <2>1. /\ mainQueue # << >> /\ Head(mainQueue).kind = "auth" /\ clientUser' = Head(mainQueue).user
        /\ Tell(Tail(mainQueue), Listened, FALSE)
        /\ UNCHANGED <<registered, currentUser, request, screen, signingUp, begun>>
    BY <1>6 DEF CredentialDidChange, Turn, authVars, history
  <2>2. LastAuth(Tail(mainQueue), currentUser', clientUser')
    BY <1>t, <2>1
  <2>3. /\ \A kind \in {"auth", "signIn", "signUp"} : Queued(mainQueue', kind) => Queued(mainQueue, kind)
        /\ InTurn(mainQueue') /\ LastAuth(mainQueue', currentUser', clientUser')
        /\ Listened' = Listened
    BY <1>t, <2>1, <2>2, FlowTold
  <2> QED  BY <2>1, <2>3, FlowQuiet
<1>7. CASE SignedIn
  <2>1. /\ mainQueue # << >> /\ Head(mainQueue).kind = "signIn" /\ NewTabBar(Tail(mainQueue))
        /\ UNCHANGED <<registered, currentUser, clientUser, request, signingUp, begun>>
    BY <1>7 DEF SignedIn, Turn, authVars
  <2>2. /\ Tail(mainQueue) \in Seq(Event) /\ InTurn(Tail(mainQueue))
        /\ LastAuth(Tail(mainQueue), currentUser, clientUser)
        /\ \A kind : Queued(Tail(mainQueue), kind) => Queued(mainQueue, kind)
        /\ Queued(mainQueue, "signIn") /\ mainQueue[1].kind = "signIn"
    BY <1>t, <2>1
  <2>3. CASE currentUser = NoOne
    <3>1. screen' = "crashed" /\ mainQueue' = Tail(mainQueue) /\ listeners' = listeners
      BY <2>1, <2>3 DEF NewTabBar
    <3>2. LastAuth(mainQueue', currentUser', clientUser') /\ InTurn(mainQueue')
      BY <2>1, <2>2, <3>1
    <3>3. \A kind \in {"auth", "signIn", "signUp"} : Queued(mainQueue', kind) => Queued(mainQueue, kind)
      BY <2>2, <3>1
    <3> QED  BY <1>l, <2>1, <3>1, <3>2, <3>3, FlowQuiet
  <2>4. CASE currentUser # NoOne
    <3>1. PICK q, s, u, c : q = mainQueue /\ s = Tail(mainQueue) /\ u = currentUser /\ c = clientUser
      OBVIOUS
    <3>2. ~Queued(s, "signIn") /\ ~Queued(s, "signUp") /\ ~Queued(s, "auth")
      <4>1. /\ q \in Seq(Event) /\ q # << >> /\ s = Tail(q) /\ InTurn(q) /\ LastAuth(q, u, c)
            /\ q[1].kind = "signIn" /\ u # NoOne
        BY <1>f, <1>q, <2>1, <2>2, <2>4, <3>1
      <4>2. /\ q[1].kind \in {"signIn", "signUp"} => ~Queued(s, "signIn") /\ ~Queued(s, "signUp")
            /\ q[1].kind = "signIn" /\ LastAuth(q, u, c) /\ u # NoOne => ~Queued(s, "auth")
        BY <4>1, FlowShorter
      <4> QED  BY <4>1, <4>2
    <3>3. request = << >> /\ signingUp = NoOne
      BY <2>2 DEF Flow, SignInRight
    <3> QED  BY <2>1, <2>2, <2>4, <3>1, <3>2, <3>3, FlowTabBar
  <2> QED  BY <2>3, <2>4
<1>8. CASE Created
  <2>1. /\ mainQueue # << >> /\ mainQueue[1].kind = "signUp" /\ mainQueue' = Tail(mainQueue)
        /\ signingUp' = currentUser /\ screen' = screen
    BY <1>8, CreatedWrites
  <2>2. UNCHANGED <<currentUser, clientUser, request>>
    BY <1>8 DEF Created, authVars
  <2>3. /\ InTurn(mainQueue') /\ LastAuth(mainQueue', currentUser, clientUser)
        /\ Queued(mainQueue, "signUp")
    BY <1>t, <2>1
  <2>4. request = << >> /\ screen \in {"signup", "crashed"} /\ currentUser # NoOne
    BY <2>3 DEF Flow, SignUpRight
  <2>5. PICK q, s : q = mainQueue /\ s = mainQueue'
    OBVIOUS
  <2>6. ~Queued(s, "signIn") /\ ~Queued(s, "signUp") /\ ~Queued(s, "auth")
    <3>1. q \in Seq(Event) /\ q # << >> /\ s = Tail(q) /\ InTurn(q) /\ q[1].kind = "signUp"
      BY <1>f, <1>q, <2>1, <2>5
    <3>2. /\ q[1].kind \in {"signIn", "signUp"} => ~Queued(s, "signIn") /\ ~Queued(s, "signUp")
          /\ q[1].kind = "signUp" => ~Queued(s, "auth")
      BY <3>1, FlowShorter
    <3> QED  BY <3>1, <3>2
  <2>7. ~Queued(mainQueue', "signIn") /\ ~Queued(mainQueue', "signUp") /\ ~Queued(mainQueue', "auth")
    BY <2>5, <2>6
  <2>8. AskedRight' /\ SignInRight' /\ SignUpRight'
    BY <2>2, <2>4, <2>7 DEF AskedRight, SignInRight, SignUpRight
  <2>9. WritingRight' /\ TabsRight'
    BY <2>1, <2>2, <2>4, <2>7 DEF WritingRight, TabsRight, NothingAsked
  <2>10. LastAuth(mainQueue, currentUser, clientUser)' /\ InTurn(mainQueue)'
    BY <2>2, <2>3 DEF LastAuth, InTurn, Queued
  <2> QED  BY <2>8, <2>9, <2>10 DEF Flow
<1>9. CASE SignedUp
  <2>1. /\ mainQueue # << >> /\ Head(mainQueue).kind = "signedUp"
        /\ UNCHANGED <<registered, currentUser, clientUser, request, begun>>
    BY <1>9 DEF SignedUp, Turn, authVars
  <2>2. /\ Tail(mainQueue) \in Seq(Event) /\ InTurn(Tail(mainQueue))
        /\ LastAuth(Tail(mainQueue), currentUser, clientUser)
        /\ \A kind : Queued(Tail(mainQueue), kind) => Queued(mainQueue, kind)
    BY <1>t, <2>1
  <2>3. CASE signingUp = Head(mainQueue).account
    <3>1. NewTabBar(Tail(mainQueue)) /\ signingUp' = NoOne
      BY <1>9, <2>3 DEF SignedUp
    <3>2. signingUp # NoOne
      <4>1. Head(mainQueue) \in Event
        BY <2>1, TailType
      <4>2. Head(mainQueue).account \in Account
        BY <2>1, <4>1 DEF Event
      <4> QED  BY <2>3, <4>2, SessionAssumption
    <3>3. /\ request = << >> /\ currentUser # NoOne
          /\ ~Queued(mainQueue, "auth") /\ ~Queued(mainQueue, "signIn") /\ ~Queued(mainQueue, "signUp")
      BY <3>2 DEF Flow, WritingRight, NothingAsked
    <3> QED  BY <2>1, <2>2, <3>1, <3>3, FlowTabBar
  <2>4. CASE signingUp # Head(mainQueue).account
    <3>1. mainQueue' = Tail(mainQueue) /\ UNCHANGED <<screen, listeners, signingUp>>
      BY <1>9, <2>4 DEF SignedUp
    <3>2. LastAuth(mainQueue', currentUser', clientUser') /\ InTurn(mainQueue')
      BY <2>1, <2>2, <3>1
    <3>3. \A kind \in {"auth", "signIn", "signUp"} : Queued(mainQueue', kind) => Queued(mainQueue, kind)
      BY <2>2, <3>1
    <3> QED  BY <1>l, <2>1, <3>1, <3>2, <3>3, FlowQuiet
  <2> QED  BY <2>3, <2>4
<1>10. CASE BufferCallback
  <2>1. /\ mainQueue # << >> /\ Head(mainQueue).kind = "buffer" /\ mainQueue' = Tail(mainQueue)
        /\ screen' \in {screen, "crashed"}
        /\ UNCHANGED <<registered, currentUser, clientUser, request, signingUp, listeners, begun>>
    BY <1>10 DEF BufferCallback, Turn, authVars, history
  <2>2. LastAuth(mainQueue', currentUser', clientUser') /\ InTurn(mainQueue')
    BY <1>t, <2>1
  <2>3. \A kind \in {"auth", "signIn", "signUp"} : Queued(mainQueue', kind) => Queued(mainQueue, kind)
    BY <1>t, <2>1
  <2> QED  BY <1>l, <2>1, <2>2, <2>3, FlowQuiet
<1>11. CASE Answer
  BY <1>11, AnswerFlow
<1>12. ASSUME NEW e \in Messages, FriendSends(e[1], e[2]) PROVE Flow'
  BY <1>l, <1>12, FlowSame DEF FriendSends, authVars, screenVars
<1>13. ASSUME NEW a \in Account, PersistWrite(a) \/ CommitWrite(a) \/ StreamBroken(a) PROVE Flow'
  BY <1>l, <1>13, FlowSame DEF PersistWrite, CommitWrite, StreamBroken, authVars, screenVars, history
<1>14. ASSUME NEW a \in Account, WriteAnswered(a) PROVE Flow'
  <2>1. UNCHANGED <<registered, currentUser, clientUser, request, screen, signingUp, begun>>
    BY <1>14 DEF WriteAnswered, authVars
  <2> DEFINE e == [kind |-> "signedUp", account |-> a]
  <2>2. PICK waiting : /\ waiting \in {mainQueue, Append(mainQueue, e)}
                       /\ Tell(waiting, {a}, FALSE)
    BY <1>14 DEF WriteAnswered
  <2>3. /\ waiting \in Seq(Event) /\ InTurn(waiting) /\ LastAuth(waiting, currentUser, clientUser)
        /\ \A kind \in {"auth", "signIn", "signUp"} : Queued(waiting, kind) => Queued(mainQueue, kind)
    <3>1. CASE waiting = mainQueue
      BY <1>f, <1>q, <3>1
    <3>2. CASE waiting = Append(mainQueue, e)
      <4>1. PICK q, u, c : q = mainQueue /\ u = currentUser /\ c = clientUser
        OBVIOUS
      <4>2. e \in Event
        BY DEF Event
      <4>3. <<e>> \in Seq(Event) /\ Len(<<e>>) = 1 /\ <<e>>[1] = e /\ e.kind = "signedUp"
        BY <4>2
      <4>4. \A i \in 1..Len(<<e>>) : <<e>>[i].kind \in {"buffer", "signedUp"}
        BY <4>3
      <4>5. waiting = q \o <<e>> /\ waiting \in Seq(Event)
        BY <1>q, <3>2, <4>1, <4>2
      <4>6. Follows(q, waiting)
        BY <1>q, <4>1, <4>3, <4>4, <4>5, FlowLonger
      <4> QED  BY <1>f, <4>1, <4>5, <4>6 DEF Follows
    <3> QED  BY <2>2, <3>1, <3>2
  <2>4. LastAuth(waiting, currentUser', clientUser')
    BY <2>1, <2>3
  <2>5. /\ \A kind \in {"auth", "signIn", "signUp"} : Queued(mainQueue', kind) => Queued(mainQueue, kind)
        /\ InTurn(mainQueue') /\ LastAuth(mainQueue', currentUser', clientUser')
        /\ Listened' = Listened
    BY <2>2, <2>3, <2>4, FlowTold
  <2> QED  BY <2>1, <2>5, FlowQuiet
<1>15. ASSUME NEW a \in Account, ReceiveSnapshot(a) \/ GoOffline(a) PROVE Flow'
  <2>1. /\ UNCHANGED <<registered, currentUser, clientUser, request, screen, signingUp, begun>>
        /\ Tell(mainQueue, {a}, TRUE)
    BY <1>15 DEF ReceiveSnapshot, GoOffline, authVars, history
  <2>2. LastAuth(mainQueue, currentUser', clientUser')
    BY <1>f, <2>1
  <2>3. /\ \A kind \in {"auth", "signIn", "signUp"} : Queued(mainQueue', kind) => Queued(mainQueue, kind)
        /\ InTurn(mainQueue') /\ LastAuth(mainQueue', currentUser', clientUser')
        /\ Listened' = Listened
    BY <1>f, <1>q, <2>1, <2>2, FlowTold
  <2> QED  BY <2>1, <2>3, FlowQuiet
<1>16. CASE Relaunch
  <2>1. /\ clientUser' = currentUser /\ currentUser' = currentUser /\ request' = << >>
        /\ screen' = "login" /\ signingUp' = NoOne /\ mainQueue' = << >>
    BY <1>16 DEF Relaunch, FreshProcess
  <2>2. Len(<< >>) = 0
    OBVIOUS
  <2>3. \A kind : ~Queued(mainQueue', kind)
    BY <2>1, <2>2 DEF Queued
  <2>4. LastAuth(mainQueue, currentUser, clientUser)' /\ InTurn(mainQueue)'
    BY <2>1, <2>2, <2>3 DEF LastAuth, InTurn, Queued
  <2>5. AskedRight' /\ SignInRight' /\ SignUpRight' /\ WritingRight' /\ TabsRight'
    BY <2>1, <2>3 DEF AskedRight, SignInRight, SignUpRight, WritingRight, TabsRight
  <2> QED  BY <2>4, <2>5 DEF Flow
<1>17. CASE UNCHANGED vars
  BY <1>l, <1>17, FlowSame DEF vars, authVars, screenVars, history
<1> QED
  BY <1>1, <1>2, <1>3, <1>4, <1>5, <1>6, <1>7, <1>8, <1>9, <1>10, <1>11, <1>12, <1>13, <1>14,
     <1>15, <1>16, <1>17 DEF Next, OnScreen, OnMain
-----------------------------------------------------------------------------
(***************************************************************************)
(* The documents of sign-up.                                               *)
(***************************************************************************)
LEMMA NextAccountRight ==
  ASSUME NEW a,
         QueueRight(a, mutationQueue'[a], a \in begun' \ finished'),
         CaughtRight(mutationQueue'[a], caughtUp'[a]),
         UserIDGoes(a, docs'[Buffer(a)], remoteDocs'[a][Buffer(a)], mutationQueue'[a], applied'[a], caughtUp'[a]),
         a \in begun' => BufferComes(a, remoteDocs'[a][Buffer(a)], mutationQueue'[a])
  PROVE  AccountRight(a)'
  BY DEF AccountRight, QueueRight, CaughtRight, UserIDGoes, BufferComes

\* Every write of an account is one of these.
LEMMA EntryTypes ==
  ASSUME NEW a \in Account, NEW m \in {First(a), Second(a), Third(a)} \cup CleanWrite(a)
  PROVE  /\ m \in Mutation /\ m.path.owner = a
         /\ m.path = Profile(a) <=> m = Third(a)
         /\ m.path = Buffer(a) <=> m # Third(a)
         /\ m \in CleanWrite(a) => m \notin {First(a), Second(a), Third(a)}
<1>1. Buffer(a) # Profile(a) /\ Buffer(a).owner = a /\ Profile(a).owner = a
  BY Paths
<1>2. CASE m \in CleanWrite(a)
  <2>1. m \in Mutation /\ m.path = Buffer(a) /\ m \notin {First(a), Second(a), Third(a)}
    BY <1>2, CleanWrites
  <2> QED  BY <1>1, <2>1
<1>3. CASE m = First(a) \/ m = Second(a)
  <2>1. m \in Mutation /\ m.path = Buffer(a) /\ m # Third(a)
    BY <1>1, <1>3, Writes
  <2>2. m \notin CleanWrite(a)
    BY <1>3, CleanWrites
  <2> QED  BY <1>1, <2>1, <2>2
<1>4. CASE m = Third(a)
  <2>1. m \in Mutation /\ m.path = Profile(a)
    BY <1>4, Writes
  <2>2. m \notin CleanWrite(a)
    BY <1>4, CleanWrites
  <2> QED  BY <1>1, <1>4, <2>1, <2>2
<1> QED  BY <1>2, <1>3, <1>4

LEMMA SecondIsNeither ==
  ASSUME NEW a \in Account
  PROVE  First(a) # Second(a) /\ Second(a) # Third(a) /\ First(a) # Third(a)
  BY Writes, Paths

\* The writes that take userID away, and those that bring the document.
LEMMA UserIDApplied ==
  ASSUME NEW a \in Account, NEW doc, NEW m \in {First(a), Second(a)} \cup CleanWrite(a)
  PROVE  /\ m # First(a) => UserID \notin ApplyTo(m, doc)
         /\ m # Second(a) => Exists \in ApplyTo(m, doc)
         /\ Exists \in doc => Exists \in ApplyTo(m, doc)
<1>1. CASE m = First(a)
  <2>1. Exists \in m.fields
    BY <1>1, Writes
  <2> QED  BY <1>1, <2>1 DEF ApplyTo
<1>2. CASE m = Second(a)
  <2>1. m.fields = {NoUserID} /\ m.merge
    BY <1>2, Writes
  <2>2. /\ NoUserID.key = UserID.key /\ NoUserID.key # Exists.key
        /\ UserID # NoUserID
    BY Fields
  <2> QED  BY <1>2, <2>1, <2>2 DEF ApplyTo, Overwrites
<1>3. CASE m \in CleanWrite(a)
  <2>1. ~m.merge /\ Exists \in m.fields /\ UserID \notin m.fields
    BY <1>3, CleanWrites
  <2> QED  BY <2>1 DEF ApplyTo, Overwrites
<1> QED  BY <1>1, <1>2, <1>3

LEMMA QueueRightTail ==
  ASSUME NEW a \in Account, NEW q \in Seq(Mutation), q # << >>, NEW s, s = Tail(q),
         NEW writing \in BOOLEAN, QueueRight(a, q, writing)
  PROVE  /\ QueueRight(a, s, writing)
         /\ q[1] = Third(a) => writing /\ QueueRight(a, s, FALSE)
<1>1. /\ Len(q) \in Nat /\ Len(q) = Len(s) + 1 /\ Len(s) \in Nat /\ 1 \in 1..Len(q)
      /\ \A i \in 1..Len(s) : i + 1 \in 1..Len(q) /\ s[i] = q[i + 1]
      /\ \A i \in 1..Len(q) : i # 1 => i - 1 \in 1..Len(s) /\ s[i - 1] = q[i]
  BY Rest
<1>2. ASSUME NEW i \in 1..Len(s)
      PROVE  /\ s[i] \in {First(a), Second(a), Third(a)} \cup CleanWrite(a)
             /\ s[i] = First(a) => \E j \in 1..Len(s) : j > i /\ s[j] = Second(a)
             /\ s[i] = Third(a) => \A j \in 1..Len(s) : j > i => s[j] \in CleanWrite(a)
             /\ ~writing => s[i] \in CleanWrite(a)
             /\ q[1] = Third(a) => s[i] \in CleanWrite(a)
  <2>1. i + 1 \in 1..Len(q) /\ s[i] = q[i + 1] /\ i + 1 > 1
    BY <1>1
  <2>2. /\ s[i] \in {First(a), Second(a), Third(a)} \cup CleanWrite(a)
        /\ ~writing => s[i] \in CleanWrite(a)
    BY <2>1 DEF QueueRight
  <2>3. ASSUME s[i] = First(a) PROVE \E j \in 1..Len(s) : j > i /\ s[j] = Second(a)
    <3>1. PICK j \in 1..Len(q) : j > i + 1 /\ q[j] = Second(a)
      BY <2>1, <2>3 DEF QueueRight
    <3>2. j - 1 \in 1..Len(s) /\ s[j - 1] = q[j] /\ j - 1 > i
      BY <1>1, <3>1
    <3> QED  BY <3>1, <3>2
  <2>4. ASSUME s[i] = Third(a), NEW j \in 1..Len(s), j > i PROVE s[j] \in CleanWrite(a)
    <3>1. j + 1 \in 1..Len(q) /\ s[j] = q[j + 1] /\ j + 1 > i + 1
      BY <1>1, <2>4
    <3> QED  BY <2>1, <2>4, <3>1 DEF QueueRight
  <2>5. q[1] = Third(a) => s[i] \in CleanWrite(a)
    BY <1>1, <2>1 DEF QueueRight
  <2> QED  BY <2>2, <2>3, <2>4, <2>5
<1>3. QueueRight(a, s, writing)
  BY <1>2 DEF QueueRight
<1>4. ASSUME q[1] = Third(a) PROVE writing /\ QueueRight(a, s, FALSE)
  <2>1. Third(a) \notin CleanWrite(a)
    BY CleanWrites
  <2>2. writing
    BY <1>1, <1>4, <2>1 DEF QueueRight
  <2>3. QueueRight(a, s, FALSE)
    BY <1>2, <1>4 DEF QueueRight
  <2> QED  BY <2>2, <2>3
<1> QED  BY <1>3, <1>4

LEMMA QueueRightClean ==
  ASSUME NEW a \in Account, NEW m \in CleanWrite(a), NEW writing \in BOOLEAN
  PROVE  \A q \in Seq(Mutation) : QueueRight(a, q, writing) => QueueRight(a, q \o <<m>>, writing)
<1> SUFFICES ASSUME NEW q \in Seq(Mutation), QueueRight(a, q, writing)
             PROVE  QueueRight(a, q \o <<m>>, writing)
  OBVIOUS
<1>s. PICK s : s = q \o <<m>>
  OBVIOUS
<1> SUFFICES QueueRight(a, s, writing)
  BY <1>s
<1>1. m \in Mutation /\ m \notin {First(a), Second(a), Third(a)}
  BY CleanWrites
<1>r. <<m>> \in Seq(Mutation) /\ Len(<<m>>) = 1 /\ <<m>>[1] = m
  BY <1>1
<1>2. PICK r : r = <<m>> /\ r \in Seq(Mutation) /\ Len(r) = 1 /\ r[1] = m
  BY <1>r
<1>3. /\ Len(s) = Len(q) + Len(r) /\ Len(q) \in Nat
      /\ \A i \in 1..Len(q) : i \in 1..Len(s) /\ s[i] = q[i]
      /\ \A i \in 1..Len(s) : \/ i \in 1..Len(q) /\ s[i] = q[i]
                              \/ i - Len(q) \in 1..Len(r) /\ s[i] = r[i - Len(q)]
  BY <1>s, <1>2, Concat
<1>4. /\ \A i \in 1..Len(q) : i \in 1..Len(s) /\ s[i] = q[i]
      /\ \A i \in 1..Len(s) : (i \in 1..Len(q) /\ s[i] = q[i]) \/ s[i] = m
  <2>1. \A i \in 1..Len(s) : i - Len(q) \in 1..Len(r) => i - Len(q) = 1
    BY <1>2, <1>3
  <2> QED  BY <1>2, <1>3, <2>1
<1> SUFFICES ASSUME NEW i \in 1..Len(s)
             PROVE  /\ s[i] \in {First(a), Second(a), Third(a)} \cup CleanWrite(a)
                    /\ s[i] = First(a) => \E j \in 1..Len(s) : j > i /\ s[j] = Second(a)
                    /\ s[i] = Third(a) => \A j \in 1..Len(s) : j > i => s[j] \in CleanWrite(a)
                    /\ ~writing => s[i] \in CleanWrite(a)
  BY DEF QueueRight
<1>5. CASE i \in 1..Len(q)
  <2>1. s[i] = q[i]
    BY <1>4, <1>5
  <2>2. /\ s[i] \in {First(a), Second(a), Third(a)} \cup CleanWrite(a)
        /\ ~writing => s[i] \in CleanWrite(a)
    BY <1>5, <2>1 DEF QueueRight
  <2>3. s[i] = First(a) => \E j \in 1..Len(s) : j > i /\ s[j] = Second(a)
    BY <1>4, <1>5, <2>1 DEF QueueRight
  <2>4. s[i] = Third(a) => \A j \in 1..Len(s) : j > i => s[j] \in CleanWrite(a)
    BY <1>4, <1>5, <2>1 DEF QueueRight
  <2> QED  BY <2>2, <2>3, <2>4
<1>6. CASE s[i] = m
  BY <1>1, <1>6
<1> QED  BY <1>4, <1>5, <1>6

LEMMA QueueRightSignUp ==
  ASSUME NEW a \in Account, NEW q \in Seq(Mutation), NEW s, s = q \o SignUpWrites(a),
         QueueRight(a, q, FALSE)
  PROVE  QueueRight(a, s, TRUE) /\ \E i \in 1..Len(s) : s[i] = First(a)
<1>1. PICK r : r = SignUpWrites(a)
  OBVIOUS
<1>2. r \in Seq(Mutation) /\ Len(r) = 3 /\ r[1] = First(a) /\ r[2] = Second(a) /\ r[3] = Third(a)
  BY <1>1, SignUpWritesAre
<1>3. /\ Len(s) = Len(q) + Len(r) /\ Len(q) \in Nat
      /\ \A i \in 1..Len(q) : i \in 1..Len(s) /\ s[i] = q[i]
      /\ \A i \in 1..Len(r) : i + Len(q) \in 1..Len(s) /\ s[i + Len(q)] = r[i]
      /\ \A i \in 1..Len(s) : \/ i \in 1..Len(q) /\ s[i] = q[i]
                              \/ i - Len(q) \in 1..Len(r) /\ s[i] = r[i - Len(q)]
  <2>1. r \in Seq(Mutation) /\ s = q \o r
    BY <1>1, <1>2
  <2> QED  BY <2>1, Concat
<1>4. /\ 1 + Len(q) \in 1..Len(s) /\ s[1 + Len(q)] = First(a)
      /\ 2 + Len(q) \in 1..Len(s) /\ s[2 + Len(q)] = Second(a)
      /\ 3 + Len(q) \in 1..Len(s) /\ s[3 + Len(q)] = Third(a)
  <2>1. 1 \in 1..Len(r) /\ 2 \in 1..Len(r) /\ 3 \in 1..Len(r)
    BY <1>2
  <2> QED  BY <1>2, <1>3, <2>1
<1>5. \A i \in 1..Len(s) : i \in 1..Len(q) \/ i \in {1 + Len(q), 2 + Len(q), 3 + Len(q)}
  BY <1>2, <1>3
<1>6. \A i \in 1..Len(q) : s[i] \in CleanWrite(a) /\ s[i] \notin {First(a), Second(a), Third(a)}
  BY <1>3, CleanWrites DEF QueueRight
<1>7. First(a) # Third(a) /\ First(a) # Second(a) /\ Second(a) # Third(a)
  BY SecondIsNeither
<1>8. ASSUME NEW i \in 1..Len(s)
      PROVE  /\ s[i] \in {First(a), Second(a), Third(a)} \cup CleanWrite(a)
             /\ s[i] = First(a) => \E j \in 1..Len(s) : j > i /\ s[j] = Second(a)
             /\ s[i] = Third(a) => \A j \in 1..Len(s) : j > i => s[j] \in CleanWrite(a)
  <2>1. s[i] \in {First(a), Second(a), Third(a)} \cup CleanWrite(a)
    BY <1>4, <1>5, <1>6
  <2>2. s[i] = First(a) => i = 1 + Len(q)
    BY <1>4, <1>5, <1>6, <1>7
  <2>3. s[i] = Third(a) => i = 3 + Len(q)
    BY <1>4, <1>5, <1>6, <1>7
  <2>4. s[i] = First(a) => \E j \in 1..Len(s) : j > i /\ s[j] = Second(a)
    BY <1>3, <1>4, <2>2
  <2>5. \A j \in 1..Len(s) : ~(j > 3 + Len(q))
    BY <1>2, <1>3
  <2> QED  BY <2>1, <2>3, <2>4, <2>5
<1> QED  BY <1>4, <1>8 DEF QueueRight
\* Exists is the field with this key, and no other.
LEMMA HasDocument ==
  ASSUME NEW doc \in Document
  PROVE  Lemmas!Has(doc, "document") <=> Exists \in doc
<1>1. \A f \in SessionField : f.key = "document" <=> f = Exists
  BY Fields DEF SessionField
<1>2. doc \subseteq SessionField
  BY DEF Document
<1> QED  BY <1>1, <1>2 DEF Lemmas!Has

LEMMA WritesKeepKeys ==
  ASSUME NEW a \in Account, NEW m \in {First(a), Second(a), Third(a)} \cup CleanWrite(a)
  PROVE  Lemmas!KeepsKeys(m, Permanent)
<1>1. m \in Mutation
  BY EntryTypes
<1>2. m.path \in SessionPath /\ m.fields \in Document
  BY <1>1 DEF Mutation
<1>3. m.merge \/ Exists \in m.fields
  BY Writes, CleanWrites
<1>4. \A k \in Permanent[m.path] : k = "document"
  BY <1>2 DEF Permanent
<1> QED  BY <1>2, <1>3, <1>4, HasDocument DEF Lemmas!KeepsKeys

LEMMA StepKeys ==
  ASSUME FsTypeOK, Lemmas!KeysKept(Permanent), ClientSteps
  PROVE  Lemmas!KeysKept(Permanent)'
<1>p. \A a \in Account : Buffer(a) \in SessionPath
  BY Paths
<1>n. Lemmas!NetworkStep => Lemmas!KeysKept(Permanent)'
  BY SameTypes, Lemmas!NetworkKeepsKeys
<1>w. ASSUME NEW a \in Account, NEW ms \in Seq(Mutation), LocallyWrite(a, ms),
             \A i \in 1..Len(ms) : Lemmas!KeepsKeys(ms[i], Permanent)
      PROVE  Lemmas!KeysKept(Permanent)'
  <2>1. Lemmas!LocallyWrite(a, ms) /\ ms \in Seq(Lemmas!Mutation)
    BY <1>w, SameWrite, SameTypes
  <2> QED  BY <1>w, <2>1, SameTypes, Lemmas!WriteKeepsKeys
<1>1. UNCHANGED clientVars => Lemmas!KeysKept(Permanent)'
  BY <1>n, SameNetwork
<1>2. ASSUME AllRestart PROVE Lemmas!KeysKept(Permanent)'
  <2>1. /\ UNCHANGED <<docs, remoteDocs, mutationQueue>>
        /\ \A a \in Account : applied'[a] = 0 /\ caughtUp'[a] = {}
    BY <1>2 DEF AllRestart
  <2>2. \A a \in Account : 1..applied'[a] = {}
    BY <2>1
  <2>3. /\ \A d \in Account : \A i \in 1..Len(mutationQueue'[d]) :
             Lemmas!KeepsKeys(mutationQueue'[d][i], Permanent)
        /\ \A d \in Account : \A p \in SessionPath : \A k \in Permanent[p] :
             Lemmas!Has(remoteDocs'[d][p], k) => Lemmas!Has(docs'[p], k)
    BY <2>1 DEF Lemmas!KeysKept
  <2> QED  BY <2>1, <2>2, <2>3, Lemmas!NextKeysKept, Fields
<1>k. ASSUME AllKilled PROVE Lemmas!KeysKept(Permanent)'
  BY <1>k, SameTypes, Lemmas!KilledKeepsKeys DEF AllKilled
<1>3. \A a \in Account :
        Persist(a) \/ Commit(a) \/ RestartStream(a) \/ Watch(a, Buffer(a)) \/ Answers(a)
          => Lemmas!KeysKept(Permanent)'
  BY <1>p, <1>n, SameNetwork DEF Answers
<1>4. ASSUME NEW f \in Friend, NEW a \in Account, Sends(f, a) PROVE Lemmas!KeysKept(Permanent)'
  <2>1. UNCHANGED <<remoteDocs, mutationQueue, applied, caughtUp>>
    BY <1>4 DEF Sends
  <2>2. ASSUME NEW p \in SessionPath, Lemmas!Has(docs[p], "document")
        PROVE  Lemmas!Has(docs'[p], "document")
    <3>1. docs' = [docs EXCEPT ![Buffer(a)] = ApplyTo(MergeInto(Buffer(a), {Exists, Badge(f)}), docs[Buffer(a)])]
      BY <1>4 DEF Sends
    <3>2. docs \in [SessionPath -> Document]
      BY DEF FsTypeOK
    <3>3. CASE p = Buffer(a)
      <4>1. docs'[p] = ApplyTo(MergeInto(Buffer(a), {Exists, Badge(f)}), docs[Buffer(a)])
        BY <3>1, <3>2, <3>3
      <4>2. Exists \in docs'[p] /\ Exists.key = "document"
        BY <4>1, Fields DEF ApplyTo, MergeInto
      <4> QED  BY <4>2 DEF Lemmas!Has
    <3>4. CASE p # Buffer(a)
      BY <2>2, <3>1, <3>2, <3>4
    <3> QED  BY <3>3, <3>4
  <2>3. \A p \in SessionPath : \A k \in Permanent[p] : Lemmas!Has(docs[p], k) => Lemmas!Has(docs'[p], k)
    BY <2>2 DEF Permanent
  <2>4. \A d \in Account : \A i \in 1..applied[d] : mutationQueue[d][i].path \in SessionPath
    <3>1. \A d \in Account : /\ mutationQueue[d] \in Seq(Mutation) /\ applied[d] \in Nat
                             /\ Len(mutationQueue[d]) \in Nat /\ applied[d] <= Len(mutationQueue[d])
      BY ClientTypes
    <3>2. ASSUME NEW d \in Account, NEW i \in 1..applied[d]
          PROVE  mutationQueue[d][i].path \in SessionPath
      <4>1. i \in 1..Len(mutationQueue[d])
        BY <3>1
      <4>2. mutationQueue[d][i] \in Mutation
        BY <3>1, <4>1
      <4> QED  BY <4>2 DEF Mutation
    <3> QED  BY <3>2
  <2>5. /\ \A d \in Account : \A i \in 1..Len(mutationQueue[d]) :
             Lemmas!KeepsKeys(mutationQueue[d][i], Permanent)
        /\ \A d \in Account : \A i \in 1..applied[d] : \A k \in Permanent[mutationQueue[d][i].path] :
             Lemmas!Has(mutationQueue[d][i].fields, k) => Lemmas!Has(docs[mutationQueue[d][i].path], k)
        /\ \A d \in Account : \A i \in caughtUp[d] : \A k \in Permanent[mutationQueue[d][i].path] :
             Lemmas!Has(mutationQueue[d][i].fields, k) =>
               Lemmas!Has(remoteDocs[d][mutationQueue[d][i].path], k)
        /\ \A d \in Account : \A p \in SessionPath : \A k \in Permanent[p] :
             Lemmas!Has(remoteDocs[d][p], k) => Lemmas!Has(docs[p], k)
    BY DEF Lemmas!KeysKept
  <2>6. \A d \in Account : \A i \in 1..applied[d] : \A k \in Permanent[mutationQueue[d][i].path] :
          Lemmas!Has(mutationQueue[d][i].fields, k) => Lemmas!Has(docs'[mutationQueue[d][i].path], k)
    BY <2>3, <2>4, <2>5
  <2>7. \A d \in Account : \A p \in SessionPath : \A k \in Permanent[p] :
          Lemmas!Has(remoteDocs[d][p], k) => Lemmas!Has(docs'[p], k)
    BY <2>3, <2>5
  <2> QED  BY <2>1, <2>5, <2>6, <2>7, Lemmas!NextKeysKept, Fields
<1>5. ASSUME NEW a \in Account, NEW m \in Mutation, WritesClean(a, m) PROVE Lemmas!KeysKept(Permanent)'
  <2>1. m \in CleanWrite(a) /\ LocallyWrite(a, <<m>>)
    BY <1>5 DEF WritesClean
  <2>2. <<m>> \in Seq(Mutation) /\ Len(<<m>>) = 1 /\ <<m>>[1] = m
    OBVIOUS
  <2>3. \A i \in 1..Len(<<m>>) : Lemmas!KeepsKeys(<<m>>[i], Permanent)
    BY <2>1, <2>2, WritesKeepKeys
  <2> QED  BY <1>w, <2>1, <2>2, <2>3
<1>6. ASSUME NEW a \in Account, SignsUp(a) PROVE Lemmas!KeysKept(Permanent)'
  <2>1. PICK r : r = SignUpWrites(a)
    OBVIOUS
  <2>2. r \in Seq(Mutation) /\ Len(r) = 3 /\ r[1] = First(a) /\ r[2] = Second(a) /\ r[3] = Third(a)
    BY <2>1, SignUpWritesAre
  <2>3. \A i \in 1..Len(r) : r[i] \in {First(a), Second(a), Third(a)}
    BY <2>2
  <2>4. \A i \in 1..Len(r) : Lemmas!KeepsKeys(r[i], Permanent)
    BY <2>3, WritesKeepKeys
  <2> QED  BY <1>6, <1>w, <2>1, <2>2, <2>4 DEF SignsUp
<1> QED  BY <1>1, <1>2, <1>3, <1>4, <1>5, <1>6, <1>k DEF ClientSteps
(***************************************************************************)
(* The documents of one account: from its document on the backend, the     *)
(* cached one, its queue, the committed and the cached part of that, and   *)
(* whether sign-up goes on (writing) and has begun (signed).               *)
(***************************************************************************)
Right(a, doc, cached, q, n, caught, writing, signed) ==
  /\ QueueRight(a, q, writing)
  /\ CaughtRight(q, caught)
  /\ UserIDGoes(a, doc, cached, q, n, caught)
  /\ signed => BufferComes(a, cached, q)

Brought(q, n, p) == {i \in 1..n : q[i].path = p}

Moved(caught) == {i - 1 : i \in caught \ {1}}

LEMMA RightIs ==
  ASSUME NEW a
  PROVE  AccountRight(a) <=>
           Right(a, docs[Buffer(a)], remoteDocs[a][Buffer(a)], mutationQueue[a], applied[a], caughtUp[a],
                 a \in begun \ finished, a \in begun)
  BY DEF AccountRight, Right

LEMMA NextRightIs ==
  ASSUME NEW a,
         Right(a, docs'[Buffer(a)], remoteDocs'[a][Buffer(a)], mutationQueue'[a], applied'[a], caughtUp'[a],
               a \in begun' \ finished', a \in begun')
  PROVE  AccountRight(a)'
  BY NextAccountRight DEF Right

LEMMA RightRestarted ==
  ASSUME NEW a \in Account, NEW doc, NEW cached, NEW q \in Seq(Mutation), NEW n \in Nat, NEW caught,
         NEW writing \in BOOLEAN, NEW signed \in BOOLEAN,
         Right(a, doc, cached, q, n, caught, writing, signed)
  PROVE  Right(a, doc, cached, q, 0, {}, writing, signed)
<1>1. Len(q) \in Nat
  OBVIOUS
<1>2. CaughtRight(q, {})
  BY DEF CaughtRight
<1>3. UserIDGoes(a, doc, cached, q, 0, {})
  BY <1>1 DEF Right, UserIDGoes
<1> QED  BY <1>2, <1>3 DEF Right

LEMMA RightCommitted ==
  ASSUME NEW a \in Account, NEW doc, NEW cached, NEW q \in Seq(Mutation), NEW n \in Nat, NEW caught,
         NEW writing \in BOOLEAN, NEW signed \in BOOLEAN, n < Len(q), NEW new,
         Right(a, doc, cached, q, n, caught, writing, signed),
         new = IF q[n + 1].path = Buffer(a) THEN ApplyTo(q[n + 1], doc) ELSE doc
  PROVE  Right(a, new, cached, q, n + 1, caught, writing, signed)
<1>1. n + 1 \in 1..Len(q) /\ Len(q) \in Nat
  OBVIOUS
<1>2. PICK m : m = q[n + 1]
  OBVIOUS
<1>3. m \in {First(a), Second(a), Third(a)} \cup CleanWrite(a)
  BY <1>1, <1>2 DEF Right, QueueRight
<1>4. ASSUME UserID \in new PROVE \E i \in 1..Len(q) : i > n + 1 /\ q[i] = Second(a)
  <2>1. CASE m = First(a)
    BY <1>1, <1>2, <2>1 DEF Right, QueueRight
  <2>2. CASE m = Third(a)
    <3>1. m.path # Buffer(a) /\ m # Second(a)
      BY <2>2, <1>3, EntryTypes, SecondIsNeither
    <3>2. UserID \in doc
      BY <1>2, <1>4, <3>1
    <3>3. PICK i \in 1..Len(q) : i > n /\ q[i] = Second(a)
      BY <3>2 DEF Right, UserIDGoes
    <3>4. i # n + 1
      BY <1>2, <3>1, <3>3
    <3> QED  BY <1>1, <3>3, <3>4
  <2>3. CASE m \notin {First(a), Third(a)}
    <3>1. m \in {First(a), Second(a)} \cup CleanWrite(a)
      BY <1>3, <2>3
    <3>2. m.path = Buffer(a)
      BY <1>3, <2>3, EntryTypes
    <3>3. UserID \notin ApplyTo(m, doc)
      BY <2>3, <3>1, UserIDApplied
    <3> QED  BY <1>2, <1>4, <3>2, <3>3
  <2> QED  BY <2>1, <2>2, <2>3
<1>5. UserID \in cached => \E i \in 1..Len(q) : i \notin caught /\ q[i] = Second(a)
  BY DEF Right, UserIDGoes
<1> QED  BY <1>4, <1>5 DEF Right, UserIDGoes

LEMMA RightWatched ==
  ASSUME NEW a \in Account, NEW doc, NEW cached, NEW q \in Seq(Mutation), NEW n \in Nat, NEW caught,
         NEW writing \in BOOLEAN, NEW signed \in BOOLEAN, n <= Len(q), caught \subseteq 1..n,
         Exists \in cached => Exists \in doc,
         Right(a, doc, cached, q, n, caught, writing, signed)
  PROVE  Right(a, doc, doc, q, n, caught \cup Brought(q, n, Buffer(a)), writing, signed)
<1> USE DEF Brought
<1> DEFINE new == caught \cup Brought(q, n, Buffer(a))
<1>1. Len(q) \in Nat
  OBVIOUS
<1>2. ASSUME NEW i \in new, NEW j \in 1..i, q[j].path = q[i].path PROVE j \in new
  <2>1. CASE i \in caught
    BY <1>2, <2>1 DEF Right, CaughtRight
  <2>2. CASE i \notin caught
    <3>1. i \in 1..n /\ q[i].path = Buffer(a)
      BY <2>2
    <3>2. j \in 1..n
      BY <3>1
    <3> QED  BY <1>2, <3>1, <3>2
  <2> QED  BY <2>1, <2>2
<1>3. CaughtRight(q, new)
  BY <1>2 DEF CaughtRight
<1>4. ASSUME UserID \in doc
      PROVE  /\ \E i \in 1..Len(q) : i > n /\ q[i] = Second(a)
             /\ \E i \in 1..Len(q) : i \notin new /\ q[i] = Second(a)
  <2>1. PICK i \in 1..Len(q) : i > n /\ q[i] = Second(a)
    BY <1>4 DEF Right, UserIDGoes
  <2>2. i \notin new
    BY <2>1
  <2> QED  BY <2>1, <2>2
<1>5. signed => BufferComes(a, doc, q)
  BY DEF Right, BufferComes
<1> QED  BY <1>3, <1>4, <1>5 DEF Right, UserIDGoes

LEMMA RightAnswered ==
  ASSUME NEW a \in Account, NEW doc, NEW cached, NEW q \in Seq(Mutation), NEW n \in Nat, NEW caught,
         NEW writing \in BOOLEAN, NEW signed \in BOOLEAN,
         n > 0, n <= Len(q), caught \subseteq 1..n,
         1 \in caught /\ q[1] = First(a) => Exists \in cached,
         Right(a, doc, cached, q, n, caught, writing, signed),
         NEW new, new = IF 1 \notin caught /\ q[1].path = Buffer(a) THEN ApplyTo(q[1], cached) ELSE cached,
         NEW left, left = Moved(caught)
  PROVE  /\ Right(a, doc, new, Tail(q), n - 1, left, writing /\ q[1] # Third(a), signed)
         /\ q[1] = Third(a) => writing
<1>1. Len(q) \in Nat /\ q # << >>
  OBVIOUS
<1>2. PICK s : s = Tail(q)
  OBVIOUS
<1>3. /\ s \in Seq(Mutation) /\ Len(q) = Len(s) + 1 /\ Len(s) \in Nat /\ 1 \in 1..Len(q)
      /\ \A i \in 1..Len(s) : i + 1 \in 1..Len(q) /\ s[i] = q[i + 1]
      /\ \A i \in 1..Len(q) : i # 1 => i - 1 \in 1..Len(s) /\ s[i - 1] = q[i]
  BY <1>1, <1>2, Rest
<1>4. PICK m : m = q[1]
  OBVIOUS
<1>5. m \in {First(a), Second(a), Third(a)} \cup CleanWrite(a)
  BY <1>3, <1>4 DEF Right, QueueRight
<1>6. /\ QueueRight(a, s, writing)
      /\ m = Third(a) => writing /\ QueueRight(a, s, FALSE)
  <2>1. QueueRight(a, q, writing)
    BY DEF Right
  <2> QED  BY <1>1, <1>2, <1>4, <2>1, QueueRightTail
<1>7. QueueRight(a, s, writing /\ m # Third(a))
  <2>1. CASE m = Third(a)
    <3>1. (writing /\ m # Third(a)) = FALSE
      BY <2>1
    <3> QED  BY <1>6, <2>1, <3>1
  <2>2. CASE m # Third(a)
    <3>1. (writing /\ m # Third(a)) = writing
      BY <2>2
    <3> QED  BY <1>6, <3>1
  <2> QED  BY <2>1, <2>2
<1>8. \A i \in 1..Len(q) : i # 1 => (i - 1 \in left <=> i \in caught)
  BY <1>1 DEF Moved
<1>9. CaughtRight(s, left)
  <2>1. ASSUME NEW i \in left, NEW j \in 1..i, s[j].path = s[i].path PROVE j \in left
    <3>1. PICK k \in caught \ {1} : i = k - 1
      BY DEF Moved
    <3>2. k \in 1..Len(q) /\ k # 1
      <4>1. k \in 1..n
        BY <3>1
      <4> QED  BY <1>1, <3>1, <4>1
    <3>3. i \in 1..Len(s) /\ k = i + 1 /\ s[i] = q[k]
      BY <1>3, <3>1, <3>2
    <3>4. j \in 1..Len(s)
      BY <1>3, <3>3
    <3>5. j + 1 \in 1..Len(q) /\ j + 1 # 1 /\ (j + 1) - 1 = j /\ s[j] = q[j + 1] /\ j + 1 \in 1..k
      BY <1>3, <3>3, <3>4
    <3>6. q[j + 1].path = q[k].path
      BY <2>1, <3>3, <3>5
    <3>7. j + 1 \in caught
      BY <3>1, <3>5, <3>6 DEF Right, CaughtRight
    <3>8. j \in left
      BY <3>5, <3>7 DEF Moved
    <3> QED  BY <3>8
  <2> QED  BY <2>1 DEF CaughtRight
<1>10. ASSUME UserID \in doc PROVE \E i \in 1..Len(s) : i > n - 1 /\ s[i] = Second(a)
  <2>1. PICK i \in 1..Len(q) : i > n /\ q[i] = Second(a)
    BY <1>10 DEF Right, UserIDGoes
  <2>2. i # 1 /\ i - 1 > n - 1
    BY <2>1
  <2> QED  BY <1>3, <2>1, <2>2
<1>11. ASSUME NEW i \in 1..Len(q), i # 1, i \notin caught, q[i] = Second(a)
       PROVE  \E j \in 1..Len(s) : j \notin left /\ s[j] = Second(a)
  BY <1>3, <1>8, <1>11
<1>12. ASSUME UserID \in new PROVE \E j \in 1..Len(s) : j \notin left /\ s[j] = Second(a)
  <2>1. CASE 1 \in caught
    <3>1. UserID \in cached
      BY <1>12, <2>1
    <3>2. PICK i \in 1..Len(q) : i \notin caught /\ q[i] = Second(a)
      BY <3>1 DEF Right, UserIDGoes
    <3> QED  BY <1>11, <2>1, <3>2
  <2>2. CASE 1 \notin caught /\ m = First(a)
    <3>1. PICK i \in 1..Len(q) : i > 1 /\ q[i] = Second(a)
      BY <1>3, <1>4, <2>2 DEF Right, QueueRight
    <3>2. q[1].path = q[i].path /\ 1 \in 1..i
      BY <1>4, <2>2, <3>1, Writes
    <3>3. i \notin caught
      BY <2>2, <3>2 DEF Right, CaughtRight
    <3> QED  BY <1>11, <3>1, <3>3
  <2>3. CASE 1 \notin caught /\ m = Third(a)
    <3>1. m.path # Buffer(a) /\ m # Second(a)
      BY <1>5, <2>3, EntryTypes, SecondIsNeither
    <3>2. UserID \in cached
      BY <1>4, <1>12, <3>1
    <3>3. PICK i \in 1..Len(q) : i \notin caught /\ q[i] = Second(a)
      BY <3>2 DEF Right, UserIDGoes
    <3>4. i # 1
      BY <1>4, <3>1, <3>3
    <3> QED  BY <1>11, <3>3, <3>4
  <2>4. CASE 1 \notin caught /\ m \notin {First(a), Third(a)}
    <3>1. m \in {First(a), Second(a)} \cup CleanWrite(a) /\ m.path = Buffer(a)
      BY <1>5, <2>4, EntryTypes
    <3>2. UserID \notin ApplyTo(m, cached)
      BY <2>4, <3>1, UserIDApplied
    <3> QED  BY <1>4, <1>12, <2>4, <3>1, <3>2
  <2> QED  BY <2>1, <2>2, <2>3, <2>4
<1>13. ASSUME BufferComes(a, cached, q) PROVE BufferComes(a, new, s)
  <2>1. ASSUME m.path = Buffer(a)
        PROVE  /\ Exists \in cached => Exists \in ApplyTo(m, cached)
               /\ m = First(a) => Exists \in ApplyTo(m, cached)
    <3>1. m \in {First(a), Second(a)} \cup CleanWrite(a)
      BY <1>5, <2>1, EntryTypes
    <3>2. First(a) # Second(a)
      BY SecondIsNeither
    <3> QED  BY <3>1, <3>2, UserIDApplied
  <2>2. CASE Exists \in cached
    <3>1. Exists \in new
      BY <1>4, <2>1, <2>2
    <3> QED  BY <3>1 DEF BufferComes
  <2>3. CASE Exists \notin cached
    <3>1. PICK i \in 1..Len(q) : q[i] = First(a)
      BY <1>13, <2>3 DEF BufferComes
    <3>2. CASE i = 1
      <4>1. m = First(a) /\ m.path = Buffer(a) /\ 1 \notin caught
        BY <1>4, <2>3, <3>1, <3>2, Writes
      <4>2. Exists \in new
        BY <1>4, <2>1, <4>1
      <4> QED  BY <4>2 DEF BufferComes
    <3>3. CASE i # 1
      BY <1>3, <3>1, <3>3 DEF BufferComes
    <3> QED  BY <3>2, <3>3
  <2> QED  BY <2>2, <2>3
<1>14. UserIDGoes(a, doc, new, s, n - 1, left)
  BY <1>10, <1>12 DEF UserIDGoes
<1>15. signed => BufferComes(a, new, s)
  BY <1>13 DEF Right
<1> QED  BY <1>2, <1>4, <1>6, <1>7, <1>9, <1>14, <1>15 DEF Right

\* A kill leaves a prefix.  Behind sign-up's last write there is nothing that
\* the buffer document depends on.
LEMMA RightCut ==
  ASSUME NEW a \in Account, NEW doc, NEW cached, NEW q \in Seq(Mutation), NEW n \in Nat, NEW caught,
         NEW writing \in BOOLEAN, NEW signed \in BOOLEAN,
         Right(a, doc, cached, q, n, caught, writing, signed),
         NEW s \in Seq(Mutation), \A i \in 1..Len(s) : i \in 1..Len(q) /\ s[i] = q[i],
         writing => \E k \in 1..Len(s) : s[k] = Third(a)
  PROVE  Right(a, doc, cached, s, 0, {}, writing, signed)
<1>1. Len(q) \in Nat /\ Len(s) \in Nat
  OBVIOUS
<1>2. First(a) # Third(a) /\ Second(a) # Third(a)
  BY SecondIsNeither
<1>3. \A m \in CleanWrite(a) : m \notin {First(a), Second(a), Third(a)}
  BY CleanWrites
\* Sign-up's first two writes are kept, if they are there.
<1>4. ASSUME NEW i \in 1..Len(q), q[i] \in {First(a), Second(a)}
      PROVE  i \in 1..Len(s) /\ s[i] = q[i]
  <2>1. q[i] \notin CleanWrite(a)
    BY <1>3, <1>4
  <2>2. writing
    BY <2>1 DEF Right, QueueRight
  <2>3. PICK k \in 1..Len(s) : s[k] = Third(a)
    BY <2>2
  <2>4. k \in 1..Len(q) /\ q[k] = Third(a)
    BY <2>3
  <2>5. ~(i > k)
    BY <2>1, <2>4 DEF Right, QueueRight
  <2>6. i \in 1..Len(s)
    BY <1>1, <2>3, <2>5
  <2> QED  BY <2>6
<1>5. ASSUME NEW i \in 1..Len(s)
      PROVE  /\ s[i] \in {First(a), Second(a), Third(a)} \cup CleanWrite(a)
             /\ s[i] = First(a) => \E j \in 1..Len(s) : j > i /\ s[j] = Second(a)
             /\ s[i] = Third(a) => \A j \in 1..Len(s) : j > i => s[j] \in CleanWrite(a)
             /\ ~writing => s[i] \in CleanWrite(a)
  <2>1. i \in 1..Len(q) /\ s[i] = q[i]
    BY <1>5
  <2>2. /\ s[i] \in {First(a), Second(a), Third(a)} \cup CleanWrite(a)
        /\ ~writing => s[i] \in CleanWrite(a)
    BY <2>1 DEF Right, QueueRight
  <2>3. ASSUME s[i] = First(a) PROVE \E j \in 1..Len(s) : j > i /\ s[j] = Second(a)
    <3>1. PICK j \in 1..Len(q) : j > i /\ q[j] = Second(a)
      BY <2>1, <2>3 DEF Right, QueueRight
    <3> QED  BY <1>4, <3>1
  <2>4. ASSUME s[i] = Third(a), NEW j \in 1..Len(s), j > i PROVE s[j] \in CleanWrite(a)
    <3>1. j \in 1..Len(q) /\ s[j] = q[j]
      BY <2>4
    <3> QED  BY <2>1, <2>4, <3>1 DEF Right, QueueRight
  <2> QED  BY <2>2, <2>3, <2>4
<1>6. QueueRight(a, s, writing)
  BY <1>5 DEF QueueRight
<1>7. CaughtRight(s, {})
  BY DEF CaughtRight
<1>8. ASSUME UserID \in doc \/ UserID \in cached
      PROVE  \E i \in 1..Len(s) : i > 0 /\ s[i] = Second(a)
  <2>1. PICK i \in 1..Len(q) : q[i] = Second(a)
    BY <1>8 DEF Right, UserIDGoes
  <2>2. i > 0
    BY <1>1
  <2> QED  BY <1>4, <2>1, <2>2
<1>9. UserIDGoes(a, doc, cached, s, 0, {})
  BY <1>8 DEF UserIDGoes
<1>10. signed => BufferComes(a, cached, s)
  BY <1>4 DEF Right, BufferComes
<1> QED  BY <1>6, <1>7, <1>9, <1>10 DEF Right

\* Writes are added at the end of the queue.
Longer(q, s) == \A i \in 1..Len(q) : i \in 1..Len(s) /\ s[i] = q[i]

LEMMA CaughtLonger ==
  ASSUME NEW q \in Seq(Mutation), NEW caught, caught \subseteq 1..Len(q), CaughtRight(q, caught),
         NEW s, Longer(q, s)
  PROVE  CaughtRight(s, caught)
<1>1. ASSUME NEW i \in caught, NEW j \in 1..i, s[j].path = s[i].path PROVE j \in caught
  <2>1. i \in 1..Len(q) /\ Len(q) \in Nat
    OBVIOUS
  <2>2. j \in 1..Len(q)
    BY <2>1
  <2> QED  BY <1>1, <2>1, <2>2 DEF Longer, CaughtRight
<1> QED  BY <1>1 DEF CaughtRight

LEMMA UserIDLonger ==
  ASSUME NEW a, NEW doc, NEW cached, NEW q, NEW n, NEW caught, UserIDGoes(a, doc, cached, q, n, caught),
         NEW s, Longer(q, s)
  PROVE  UserIDGoes(a, doc, cached, s, n, caught)
  BY DEF UserIDGoes, Longer

LEMMA BufferLonger ==
  ASSUME NEW a, NEW cached, NEW q, BufferComes(a, cached, q), NEW s, Longer(q, s)
  PROVE  BufferComes(a, cached, s)
  BY DEF BufferComes, Longer

\* An account of which the step touches nothing.
LEMMA RightSame ==
  ASSUME NEW a \in Account, AccountRight(a),
         docs'[Buffer(a)] = docs[Buffer(a)], remoteDocs'[a][Buffer(a)] = remoteDocs[a][Buffer(a)],
         mutationQueue'[a] = mutationQueue[a], applied'[a] = applied[a], caughtUp'[a] = caughtUp[a],
         a \in begun' <=> a \in begun, a \in finished' <=> a \in finished
  PROVE  AccountRight(a)'
<1>1. (a \in begun' \ finished') = (a \in begun \ finished) /\ (a \in begun') = (a \in begun)
  OBVIOUS
<1>2. Right(a, docs[Buffer(a)], remoteDocs[a][Buffer(a)], mutationQueue[a], applied[a], caughtUp[a],
            a \in begun \ finished, a \in begun)
  BY RightIs
<1>3. Right(a, docs'[Buffer(a)], remoteDocs'[a][Buffer(a)], mutationQueue'[a], applied'[a], caughtUp'[a],
            a \in begun' \ finished', a \in begun')
  BY <1>1, <1>2
<1> QED  BY <1>3, NextRightIs

LEMMA RightRestart ==
  ASSUME FsTypeOK, NEW a \in Account, AccountRight(a),
         docs'[Buffer(a)] = docs[Buffer(a)], remoteDocs'[a][Buffer(a)] = remoteDocs[a][Buffer(a)],
         mutationQueue'[a] = mutationQueue[a], applied'[a] = 0, caughtUp'[a] = {},
         UNCHANGED <<begun, finished>>
  PROVE  AccountRight(a)'
<1>1. Right(a, docs[Buffer(a)], remoteDocs[a][Buffer(a)], mutationQueue[a], applied[a], caughtUp[a],
            a \in begun \ finished, a \in begun)
  BY RightIs
<1>2. mutationQueue[a] \in Seq(Mutation) /\ applied[a] \in Nat
  BY ClientTypes
<1>3. PICK writing, signed : writing = (a \in begun \ finished) /\ signed = (a \in begun)
  OBVIOUS
<1>b. writing \in BOOLEAN /\ signed \in BOOLEAN
  BY <1>3
<1>c. Right(a, docs[Buffer(a)], remoteDocs[a][Buffer(a)], mutationQueue[a], applied[a], caughtUp[a],
            writing, signed)
  BY <1>1, <1>3
<1>4. Right(a, docs[Buffer(a)], remoteDocs[a][Buffer(a)], mutationQueue[a], 0, {}, writing, signed)
  BY <1>2, <1>b, <1>c, RightRestarted
<1>5. Right(a, docs'[Buffer(a)], remoteDocs'[a][Buffer(a)], mutationQueue'[a], applied'[a], caughtUp'[a],
            a \in begun' \ finished', a \in begun')
  BY <1>3, <1>4
<1> QED  BY <1>5, NextRightIs

LEMMA RightCommit ==
  ASSUME FsTypeOK, Readable, NEW a \in Account, Commit(a), UNCHANGED <<begun, finished>>,
         NEW b \in Account, AccountRight(b)
  PROVE  AccountRight(b)'
<1> DEFINE n == applied[a]
           q == mutationQueue[a]
           m == q[n + 1]
<1>1. /\ n < Len(q) /\ n \in Nat /\ q \in Seq(Mutation)
      /\ docs' = [docs EXCEPT ![m.path] = ApplyTo(m, docs[m.path])]
      /\ applied' = [applied EXCEPT ![a] = n + 1]
      /\ UNCHANGED <<remoteDocs, mutationQueue, caughtUp>>
  <2>1. n < Len(q)
    <3>1. n < persisted[a] /\ n \in Nat /\ persisted[a] \in Nat /\ persisted[a] <= Len(q)
      BY DEF Commit, FsTypeOK
    <3>2. Len(q) \in Nat
      BY ClientTypes
    <3> QED  BY <3>1, <3>2
  <2> QED  BY <2>1, ClientTypes DEF Commit
<1>2. docs \in [SessionPath -> Document] /\ applied \in [Account -> Nat] /\ Buffer(b) \in SessionPath
  BY Paths DEF FsTypeOK
<1>3. docs'[Buffer(b)] = IF m.path = Buffer(b) THEN ApplyTo(m, docs[Buffer(b)]) ELSE docs[Buffer(b)]
  BY <1>1, <1>2
<1>r. Right(b, docs[Buffer(b)], remoteDocs[b][Buffer(b)], mutationQueue[b], applied[b], caughtUp[b],
            b \in begun \ finished, b \in begun)
  BY RightIs
<1>4. CASE b = a
  <2>1. applied'[a] = n + 1
    BY <1>1, <1>2
  <2>w. PICK writing, signed : writing = (a \in begun \ finished) /\ signed = (a \in begun)
    OBVIOUS
  <2>2. writing \in BOOLEAN /\ signed \in BOOLEAN
    BY <2>w
  <2>3. PICK q1, n1, new : q1 = q /\ n1 = n /\ new = docs'[Buffer(a)]
    OBVIOUS
  <2>4. /\ q1 \in Seq(Mutation) /\ n1 \in Nat /\ n1 < Len(q1)
        /\ new = IF q1[n1 + 1].path = Buffer(a) THEN ApplyTo(q1[n1 + 1], docs[Buffer(a)]) ELSE docs[Buffer(a)]
        /\ Right(a, docs[Buffer(a)], remoteDocs[a][Buffer(a)], q1, n1, caughtUp[a], writing, signed)
    BY <1>1, <1>3, <1>4, <1>r, <2>3, <2>w
  <2>5. Right(a, new, remoteDocs[a][Buffer(a)], q1, n1 + 1, caughtUp[a], writing, signed)
    BY <2>2, <2>4, RightCommitted
  <2>6. Right(a, docs'[Buffer(a)], remoteDocs'[a][Buffer(a)], mutationQueue'[a], applied'[a], caughtUp'[a],
              a \in begun' \ finished', a \in begun')
    BY <1>1, <2>1, <2>3, <2>5, <2>w
  <2> QED  BY <1>4, <2>6, NextRightIs
<1>5. CASE b # a
  <2>1. n + 1 \in 1..Len(q)
    BY <1>1
  <2>2. EntriesRight(a, q)
    BY DEF Readable
  <2>3. m \in {First(a), Second(a), Third(a)} \cup CleanWrite(a)
    BY <2>1, <2>2 DEF EntriesRight
  <2>4. m.path.owner = a
    BY <2>3, EntryTypes
  <2>5. m.path # Buffer(b)
    BY <1>5, <2>4, Paths
  <2>6. docs'[Buffer(b)] = docs[Buffer(b)] /\ applied'[b] = applied[b]
    BY <1>1, <1>2, <1>3, <1>5, <2>5
  <2> QED  BY <1>1, <2>6, RightSame
<1> QED  BY <1>4, <1>5

LEMMA RightWatch ==
  ASSUME FsTypeOK, Readable, NEW a \in Account, Watch(a, Buffer(a)), UNCHANGED <<begun, finished>>,
         NEW b \in Account, AccountRight(b)
  PROVE  AccountRight(b)'
<1>p. Buffer(a) \in SessionPath
  BY Paths
<1>1. /\ remoteDocs \in [Account -> [SessionPath -> Document]] /\ caughtUp \in [Account -> SUBSET Nat]
      /\ remoteDocs' = [remoteDocs EXCEPT ![a][Buffer(a)] = docs[Buffer(a)]]
      /\ caughtUp' = [caughtUp EXCEPT ![a] = caughtUp[a] \cup CommittedOn(a, Buffer(a))]
      /\ UNCHANGED <<docs, mutationQueue, applied>>
  BY DEF FsTypeOK, Watch
<1>r. Right(b, docs[Buffer(b)], remoteDocs[b][Buffer(b)], mutationQueue[b], applied[b], caughtUp[b],
            b \in begun \ finished, b \in begun)
  BY RightIs
<1>2. CASE b = a
  <2>1. /\ remoteDocs'[a][Buffer(a)] = docs[Buffer(a)]
        /\ caughtUp'[a] = caughtUp[a] \cup {i \in 1..applied[a] : mutationQueue[a][i].path = Buffer(a)}
    BY <1>p, <1>1 DEF CommittedOn
  <2>w. PICK writing, signed : writing = (a \in begun \ finished) /\ signed = (a \in begun)
    OBVIOUS
  <2>2. writing \in BOOLEAN /\ signed \in BOOLEAN
    BY <2>w
  <2>3. PICK q, n, new, caught : /\ q = mutationQueue[a] /\ n = applied[a] /\ new = caughtUp'[a]
                                 /\ caught = caughtUp[a]
    OBVIOUS
  <2>4. /\ q \in Seq(Mutation) /\ n \in Nat /\ n <= Len(q) /\ caught \subseteq 1..n
        /\ new = caught \cup Brought(q, n, Buffer(a))
    BY <2>1, <2>3, ClientTypes DEF Brought
  <2>5. Right(a, docs[Buffer(a)], remoteDocs[a][Buffer(a)], q, n, caught, writing, signed)
    BY <1>2, <1>r, <2>3, <2>w
  <2>6. Exists \in remoteDocs[a][Buffer(a)] => Exists \in docs[Buffer(a)]
    <3>1. "document" \in Permanent[Buffer(a)]
      BY <1>p DEF Permanent
    <3>2. Lemmas!Has(remoteDocs[a][Buffer(a)], "document") => Lemmas!Has(docs[Buffer(a)], "document")
      BY <1>p, <3>1 DEF Readable, Lemmas!KeysKept
    <3>3. remoteDocs[a][Buffer(a)] \in Document /\ docs[Buffer(a)] \in Document
      BY <1>p, ClientTypes
    <3> QED  BY <3>2, <3>3, HasDocument
  <2>7. Right(a, docs[Buffer(a)], docs[Buffer(a)], q, n, new, writing, signed)
    <3>1. PICK doc, cached : doc = docs[Buffer(a)] /\ cached = remoteDocs[a][Buffer(a)]
      OBVIOUS
    <3>2. Right(a, doc, cached, q, n, caught, writing, signed) /\ (Exists \in cached => Exists \in doc)
      BY <2>5, <2>6, <3>1
    <3>3. Right(a, doc, doc, q, n, caught \cup Brought(q, n, Buffer(a)), writing, signed)
      BY <2>2, <2>4, <3>2, RightWatched
    <3> QED  BY <2>4, <3>1, <3>3
  <2>8. Right(a, docs'[Buffer(a)], remoteDocs'[a][Buffer(a)], mutationQueue'[a], applied'[a], caughtUp'[a],
              a \in begun' \ finished', a \in begun')
    BY <1>1, <2>1, <2>3, <2>7, <2>w
  <2> QED  BY <1>2, <2>8, NextRightIs
<1>3. CASE b # a
  <2>1. remoteDocs'[b] = remoteDocs[b] /\ caughtUp'[b] = caughtUp[b]
    BY <1>1, <1>3
  <2> QED  BY <1>1, <2>1, RightSame
<1> QED  BY <1>2, <1>3

LEMMA AnsweredIs ==
  ASSUME FsTypeOK, NEW a \in Account, Answers(a)
  PROVE  /\ applied[a] > 0 /\ mutationQueue[a] # << >>
         /\ \A b \in Account : b # a =>
              /\ remoteDocs'[b] = remoteDocs[b] /\ mutationQueue'[b] = mutationQueue[b]
              /\ applied'[b] = applied[b] /\ caughtUp'[b] = caughtUp[b]
         /\ \A p \in SessionPath : remoteDocs'[a][p] =
              IF 1 \notin caughtUp[a] /\ mutationQueue[a][1].path = p
              THEN ApplyTo(mutationQueue[a][1], remoteDocs[a][p]) ELSE remoteDocs[a][p]
         /\ mutationQueue'[a] = Tail(mutationQueue[a])
         /\ applied'[a] = applied[a] - 1
         /\ caughtUp'[a] = {i - 1 : i \in caughtUp[a] \ {1}}
         /\ docs' = docs
<1>1. applied[a] > 0 /\ mutationQueue[a] \in Seq(Mutation) /\ applied[a] \in Nat /\ applied[a] <= Len(mutationQueue[a])
  BY ClientTypes DEF Answers, Acknowledge
<1>2. mutationQueue[a] # << >>
  BY <1>1
<1>3. Head(mutationQueue[a]) = mutationQueue[a][1]
  BY <1>1, <1>2, Rest
<1>4. PICK m : m = mutationQueue[a][1]
  OBVIOUS
<1>5. /\ remoteDocs' = IF 1 \in caughtUp[a] THEN remoteDocs
                       ELSE [remoteDocs EXCEPT ![a][m.path] = ApplyTo(m, remoteDocs[a][m.path])]
      /\ mutationQueue' = [mutationQueue EXCEPT ![a] = Tail(mutationQueue[a])]
      /\ applied' = [applied EXCEPT ![a] = applied[a] - 1]
      /\ caughtUp' = [caughtUp EXCEPT ![a] = {i - 1 : i \in caughtUp[a] \ {1}}]
      /\ docs' = docs
  BY <1>3, <1>4 DEF Answers, Acknowledge
<1>6. /\ remoteDocs \in [Account -> [SessionPath -> Document]] /\ caughtUp \in [Account -> SUBSET Nat]
      /\ mutationQueue \in [Account -> Seq(Mutation)] /\ applied \in [Account -> Nat]
  BY DEF FsTypeOK
<1>7. \A b \in Account : b # a =>
        /\ remoteDocs'[b] = remoteDocs[b] /\ mutationQueue'[b] = mutationQueue[b]
        /\ applied'[b] = applied[b] /\ caughtUp'[b] = caughtUp[b]
  BY <1>5, <1>6
<1>8. \A p \in SessionPath : remoteDocs'[a][p] =
        IF 1 \notin caughtUp[a] /\ m.path = p THEN ApplyTo(m, remoteDocs[a][p]) ELSE remoteDocs[a][p]
  BY <1>5, <1>6
<1>9. /\ mutationQueue'[a] = Tail(mutationQueue[a])
      /\ applied'[a] = applied[a] - 1
      /\ caughtUp'[a] = {i - 1 : i \in caughtUp[a] \ {1}}
  BY <1>5, <1>6
<1> QED  BY <1>1, <1>2, <1>4, <1>5, <1>7, <1>8, <1>9

LEMMA RightAnswer ==
  ASSUME FsTypeOK, Readable, NEW a \in Account, Answers(a), begun' = begun,
         NEW b \in Account, AccountRight(b)
  PROVE  AccountRight(b)'
<1> DEFINE q == mutationQueue[a]
           n == applied[a]
           caught == caughtUp[a]
           cached == remoteDocs[a][Buffer(a)]
           doc == docs[Buffer(a)]
<1>p. Buffer(a) \in SessionPath
  BY Paths
<1>1. /\ n > 0 /\ q # << >> /\ n \in Nat /\ q \in Seq(Mutation) /\ n <= Len(q) /\ caught \subseteq 1..n
      /\ cached \in Document /\ doc \in Document
  BY <1>p, AnsweredIs, ClientTypes
<1>3. 1 \in 1..Len(q) /\ q[1] \in {First(a), Second(a), Third(a)} \cup CleanWrite(a)
  <2>1. 1 \in 1..Len(q)
    BY <1>1
  <2> QED  BY <2>1 DEF Readable, EntriesRight
<1>4. q[1].path = Profile(a) <=> q[1] = Third(a)
  BY <1>3, EntryTypes
<1>5. 1 \in caught /\ q[1] = First(a) => Exists \in cached
  <2> SUFFICES ASSUME 1 \in caught, q[1] = First(a) PROVE Exists \in cached
    OBVIOUS
  <2>1. q[1].path = Buffer(a) /\ q[1].fields = {Exists, UserID} /\ q[1].fields \in Document
    BY Writes DEF Mutation
  <2>2. "document" \in Permanent[q[1].path]
    BY <1>p, <2>1 DEF Permanent
  <2>3. Lemmas!Has(q[1].fields, "document") => Lemmas!Has(remoteDocs[a][q[1].path], "document")
    BY <2>2 DEF Readable, Lemmas!KeysKept
  <2>4. Lemmas!Has(q[1].fields, "document")
    BY <2>1, HasDocument
  <2>5. Lemmas!Has(cached, "document")
    BY <2>1, <2>3, <2>4
  <2> QED  BY <1>1, <2>5, HasDocument
<1>6. finished' = IF q[1] = Third(a) THEN finished \cup {a} ELSE finished
  BY <1>4 DEF Answers
<1>7. CASE b = a
  <2>r. Right(a, doc, cached, q, n, caught, a \in begun \ finished, a \in begun)
    BY <1>7, RightIs
  <2>1. PICK q1, n1, c1, d1, e1, new, left :
          /\ q1 = q /\ n1 = n /\ c1 = caught /\ d1 = doc /\ e1 = cached
          /\ new = remoteDocs'[a][Buffer(a)] /\ left = caughtUp'[a]
    OBVIOUS
  <2>2. /\ new = IF 1 \notin c1 /\ q1[1].path = Buffer(a) THEN ApplyTo(q1[1], e1) ELSE e1
        /\ left = Moved(c1)
    BY <1>p, <2>1, AnsweredIs DEF Moved
  <2>3. /\ q1 \in Seq(Mutation) /\ n1 \in Nat /\ n1 > 0 /\ n1 <= Len(q1) /\ c1 \subseteq 1..n1
        /\ 1 \in c1 /\ q1[1] = First(a) => Exists \in e1
    BY <1>1, <1>5, <2>1
  <2>w. PICK writing, signed : writing = (a \in begun \ finished) /\ signed = (a \in begun)
    OBVIOUS
  <2>4. writing \in BOOLEAN /\ signed \in BOOLEAN
    BY <2>w
  <2>5. Right(a, d1, e1, q1, n1, c1, writing, signed)
    BY <2>r, <2>1, <2>w
  <2>6. Right(a, d1, new, Tail(q1), n1 - 1, left, writing /\ q1[1] # Third(a), signed)
    BY <2>2, <2>3, <2>4, <2>5, RightAnswered
  <2>7. Right(a, doc, remoteDocs'[a][Buffer(a)], Tail(q), n - 1, caughtUp'[a],
              a \in begun \ finished /\ q[1] # Third(a), a \in begun)
    BY <2>1, <2>6, <2>w
  <2>8. (a \in begun' \ finished') = (a \in begun \ finished /\ q[1] # Third(a))
    BY <1>6
  <2>9. /\ docs'[Buffer(a)] = doc /\ mutationQueue'[a] = Tail(q) /\ applied'[a] = n - 1
    BY AnsweredIs
  <2>10. Right(a, docs'[Buffer(a)], remoteDocs'[a][Buffer(a)], mutationQueue'[a], applied'[a], caughtUp'[a],
               a \in begun' \ finished', a \in begun')
    BY <2>7, <2>8, <2>9
  <2> QED  BY <1>7, <2>10, NextRightIs
<1>8. CASE b # a
  <2>1. /\ remoteDocs'[b] = remoteDocs[b] /\ mutationQueue'[b] = mutationQueue[b]
        /\ applied'[b] = applied[b] /\ caughtUp'[b] = caughtUp[b] /\ docs' = docs
    BY <1>8, AnsweredIs
  <2>2. b \in finished' <=> b \in finished
    BY <1>6, <1>8
  <2> QED  BY <2>1, <2>2, RightSame
<1> QED  BY <1>7, <1>8

LEMMA RightSend ==
  ASSUME FsTypeOK, Readable, NEW f \in Friend, NEW a \in Account, Sends(f, a), UNCHANGED <<begun, finished>>,
         NEW b \in Account, AccountRight(b)
  PROVE  AccountRight(b)'
<1>1. /\ docs \in [SessionPath -> Document] /\ Buffer(a) \in SessionPath /\ Buffer(b) \in SessionPath
      /\ docs' = [docs EXCEPT ![Buffer(a)] = ApplyTo(MergeInto(Buffer(a), {Exists, Badge(f)}), docs[Buffer(a)])]
      /\ UNCHANGED <<remoteDocs, mutationQueue, applied, caughtUp>>
  BY Paths DEF FsTypeOK, Sends
<1>2. UserID \notin {Exists, Badge(f)}
  BY Fields
<1>3. UserID \in docs'[Buffer(b)] => UserID \in docs[Buffer(b)]
  <2>1. CASE b = a
    <3>1. docs'[Buffer(b)] = ApplyTo(MergeInto(Buffer(a), {Exists, Badge(f)}), docs[Buffer(a)])
      BY <1>1, <2>1
    <3> QED  BY <1>2, <2>1, <3>1 DEF ApplyTo, MergeInto
  <2>2. CASE b # a
    <3>1. Buffer(b) # Buffer(a)
      BY <2>2, Paths
    <3> QED  BY <1>1, <3>1
  <2> QED  BY <2>1, <2>2
<1>4. /\ QueueRight(b, mutationQueue[b], b \in begun \ finished)
      /\ CaughtRight(mutationQueue[b], caughtUp[b])
      /\ UserIDGoes(b, docs[Buffer(b)], remoteDocs[b][Buffer(b)], mutationQueue[b], applied[b], caughtUp[b])
      /\ b \in begun => BufferComes(b, remoteDocs[b][Buffer(b)], mutationQueue[b])
  BY DEF AccountRight
<1>5. UserIDGoes(b, docs'[Buffer(b)], remoteDocs[b][Buffer(b)], mutationQueue[b], applied[b], caughtUp[b])
  BY <1>3, <1>4 DEF UserIDGoes
<1> QED  BY <1>1, <1>4, <1>5, NextAccountRight

\* The account's queue gets longer; all others stay as they are.
LEMMA RightWrite ==
  ASSUME FsTypeOK, Readable, NEW a \in Account, NEW ms \in Seq(Mutation), LocallyWrite(a, ms),
         finished' = finished, begun' \in {begun, begun \cup {a}},
         AccountRight(a) => QueueRight(a, mutationQueue[a] \o ms, a \in begun' \ finished'),
         a \in begun' => a \in begun \/ \E i \in 1..Len(mutationQueue[a] \o ms) :
                                          (mutationQueue[a] \o ms)[i] = First(a),
         NEW b \in Account, AccountRight(b)
  PROVE  AccountRight(b)'
<1>1. /\ mutationQueue'[a] = mutationQueue[a] \o ms
      /\ b # a => mutationQueue'[b] = mutationQueue[b]
      /\ UNCHANGED <<docs, remoteDocs, applied, caughtUp>>
  BY DEF LocallyWrite, FsTypeOK
<1>2. CASE b = a
  <2>1. PICK q, s : q = mutationQueue[a] /\ s = mutationQueue[a] \o ms
    OBVIOUS
  <2>2. /\ q \in Seq(Mutation) /\ s = q \o ms /\ mutationQueue'[a] = s
        /\ Len(q) \in Nat /\ applied[a] \in Nat /\ applied[a] <= Len(q) /\ caughtUp[a] \subseteq 1..applied[a]
    BY <1>1, <2>1, ClientTypes
  <2>3. caughtUp[a] \subseteq 1..Len(q)
    BY <2>2
  <2>4. Longer(q, s)
    BY <2>2, Concat DEF Longer
  <2>5. /\ CaughtRight(q, caughtUp[a])
        /\ UserIDGoes(a, docs[Buffer(a)], remoteDocs[a][Buffer(a)], q, applied[a], caughtUp[a])
        /\ a \in begun => BufferComes(a, remoteDocs[a][Buffer(a)], q)
    BY <1>2, <2>1 DEF AccountRight
  <2>6. CaughtRight(s, caughtUp[a])
    BY <2>2, <2>3, <2>4, <2>5, CaughtLonger
  <2>7. UserIDGoes(a, docs[Buffer(a)], remoteDocs[a][Buffer(a)], s, applied[a], caughtUp[a])
    BY <2>4, <2>5, UserIDLonger
  <2>8. a \in begun' => BufferComes(a, remoteDocs[a][Buffer(a)], s)
    <3>1. a \in begun => BufferComes(a, remoteDocs[a][Buffer(a)], s)
      BY <2>4, <2>5, BufferLonger
    <3>2. (\E i \in 1..Len(s) : s[i] = First(a)) => BufferComes(a, remoteDocs[a][Buffer(a)], s)
      BY DEF BufferComes
    <3> QED  BY <2>1, <3>1, <3>2
  <2>9. /\ QueueRight(a, mutationQueue'[a], a \in begun' \ finished')
        /\ CaughtRight(mutationQueue'[a], caughtUp'[a])
        /\ UserIDGoes(a, docs'[Buffer(a)], remoteDocs'[a][Buffer(a)], mutationQueue'[a], applied'[a], caughtUp'[a])
        /\ a \in begun' => BufferComes(a, remoteDocs'[a][Buffer(a)], mutationQueue'[a])
    BY <1>1, <1>2, <2>2, <2>6, <2>7, <2>8
  <2> QED  BY <1>2, <2>9, NextAccountRight
<1>3. CASE b # a
  <2>1. (b \in begun' <=> b \in begun) /\ (b \in finished' <=> b \in finished)
    BY <1>3
  <2> QED  BY <1>1, <1>3, <2>1, RightSame
<1> QED  BY <1>2, <1>3

\* What is in the queues remains sign-up's and OpenChat's writes, to the
\* account's own documents.
LEMMA StepEntries ==
  ASSUME FsTypeOK, Readable, ClientSteps, NEW b \in Account
  PROVE  /\ EntriesRight(b, mutationQueue[b])'
         /\ (\E i \in 1..Len(mutationQueue'[b]) : mutationQueue'[b][i] = Third(b)) =>
              \/ \E i \in 1..Len(mutationQueue[b]) : mutationQueue[b][i] = Third(b)
              \/ b \notin begun
<1> DEFINE OneOf(m) == m \in {First(b), Second(b), Third(b)} \cup CleanWrite(b)
           OldOrNew(m) == \/ \E i \in 1..Len(mutationQueue[b]) : m = mutationQueue[b][i]
                          \/ OneOf(m) /\ (m # Third(b) \/ b \notin begun)
<1>1. \A i \in 1..Len(mutationQueue[b]) : OneOf(mutationQueue[b][i])
  BY DEF Readable, EntriesRight
<1>2. mutationQueue[b] \in Seq(Mutation) /\ Len(mutationQueue[b]) \in Nat
  BY ClientTypes
<1>s. mutationQueue'[b] = mutationQueue[b] => \A i \in 1..Len(mutationQueue'[b]) : OldOrNew(mutationQueue'[b][i])
  BY <1>1
<1>w. ASSUME NEW a \in Account, NEW ms \in Seq(Mutation), LocallyWrite(a, ms),
             a = b => \A i \in 1..Len(ms) : OneOf(ms[i]) /\ (ms[i] # Third(b) \/ b \notin begun)
      PROVE  \A i \in 1..Len(mutationQueue'[b]) : OldOrNew(mutationQueue'[b][i])
  <2>1. CASE a = b
    <3>1. PICK q, s : q = mutationQueue[b] /\ s = mutationQueue'[b]
      OBVIOUS
    <3>2. q \in Seq(Mutation) /\ s = q \o ms
      BY <1>2, <1>w, <2>1, <3>1 DEF LocallyWrite, FsTypeOK
    <3>3. \A i \in 1..Len(s) : \/ i \in 1..Len(q) /\ s[i] = q[i]
                               \/ i - Len(q) \in 1..Len(ms) /\ s[i] = ms[i - Len(q)]
      BY <3>2, Concat
    <3> QED  BY <1>w, <2>1, <3>1, <3>3
  <2>2. CASE a # b
    <3>1. mutationQueue'[b] = mutationQueue[b]
      BY <1>w, <2>2 DEF LocallyWrite, FsTypeOK
    <3> QED  BY <1>s, <3>1
  <2> QED  BY <2>1, <2>2
<1>3. \A i \in 1..Len(mutationQueue'[b]) : OldOrNew(mutationQueue'[b][i])
  <2> DEFINE Goal == \A i \in 1..Len(mutationQueue'[b]) : OldOrNew(mutationQueue'[b][i])
  <2>s. mutationQueue'[b] = mutationQueue[b] => Goal
    BY <1>s
  <2>w. ASSUME NEW a \in Account, NEW ms \in Seq(Mutation), LocallyWrite(a, ms),
               a = b => \A i \in 1..Len(ms) : OneOf(ms[i]) /\ (ms[i] # Third(b) \/ b \notin begun)
        PROVE  Goal
    BY <1>w, <2>w
  <2> HIDE DEF Goal, OldOrNew
  <2>1. UNCHANGED clientVars \/ AllRestart \/ (\E f \in Friend, a \in Account : Sends(f, a)) => Goal
    BY <2>s DEF clientVars, AllRestart, Sends
  <2>2. \A a \in Account : Persist(a) \/ Commit(a) \/ RestartStream(a) \/ Watch(a, Buffer(a)) => Goal
    BY <2>s DEF Persist, Commit, RestartStream, Watch
  <2>3. ASSUME AllKilled PROVE Goal
    <3>1. \A i \in 1..Len(mutationQueue'[b]) :
            i \in 1..Len(mutationQueue[b]) /\ mutationQueue'[b][i] = mutationQueue[b][i]
      BY <2>3, SameTypes, Lemmas!KilledQueues DEF AllKilled
    <3> QED  BY <3>1 DEF Goal, OldOrNew
  <2>4. ASSUME NEW a \in Account, Answers(a) PROVE Goal
    <3>1. CASE a = b
      <4>1. PICK q, s : q = mutationQueue[b] /\ s = mutationQueue'[b]
        OBVIOUS
      <4>2. q \in Seq(Mutation) /\ q # << >> /\ s = Tail(q)
        BY <1>2, <2>4, <3>1, <4>1, AnsweredIs
      <4>3. \A i \in 1..Len(s) : i + 1 \in 1..Len(q) /\ s[i] = q[i + 1]
        BY <4>2, Rest
      <4> QED  BY <4>1, <4>3 DEF Goal, OldOrNew
    <3>2. CASE a # b
      BY <2>4, <2>s, <3>2, AnsweredIs
    <3> QED  BY <3>1, <3>2
  <2>5. ASSUME NEW a \in Account, NEW m \in Mutation, WritesClean(a, m) PROVE Goal
    <3>1. m \in CleanWrite(a) /\ LocallyWrite(a, <<m>>) /\ m # Third(a)
      BY <2>5, CleanWrites DEF WritesClean
    <3>2. PICK ms : ms = <<m>>
      OBVIOUS
    <3>3. ms \in Seq(Mutation) /\ \A i \in 1..Len(ms) : ms[i] = m
      BY <3>2
    <3>4. LocallyWrite(a, ms)
      BY <3>1, <3>2
    <3> QED  BY <2>w, <3>1, <3>3, <3>4
  <2>6. ASSUME NEW a \in Account, SignsUp(a) PROVE Goal
    <3>1. PICK ms : ms = SignUpWrites(a)
      OBVIOUS
    <3>2. ms \in Seq(Mutation) /\ Len(ms) = 3 /\ ms[1] = First(a) /\ ms[2] = Second(a) /\ ms[3] = Third(a)
      BY <3>1, SignUpWritesAre
    <3>3. \A i \in 1..Len(ms) : ms[i] \in {First(a), Second(a), Third(a)}
      BY <3>2
    <3>4. LocallyWrite(a, ms) /\ a \notin begun
      BY <2>6, <3>1 DEF SignsUp
    <3> QED  BY <2>w, <3>2, <3>3, <3>4
  <2>7. Goal
    BY <2>1, <2>2, <2>3, <2>4, <2>5, <2>6 DEF ClientSteps
  <2> QED  BY <2>7 DEF Goal
<1>4. \A i \in 1..Len(mutationQueue'[b]) : OneOf(mutationQueue'[b][i])
  BY <1>1, <1>3
<1>5. EntriesRight(b, mutationQueue[b])'
  BY <1>4 DEF EntriesRight
<1> HIDE DEF OneOf
<1>6. ASSUME NEW i \in 1..Len(mutationQueue'[b]), mutationQueue'[b][i] = Third(b)
      PROVE  \/ \E k \in 1..Len(mutationQueue[b]) : mutationQueue[b][k] = Third(b)
             \/ b \notin begun
  BY <1>3, <1>6
<1> QED  BY <1>5, <1>6

\* Who is not whole stays so: only the answer to sign-up's last write makes
\* the account finished, and nothing but sign-up writes it.
LEMMA WholeBefore ==
  ASSUME FsTypeOK, Readable, ClientSteps, NEW b \in Account, Whole(b)'
  PROVE  Whole(b)
<1> SUFFICES ASSUME b \in begun \ finished
             PROVE  \E i \in 1..Len(mutationQueue[b]) : mutationQueue[b][i] = Third(b)
  BY DEF Whole
<1>1. b \in begun'
  BY DEF ClientSteps, SignsUp
<1>2. CASE b \notin finished'
  <2>1. \E i \in 1..Len(mutationQueue'[b]) : mutationQueue'[b][i] = Third(b)
    BY <1>1, <1>2 DEF Whole
  <2> QED  BY <2>1, StepEntries
<1>3. CASE b \in finished'
  <2>1. PICK a \in Account : Answers(a)
    BY <1>3 DEF ClientSteps
  <2>2. a = b /\ mutationQueue[b][1].path = Profile(b)
    BY <1>3, <2>1 DEF Answers
  <2>3. mutationQueue[b] # << >> /\ mutationQueue[b] \in Seq(Mutation)
    BY <2>1, <2>2, AnsweredIs, ClientTypes
  <2>4. 1 \in 1..Len(mutationQueue[b])
    BY <2>3
  <2>5. mutationQueue[b][1] \in {First(b), Second(b), Third(b)} \cup CleanWrite(b)
    BY <2>4 DEF Readable, EntriesRight
  <2>6. mutationQueue[b][1] = Third(b)
    BY <2>2, <2>5, EntryTypes
  <2> QED  BY <2>4, <2>6
<1> QED  BY <1>2, <1>3

LEMMA StepFinished ==
  ASSUME FsTypeOK, Readable, ClientSteps
  PROVE  finished' \subseteq begun'
<1>1. begun \subseteq begun' /\ finished \subseteq begun
  BY DEF Readable, ClientSteps, SignsUp
<1>2. ASSUME NEW b \in finished', b \notin finished PROVE b \in begun
  <2>1. PICK a \in Account : Answers(a)
    BY <1>2 DEF ClientSteps
  <2>2. a = b /\ mutationQueue[b][1].path = Profile(b)
    BY <1>2, <2>1 DEF Answers
  <2>3. mutationQueue[b] # << >> /\ mutationQueue[b] \in Seq(Mutation)
    BY <2>1, <2>2, AnsweredIs, ClientTypes
  <2>4. 1 \in 1..Len(mutationQueue[b]) /\ b \in Account
    BY <2>1, <2>2, <2>3
  <2>5. mutationQueue[b][1] \in {First(b), Second(b), Third(b)} \cup CleanWrite(b)
    BY <2>4 DEF Readable, EntriesRight
  <2>6. mutationQueue[b][1] = Third(b) /\ Third(b) \notin CleanWrite(b)
    BY <2>2, <2>4, <2>5, EntryTypes, CleanWrites
  <2>7. AccountRight(b)
    BY <2>4, <2>6 DEF Readable, Whole
  <2> QED  BY <2>4, <2>6, <2>7 DEF AccountRight, QueueRight
<1> QED  BY <1>1, <1>2

\* What a kill leaves of an account that is whole after it.
LEMMA RightKill ==
  ASSUME FsTypeOK, AllKilled, UNCHANGED <<begun, finished>>, NEW b \in Account, AccountRight(b), Whole(b)'
  PROVE  AccountRight(b)'
<1>1. PICK q, s, n, caught : /\ q = mutationQueue[b] /\ s = mutationQueue'[b]
                             /\ n = applied[b] /\ caught = caughtUp[b]
  OBVIOUS
<1>2. /\ q \in Seq(Mutation) /\ n \in Nat
      /\ s \in Seq(Mutation) /\ \A i \in 1..Len(s) : i \in 1..Len(q) /\ s[i] = q[i]
  BY <1>1, ClientTypes, SameTypes, Lemmas!KilledQueues DEF AllKilled
<1>w. PICK writing, signed : writing = (b \in begun \ finished) /\ signed = (b \in begun)
  OBVIOUS
<1>3. writing \in BOOLEAN /\ signed \in BOOLEAN
  BY <1>w
<1>4. Right(b, docs[Buffer(b)], remoteDocs[b][Buffer(b)], q, n, caught, writing, signed)
  BY <1>1, <1>w, RightIs
<1>5. writing => \E k \in 1..Len(s) : s[k] = Third(b)
  BY <1>1, <1>w DEF Whole
<1>6. Right(b, docs[Buffer(b)], remoteDocs[b][Buffer(b)], s, 0, {}, writing, signed)
  BY <1>2, <1>3, <1>4, <1>5, RightCut
<1>7. /\ UNCHANGED <<docs, remoteDocs>> /\ applied'[b] = 0 /\ caughtUp'[b] = {}
  BY DEF AllKilled, Lemmas!Killed
<1>8. Right(b, docs'[Buffer(b)], remoteDocs'[b][Buffer(b)], mutationQueue'[b], applied'[b], caughtUp'[b],
            b \in begun' \ finished', b \in begun')
  BY <1>1, <1>6, <1>7, <1>w
<1> QED  BY <1>8, NextRightIs

LEMMA CleanAdded ==
  ASSUME FsTypeOK, NEW a \in Account, AccountRight(a), NEW m \in CleanWrite(a)
  PROVE  QueueRight(a, mutationQueue[a] \o <<m>>, a \in begun \ finished)
<1>1. PICK q, writing : q = mutationQueue[a] /\ writing = (a \in begun \ finished)
  OBVIOUS
<1>2. mutationQueue[a] \in Seq(Mutation) /\ QueueRight(a, mutationQueue[a], a \in begun \ finished)
  BY ClientTypes DEF AccountRight
<1>3. q \in Seq(Mutation) /\ QueueRight(a, q, writing)
  BY <1>1, <1>2
<1>4. writing \in BOOLEAN
  BY <1>1
<1>5. \A r \in Seq(Mutation) : QueueRight(a, r, writing) => QueueRight(a, r \o <<m>>, writing)
  BY <1>4, QueueRightClean
<1>6. QueueRight(a, q \o <<m>>, writing)
  BY <1>3, <1>5
<1> QED  BY <1>1, <1>6

LEMMA StepRight ==
  ASSUME FsTypeOK, Readable, ClientSteps, NEW b \in Account, Whole(b)'
  PROVE  AccountRight(b)'
<1>r. AccountRight(b)
  BY WholeBefore DEF Readable
<1>f. finished \subseteq begun
  BY DEF Readable
<1>1. CASE UNCHANGED <<begun, finished>> /\ UNCHANGED clientVars
  BY <1>1, <1>r, RightSame DEF clientVars
<1>2. CASE UNCHANGED <<begun, finished>> /\ AllRestart
  BY <1>2, <1>r, RightRestart DEF AllRestart
<1>3. ASSUME NEW a \in Account, UNCHANGED <<begun, finished>>, Persist(a) PROVE AccountRight(b)'
  BY <1>3, <1>r, RightSame DEF Persist
<1>4. ASSUME NEW a \in Account, UNCHANGED <<begun, finished>>, Commit(a) PROVE AccountRight(b)'
  BY <1>4, <1>r, RightCommit
<1>5. ASSUME NEW a \in Account, UNCHANGED <<begun, finished>>, RestartStream(a) PROVE AccountRight(b)'
  <2>1. /\ applied'[a] = 0 /\ caughtUp'[a] = {} /\ UNCHANGED <<docs, remoteDocs, mutationQueue>>
        /\ b # a => applied'[b] = applied[b] /\ caughtUp'[b] = caughtUp[b]
    BY <1>5 DEF RestartStream, FsTypeOK
  <2>2. CASE b = a
    BY <1>5, <1>r, <2>1, <2>2, RightRestart
  <2>3. CASE b # a
    BY <1>5, <1>r, <2>1, <2>3, RightSame
  <2> QED  BY <2>2, <2>3
<1>6. ASSUME NEW a \in Account, UNCHANGED <<begun, finished>>, Watch(a, Buffer(a)) PROVE AccountRight(b)'
  BY <1>6, <1>r, RightWatch
<1>7. ASSUME NEW f \in Friend, NEW a \in Account, UNCHANGED <<begun, finished>>, Sends(f, a)
      PROVE  AccountRight(b)'
  BY <1>7, <1>r, RightSend
<1>8. ASSUME NEW a \in Account, NEW m \in Mutation, UNCHANGED <<begun, finished>>, WritesClean(a, m)
      PROVE  AccountRight(b)'
  <2>1. m \in CleanWrite(a) /\ LocallyWrite(a, <<m>>) /\ <<m>> \in Seq(Mutation)
    BY <1>8 DEF WritesClean
  <2>2. AccountRight(a) => QueueRight(a, mutationQueue[a] \o <<m>>, a \in begun' \ finished')
    BY <1>8, <2>1, CleanAdded
  <2> QED  BY <1>8, <1>r, <2>1, <2>2, RightWrite
<1>9. ASSUME NEW a \in Account, begun' = begun, Answers(a) PROVE AccountRight(b)'
  BY <1>9, <1>r, RightAnswer
<1>10. ASSUME NEW a \in Account, finished' = finished, SignsUp(a) PROVE AccountRight(b)'
  <2>1. /\ a \notin begun /\ begun' = begun \cup {a} /\ LocallyWrite(a, SignUpWrites(a))
        /\ SignUpWrites(a) \in Seq(Mutation)
    BY <1>10, SignUpWritesAre DEF SignsUp
  <2>2. PICK q, s : q = mutationQueue[a] /\ s = mutationQueue[a] \o SignUpWrites(a)
    OBVIOUS
  <2>3. (a \in begun \ finished) = FALSE /\ (a \in begun' \ finished') = TRUE
    BY <1>10, <1>f, <2>1
  <2>4. AccountRight(a)
    BY <2>1 DEF Readable, Whole
  <2>5. q \in Seq(Mutation) /\ s = q \o SignUpWrites(a) /\ QueueRight(a, q, FALSE)
    BY <2>2, <2>3, <2>4, ClientTypes DEF AccountRight
  <2>6. QueueRight(a, s, TRUE) /\ \E i \in 1..Len(s) : s[i] = First(a)
    BY <2>5, QueueRightSignUp
  <2>7. QueueRight(a, mutationQueue[a] \o SignUpWrites(a), a \in begun' \ finished')
    BY <2>2, <2>3, <2>6
  <2>8. \E i \in 1..Len(mutationQueue[a] \o SignUpWrites(a)) :
          (mutationQueue[a] \o SignUpWrites(a))[i] = First(a)
    BY <2>2, <2>6
  <2> QED  BY <1>10, <1>r, <2>1, <2>7, <2>8, RightWrite
<1>11. CASE UNCHANGED <<begun, finished>> /\ AllKilled
  BY <1>11, <1>r, RightKill
<1> QED  BY <1>1, <1>2, <1>3, <1>4, <1>5, <1>6, <1>7, <1>8, <1>9, <1>10, <1>11 DEF ClientSteps

LEMMA NextReadable ==
  ASSUME finished' \subseteq begun', Lemmas!KeysKept(Permanent)',
         \A a \in Account : EntriesRight(a, mutationQueue[a])' /\ (Whole(a)' => AccountRight(a)')
  PROVE  Readable'
  BY DEF Readable

LEMMA StepReadable ==
  ASSUME FsTypeOK, Readable, ClientSteps
  PROVE  Readable'
<1>1. Lemmas!KeysKept(Permanent)'
  BY StepKeys DEF Readable
<1>2. \A a \in Account : EntriesRight(a, mutationQueue[a])' /\ (Whole(a)' => AccountRight(a)')
  BY StepEntries, StepRight
<1> QED  BY <1>1, <1>2, StepFinished, NextReadable

LEMMA InitReadable == Init => Readable
<1> SUFFICES ASSUME Init PROVE Readable
  OBVIOUS
<1>1. /\ \A a \in Account : mutationQueue[a] = << >> /\ applied[a] = 0 /\ caughtUp[a] = {}
      /\ \A a \in Account : \A p \in SessionPath : remoteDocs[a][p] = {}
      /\ \A p \in SessionPath : docs[p] = {} \/ docs[p] = {Exists}
      /\ begun = {} /\ finished = {}
  BY DEF Init
<1>2. Exists # UserID
  BY Fields
<1>3. \A a \in Account : AccountRight(a)
  <2> SUFFICES ASSUME NEW a \in Account PROVE AccountRight(a)
    OBVIOUS
  <2>1. UserID \notin docs[Buffer(a)] /\ UserID \notin remoteDocs[a][Buffer(a)]
    BY <1>1, <1>2, Paths
  <2>2. 1..Len(mutationQueue[a]) = {}
    BY <1>1
  <2> QED  BY <1>1, <2>1, <2>2 DEF AccountRight, QueueRight, CaughtRight, UserIDGoes
<1>4. Lemmas!KeysKept(Permanent)
  <2>1. \A a \in Account : 1..Len(mutationQueue[a]) = {} /\ 1..applied[a] = {} /\ caughtUp[a] = {}
    BY <1>1
  <2>2. \A a \in Account : \A p \in SessionPath : \A k : ~Lemmas!Has(remoteDocs[a][p], k)
    BY <1>1 DEF Lemmas!Has
  <2> QED  BY <2>1, <2>2 DEF Lemmas!KeysKept
<1>5. \A a \in Account : EntriesRight(a, mutationQueue[a])
  <2>1. \A a \in Account : 1..Len(mutationQueue[a]) = {}
    BY <1>1
  <2> QED  BY <2>1 DEF EntriesRight
<1> QED  BY <1>1, <1>3, <1>4, <1>5 DEF Readable

LEMMA CanBeCast ==
  ASSUME FsTypeOK, Readable, NEW a \in Account, a \in finished
  PROVE  Castable(Seen(a)) /\ Castable(remoteDocs[a][Buffer(a)])
<1> DEFINE q == mutationQueue[a]
           cached == remoteDocs[a][Buffer(a)]
<1>1. q \in Seq(Mutation) /\ cached \in Document /\ Buffer(a) \in SessionPath
  BY ClientTypes, Paths
<1>2. a \in begun /\ a \notin begun \ finished /\ AccountRight(a)
  BY DEF Readable, Whole
<1>3. \A i \in 1..Len(q) : /\ q[i] \in CleanWrite(a) /\ q[i] \notin {First(a), Second(a), Third(a)}
                           /\ UserID \notin q[i].fields
  <2>1. \A i \in 1..Len(q) : q[i] \in CleanWrite(a)
    BY <1>2 DEF AccountRight, QueueRight
  <2> QED  BY <2>1, CleanWrites
<1>4. UserID \notin cached
  BY <1>2, <1>3 DEF AccountRight, UserIDGoes
<1>5. Exists \in cached
  BY <1>2, <1>3 DEF AccountRight, BufferComes
<1>6. ASSUME clientUser = a PROVE Exists \in Seen(a) /\ UserID \notin Seen(a)
  <2>1. PICK view : view = Lemmas!LocalView(cached, q, Buffer(a))
    OBVIOUS
  <2>2. Seen(a) = view
    BY <1>6, <2>1, SameView DEF Seen, View
  <2>3. UserID \in view =>
          \/ UserID \in cached
          \/ \E i \in 1..Len(q) : UserID \in q[i].fields
    <3>1. q \in Seq(Lemmas!Mutation) /\ cached \in Lemmas!Document
      BY <1>1, SameTypes
    <3>2. UserID \in Lemmas!LocalView(cached, q, Buffer(a)) <=>
            \/ UserID \in cached /\ Lemmas!Survives(UserID, q, 1, Buffer(a))
            \/ \E i \in 1..Len(q) : /\ q[i].path = Buffer(a)
                                    /\ UserID \in q[i].fields
                                    /\ Lemmas!Survives(UserID, q, i + 1, Buffer(a))
      BY <3>1, SameTypes, Lemmas!InView
    <3> QED  BY <2>1, <3>2
  <2>4. Exists \in view
    <3>1. Exists \in SessionField /\ Exists.key = "document"
      BY Fields
    <3>2. \A i \in 1..Len(q) : Lemmas!KeepsKeys(q[i], Permanent)
      BY DEF Readable, Lemmas!KeysKept
    <3>3. "document" \in Permanent[Buffer(a)]
      BY <1>1 DEF Permanent
    <3>4. Lemmas!Has(cached, "document")
      BY <1>1, <1>5, HasDocument
    <3>5. PICK K, k, c, r, p : K = Permanent /\ k = "document" /\ c = cached /\ r = q /\ p = Buffer(a)
      OBVIOUS
    <3>6. /\ r \in Seq(Lemmas!Mutation) /\ c \in Lemmas!Document /\ k \in K[p]
          /\ \A i \in 1..Len(r) : Lemmas!KeepsKeys(r[i], K)
      BY <1>1, <3>2, <3>3, <3>5, SameTypes
    <3>7. Lemmas!Has(Lemmas!LocalView(c, r, p), k) <=>
            \/ Lemmas!Has(c, k)
            \/ \E i \in 1..Len(r) : r[i].path = p /\ Lemmas!Has(r[i].fields, k)
      BY <3>6, Fields, SameTypes, Lemmas!KeysSeen
    <3>8. Lemmas!Has(view, "document")
      BY <2>1, <3>4, <3>5, <3>7
    <3>9. view \in Document
      BY <2>2, SeenType
    <3> QED  BY <3>8, <3>9, HasDocument
  <2> QED  BY <1>3, <1>4, <2>2, <2>3, <2>4
<1>7. clientUser # a => Seen(a) = cached
  BY DEF Seen
<1> QED  BY <1>4, <1>5, <1>6, <1>7 DEF Castable

LEMMA OwnWrites ==
  ASSUME Readable, NEW a \in Account, NEW i \in DOMAIN mutationQueue[a], FsTypeOK
  PROVE  mutationQueue[a][i].path.owner = a
<1>1. DOMAIN mutationQueue[a] = 1..Len(mutationQueue[a])
  BY ClientTypes
<1>2. mutationQueue[a][i] \in {First(a), Second(a), Third(a)} \cup CleanWrite(a)
  BY <1>1 DEF Readable, EntriesRight
<1> QED  BY <1>2, EntryTypes

LEMMA TypesAre ==
  ASSUME Types, Flow, Readable
  PROVE  TypeOK
<1>1. DOMAIN mainQueue = 1..Len(mainQueue)
  BY DEF Types, ScreenTypes
<1>2. \/ currentUser = clientUser /\ \A i \in DOMAIN mainQueue : mainQueue[i].kind # "auth"
      \/ \E i \in DOMAIN mainQueue :
           /\ mainQueue[i].kind = "auth" /\ mainQueue[i].user = currentUser
           /\ \A j \in DOMAIN mainQueue : j > i => mainQueue[j].kind # "auth"
  BY <1>1 DEF Flow, LastAuth, Queued
<1>3. screen \in {"tabs", "chat"} => currentUser # NoOne
  <2>1. NoOne \notin Listened
    BY SessionAssumption DEF Types, ScreenTypes
  <2> QED  BY <2>1 DEF Flow, TabsRight
<1>4. \A a \in Account : \A i \in DOMAIN mutationQueue[a] : mutationQueue[a][i].path.owner = a
  BY OwnWrites DEF Types
<1> QED  BY <1>2, <1>3, <1>4 DEF TypeOK, Types, ScreenTypes
-----------------------------------------------------------------------------
(***************************************************************************)
(* The badges settle on what an account with a listener sees.              *)
(***************************************************************************)
LEMMA LatestLonger ==
  ASSUME NEW q \in Seq(Event), NEW r \in Seq(Event), NEW s, s = q \o r,
         \A i \in 1..Len(r) : r[i].kind # "buffer",
         NEW shown, NEW friends, IsLatest(q, shown, friends)
  PROVE  IsLatest(s, shown, friends)
<1>1. /\ Len(s) = Len(q) + Len(r) /\ Len(q) \in Nat
      /\ \A i \in 1..Len(q) : i \in 1..Len(s) /\ s[i] = q[i]
      /\ \A i \in 1..Len(s) : \/ i \in 1..Len(q) /\ s[i] = q[i]
                              \/ i - Len(q) \in 1..Len(r) /\ s[i] = r[i - Len(q)]
  BY Concat
<1>2. \A i \in 1..Len(s) : s[i].kind = "buffer" => i \in 1..Len(q) /\ s[i] = q[i]
  BY <1>1
<1>3. CASE shown = friends /\ ~Queued(q, "buffer")
  BY <1>2, <1>3 DEF IsLatest, Queued
<1>4. ASSUME NEW i \in 1..Len(q), q[i].kind = "buffer", FriendsIn(q[i].doc) = friends,
             \A j \in 1..Len(q) : j > i => q[j].kind # "buffer"
      PROVE  IsLatest(s, shown, friends)
  <2>1. i \in 1..Len(s) /\ s[i] = q[i]
    BY <1>1
  <2>2. \A j \in 1..Len(s) : j > i => s[j].kind # "buffer"
    BY <1>2, <1>4
  <2> QED  BY <1>4, <2>1, <2>2 DEF IsLatest
<1> QED  BY <1>3, <1>4 DEF IsLatest

LEMMA LatestNew ==
  ASSUME NEW q \in Seq(Event), NEW r \in Seq(Event), NEW s, s = q \o r, r # << >>,
         \A i \in 1..Len(r) : r[i].kind = "buffer", NEW shown
  PROVE  IsLatest(s, shown, FriendsIn(r[Len(r)].doc))
<1>1. /\ Len(s) = Len(q) + Len(r) /\ Len(q) \in Nat /\ Len(r) \in Nat
      /\ \A i \in 1..Len(r) : i + Len(q) \in 1..Len(s) /\ s[i + Len(q)] = r[i]
  BY Concat
<1>2. Len(r) \in 1..Len(r)
  BY <1>1
<1>3. Len(s) \in 1..Len(s) /\ s[Len(s)] = r[Len(r)]
  <2>1. Len(r) + Len(q) \in 1..Len(s) /\ s[Len(r) + Len(q)] = r[Len(r)]
    BY <1>1, <1>2
  <2>2. Len(r) + Len(q) = Len(s)
    BY <1>1
  <2> QED  BY <2>1, <2>2
<1>4. \A j \in 1..Len(s) : ~(j > Len(s))
  BY <1>1
<1> QED  BY <1>2, <1>3, <1>4 DEF IsLatest

LEMMA LatestRest ==
  ASSUME NEW q \in Seq(Event), q # << >>, NEW s, s = Tail(q),
         NEW shown, NEW friends, IsLatest(q, shown, friends)
  PROVE  IsLatest(s, IF q[1].kind = "buffer" THEN FriendsIn(q[1].doc) ELSE shown, friends)
<1>1. /\ Len(q) = Len(s) + 1 /\ Len(s) \in Nat /\ 1 \in 1..Len(q)
      /\ \A i \in 1..Len(s) : i + 1 \in 1..Len(q) /\ s[i] = q[i + 1]
      /\ \A i \in 1..Len(q) : i # 1 => i - 1 \in 1..Len(s) /\ s[i - 1] = q[i]
  BY Rest
<1>2. CASE shown = friends /\ ~Queued(q, "buffer")
  BY <1>1, <1>2 DEF IsLatest, Queued
<1>3. ASSUME NEW i \in 1..Len(q), q[i].kind = "buffer", FriendsIn(q[i].doc) = friends,
             \A j \in 1..Len(q) : j > i => q[j].kind # "buffer"
      PROVE  IsLatest(s, IF q[1].kind = "buffer" THEN FriendsIn(q[1].doc) ELSE shown, friends)
  <2>1. CASE i = 1
    <3>1. \A j \in 1..Len(s) : s[j].kind # "buffer"
      BY <1>1, <1>3, <2>1
    <3> QED  BY <1>3, <2>1, <3>1 DEF IsLatest, Queued
  <2>2. CASE i # 1
    <3>1. i - 1 \in 1..Len(s) /\ s[i - 1] = q[i]
      BY <1>1, <2>2
    <3>2. \A j \in 1..Len(s) : j > i - 1 => s[j].kind # "buffer"
      BY <1>1, <1>3
    <3> QED  BY <1>3, <3>1, <3>2 DEF IsLatest
  <2> QED  BY <2>1, <2>2
<1> QED  BY <1>2, <1>3 DEF IsLatest

LEMMA NextSettling ==
  ASSUME NEW i, i \in 1..Len(listeners'), listeners'[i].told,
         IsLatest(mainQueue', bufferChat', FriendsIn(NewSeen(listeners'[i].account)))
  PROVE  Settling'
<1>1. NewSeen(listeners'[i].account) = Seen(listeners[i].account)'
  BY DEF Seen, NewSeen, View, LocalView, Survives, Overwrites
<1> QED  BY <1>1 DEF Settling, IsLatest, Queued, FriendsIn

\* No listener is told; what the old ones see stays.
LEMMA SettlingQuiet ==
  ASSUME Types, Settling, Running' => Running,
         \A i \in 1..Len(listeners) : listeners[i].told =>
           /\ i \in 1..Len(listeners') /\ listeners'[i].told
           /\ listeners'[i].account = listeners[i].account
           /\ NewSeen(listeners[i].account) = Seen(listeners[i].account),
         \A i \in 1..Len(listeners') : listeners'[i].told =>
           \E j \in 1..Len(listeners) : listeners[j].told,
         \A friends : IsLatest(mainQueue, bufferChat, friends) => IsLatest(mainQueue', bufferChat', friends)
  PROVE  Settling'
<1>1. CASE ~Running' \/ ~\E i \in 1..Len(listeners') : listeners'[i].told
  BY <1>1 DEF Settling, Running
<1>2. CASE Running' /\ \E i \in 1..Len(listeners') : listeners'[i].told
  <2>1. PICK i \in 1..Len(listeners) :
          /\ listeners[i].told
          /\ IsLatest(mainQueue, bufferChat, FriendsIn(Seen(listeners[i].account)))
    BY <1>2 DEF Settling
  <2>2. IsLatest(mainQueue', bufferChat', FriendsIn(NewSeen(listeners'[i].account)))
    BY <2>1
  <2> QED  BY <2>1, <2>2, NextSettling
<1> QED  BY <1>1, <1>2

LEMMA NewsSettle ==
  ASSUME Types, SameListeners, NEW waiting \in Seq(Event), NEW new \in Seq(Event), NEW accounts,
         mainQueue' = waiting \o new, News(new, accounts), new # << >>
  PROVE  Settling'
<1>1. Len(new) \in Nat /\ Len(new) \in 1..Len(new)
  OBVIOUS
<1>2. ASSUME NEW i \in 1..Len(new) PROVE new[i].kind = "buffer" /\ new[i].doc = NewSeen(new[i].account)
  <2>1. PICK a, doc : a = new[i].account /\ doc = NewSeen(new[i].account)
    OBVIOUS
  <2>2. new[i] = Snapshot(a, doc)
    BY <2>1 DEF News
  <2>3. new[i].kind = "buffer" /\ new[i].doc = doc
    BY <2>2 DEF Snapshot
  <2> QED  BY <2>1, <2>3
<1>3. PICK k \in 1..Len(listeners) : listeners[k].account = new[Len(new)].account /\ listeners'[k].told
  BY <1>1 DEF News
<1>4. PICK s : s = mainQueue'
  OBVIOUS
<1>5. IsLatest(s, bufferChat', FriendsIn(new[Len(new)].doc))
  BY <1>2, <1>4, LatestNew
<1>6. k \in 1..Len(listeners') /\ listeners'[k].account = listeners[k].account
  BY <1>3 DEF SameListeners
<1>7. IsLatest(mainQueue', bufferChat', FriendsIn(NewSeen(listeners'[k].account)))
  BY <1>1, <1>2, <1>3, <1>4, <1>5, <1>6
<1> QED  BY <1>3, <1>6, <1>7, NextSettling

LEMMA NobodySettles ==
  ASSUME Types, Settling, SameListeners, NEW accounts, NEW now, NobodyTold(accounts, now), Running' => Running,
         \A a \in Listened : a \notin accounts => NewSeen(a) = Seen(a),
         \A friends : IsLatest(mainQueue, bufferChat, friends) => IsLatest(mainQueue', bufferChat', friends)
  PROVE  Settling'
<1>1. listeners \in Seq(Listener)
  BY DEF Types, ScreenTypes
<1>2. ASSUME NEW i \in 1..Len(listeners), listeners[i].told
      PROVE  /\ i \in 1..Len(listeners') /\ listeners'[i].told
             /\ listeners'[i].account = listeners[i].account
             /\ NewSeen(listeners[i].account) = Seen(listeners[i].account)
  <2>1. listeners[i].account \in Listened
    BY <1>1, ListenedIs
  <2>2. listeners[i].account \in accounts => NewSeen(listeners[i].account) = Seen(listeners[i].account)
    BY <1>2 DEF NobodyTold, IsTold
  <2> QED  BY <1>2, <2>1, <2>2 DEF SameListeners
<1>3. \A i \in 1..Len(listeners') : listeners'[i].told => \E j \in 1..Len(listeners) : listeners[j].told
  BY DEF NobodyTold, SameListeners
<1> QED  BY <1>2, <1>3, SettlingQuiet

LEMMA SettlingTold ==
  ASSUME Types, Settling, FsTypeOK', NEW waiting \in Seq(Event), NEW accounts, NEW now,
         Tell(waiting, accounts, now), Running' => Running,
         \A a \in Listened : a \notin accounts => NewSeen(a) = Seen(a),
         \A friends : IsLatest(mainQueue, bufferChat, friends) => IsLatest(waiting, bufferChat', friends)
  PROVE  Settling'
<1>1. SameListeners
  BY Told
<1>2. PICK new \in Seq(Event) : /\ mainQueue' = waiting \o new /\ News(new, accounts)
                                /\ new = << >> => NobodyTold(accounts, now)
  BY Told
<1>3. CASE new = << >>
  <2>1. mainQueue' = waiting
    BY <1>2, <1>3
  <2> QED  BY <1>1, <1>2, <1>3, <2>1, NobodySettles
<1>4. CASE new # << >>
  BY <1>1, <1>2, <1>4, NewsSettle
<1> QED  BY <1>3, <1>4

LEMMA SettlingTabBar ==
  ASSUME Types, Settling, Running, NEW waiting \in Seq(Event), NewTabBar(waiting),
         UNCHANGED <<clientVars, clientUser>>,
         \A friends : IsLatest(mainQueue, bufferChat, friends) => IsLatest(waiting, bufferChat', friends)
  PROVE  Settling'
<1>1. \A a : NewSeen(a) = Seen(a)
  BY DEF Seen, NewSeen, View, clientVars
<1>2. CASE currentUser = NoOne /\ screen' = "crashed"
  BY <1>2 DEF Settling, Running
<1>3. ASSUME NEW first \in Seq(Event), NEW l \in Listener,
             first = IF Exists \in Seen(currentUser)
                     THEN <<Snapshot(currentUser, Seen(currentUser))>> ELSE << >>,
             l.account = currentUser, l.told = (first # << >>),
             mainQueue' = waiting \o first, listeners' = Append(listeners, l)
      PROVE  Settling'
  <2>1. /\ Len(listeners') = Len(listeners) + 1 /\ Len(listeners) \in Nat /\ listeners'[Len(listeners')] = l
        /\ \A i \in 1..Len(listeners) : i \in 1..Len(listeners') /\ listeners'[i] = listeners[i]
        /\ \A i \in 1..Len(listeners') : i \in 1..Len(listeners) \/ i = Len(listeners')
    BY <1>3, Added DEF Types, ScreenTypes
  <2>2. CASE first = << >>
    <3>e. l.told = FALSE
      BY <1>3, <2>2
    <3>1. mainQueue' = waiting /\ ~l.told
      <4>1. waiting \o << >> = waiting
        OBVIOUS
      <4> QED  BY <1>3, <2>2, <3>e, <4>1
    <3>2. \A i \in 1..Len(listeners') : listeners'[i].told => \E j \in 1..Len(listeners) : listeners[j].told
      BY <2>1, <3>1
    <3>3. \A i \in 1..Len(listeners) : listeners[i].told =>
            /\ i \in 1..Len(listeners') /\ listeners'[i].told
            /\ listeners'[i].account = listeners[i].account
            /\ NewSeen(listeners[i].account) = Seen(listeners[i].account)
      BY <1>1, <2>1
    <3> QED  BY <3>1, <3>2, <3>3, SettlingQuiet
  <2>3. CASE first # << >>
    <3>1. first = <<Snapshot(currentUser, Seen(currentUser))>>
      BY <1>3, <2>3
    <3>2. /\ Len(first) = 1 /\ first[1].kind = "buffer" /\ first[1].doc = Seen(currentUser)
      BY <3>1 DEF Snapshot
    <3>3. PICK s : s = mainQueue'
      OBVIOUS
    <3>d. s = waiting \o first /\ \A i \in 1..Len(first) : first[i].kind = "buffer"
      BY <1>3, <3>2, <3>3
    <3>4. IsLatest(s, bufferChat', FriendsIn(first[Len(first)].doc))
      BY <2>3, <3>d, LatestNew
    <3>f. first[Len(first)].doc = NewSeen(currentUser)
      BY <1>1, <3>2
    <3>5. IsLatest(mainQueue', bufferChat', FriendsIn(NewSeen(currentUser)))
      BY <3>3, <3>4, <3>f
    <3>e. l.told = TRUE
      BY <1>3, <2>3
    <3>6. Len(listeners') \in 1..Len(listeners') /\ l.told
      BY <2>1, <3>e
    <3>7. IsLatest(mainQueue', bufferChat', FriendsIn(NewSeen(listeners'[Len(listeners')].account)))
      BY <1>3, <2>1, <3>5
    <3> QED  BY <2>1, <3>6, <3>7, NextSettling
  <2> QED  BY <2>2, <2>3
<1> QED  BY <1>2, <1>3, TabBar

LEMMA SeenStays ==
  ASSUME NEW a, clientUser' = clientUser,
         remoteDocs'[a] = remoteDocs[a], mutationQueue'[a] = mutationQueue[a]
  PROVE  NewSeen(a) = Seen(a)
  BY DEF Seen, NewSeen, View

\* What is left of the badges on screen is what OpenChat writes.
LEMMA CleanedFriends ==
  ASSUME NEW f, bufferChat \subseteq Friend
  PROVE  FriendsIn(Cleaned(f)) = bufferChat \ {f} /\ Exists \in Cleaned(f)
<1>1. \A g \in Friend : Badge(g) \in Cleaned(f) <=> g \in bufferChat \ {f}
  <2> SUFFICES ASSUME NEW g \in Friend PROVE Badge(g) \in Cleaned(f) <=> g \in bufferChat \ {f}
    OBVIOUS
  <2>1. Badge(g) # Exists /\ \A h : Badge(g) = Badge(h) => g = h
    BY Fields
  <2> QED  BY <2>1 DEF Cleaned
<1>2. Exists \in Cleaned(f)
  BY DEF Cleaned
<1>3. FriendsIn(Cleaned(f)) \subseteq bufferChat \ {f}
  BY <1>1 DEF FriendsIn
<1>4. bufferChat \ {f} \subseteq FriendsIn(Cleaned(f))
  BY <1>1 DEF FriendsIn
<1> QED  BY <1>2, <1>3, <1>4

LEMMA SeenCleaned ==
  ASSUME Types, Flow, NEW f \in Friend, OpenChat(f)
  PROVE  NewSeen(currentUser) = Cleaned(f)
<1>1. /\ currentUser \in Account /\ clientUser = currentUser
      /\ LocallyWrite(currentUser, <<Put(Buffer(currentUser), Cleaned(f))>>)
  BY OpenChatWrites
<1>2. PICK m, q, doc : /\ m = Put(Buffer(currentUser), Cleaned(f)) /\ q = mutationQueue[currentUser]
                       /\ doc = remoteDocs[currentUser][Buffer(currentUser)]
  OBVIOUS
<1>3. m \in CleanWrite(currentUser)
  BY <1>1, <1>2, CleanedIs DEF Types, ScreenTypes
<1>4. m \in Mutation /\ ~m.merge /\ m.path = Buffer(currentUser) /\ m.fields = Cleaned(f)
  <2>1. m \in Mutation /\ ~m.merge /\ m.path = Buffer(currentUser)
    BY <1>1, <1>3, CleanWrites
  <2>2. m.fields = Cleaned(f)
    BY <1>2 DEF Put
  <2> QED  BY <2>1, <2>2
<1>5. q \in Seq(Mutation) /\ doc \in Document
  BY <1>1, <1>2, Paths, ClientTypes DEF Types
<1>6. Lemmas!LocalView(doc, q \o <<m>>, m.path) = m.fields
  BY <1>4, <1>5, SameTypes, Lemmas!ViewOfReplacing
<1>7. LocalView(doc, q \o <<m>>, Buffer(currentUser)) = Cleaned(f)
  BY <1>4, <1>6, SameView
<1>8. /\ mutationQueue'[currentUser] = q \o <<m>> /\ remoteDocs' = remoteDocs /\ clientUser' = clientUser
  BY <1>1, <1>2 DEF LocallyWrite, OpenChat, Types, FsTypeOK
<1> QED  BY <1>1, <1>2, <1>7, <1>8 DEF NewSeen

LEMMA SettlingOpenChat ==
  ASSUME Types, Flow, Settling, FsTypeOK', NEW f \in Friend, OpenChat(f)
  PROVE  Settling'
<1>1. /\ currentUser \in Account /\ clientUser = currentUser /\ currentUser \in Listened
      /\ LocallyWrite(currentUser, <<Put(Buffer(currentUser), Cleaned(f))>>)
      /\ Tell(mainQueue, {currentUser}, FALSE)
  BY OpenChatWrites
<1>2. Running /\ bufferChat' = bufferChat \ {f} /\ clientUser' = clientUser
  BY DEF OpenChat, Running
<1>3. mainQueue \in Seq(Event) /\ bufferChat \subseteq Friend /\ listeners \in Seq(Listener)
      /\ Listened \subseteq Account
  BY DEF Types, ScreenTypes
<1>t. PICK waiting, accounts, now : waiting = mainQueue /\ accounts = {currentUser} /\ now = FALSE
  OBVIOUS
<1>u. waiting \in Seq(Event) /\ Tell(waiting, accounts, now)
  BY <1>1, <1>3, <1>t
<1>4. SameListeners
  BY <1>u, Told
<1>5. PICK new \in Seq(Event) : /\ mainQueue' = waiting \o new /\ News(new, accounts)
                                /\ new = << >> => NobodyTold(accounts, now)
  BY <1>u, Told
<1>6. CASE new # << >>
  BY <1>u, <1>4, <1>5, <1>6, NewsSettle
<1>7. CASE new = << >>
  <2>q. waiting \o << >> = waiting
    BY <1>u
  <2>1. mainQueue' = mainQueue /\ NobodyTold({currentUser}, FALSE)
    <3>1. NobodyTold(accounts, now) /\ mainQueue' = waiting
      BY <1>5, <1>7, <2>q
    <3> QED  BY <1>t, <3>1
  <2>2. CASE Queued(mainQueue, "buffer")
    <3>1. \A friends : IsLatest(mainQueue, bufferChat, friends) => IsLatest(mainQueue', bufferChat', friends)
      BY <2>1, <2>2 DEF IsLatest
    <3>2. ASSUME NEW a \in Listened, a \notin {currentUser} PROVE NewSeen(a) = Seen(a)
      <4>1. remoteDocs'[a] = remoteDocs[a] /\ mutationQueue'[a] = mutationQueue[a]
        BY <1>1, <3>2 DEF LocallyWrite, Types, FsTypeOK
      <4> QED  BY <1>2, <4>1, SeenStays
    <3> QED  BY <1>2, <1>4, <2>1, <3>1, <3>2, NobodySettles
  <2>3. CASE ~Queued(mainQueue, "buffer")
    <3>1. PICK k \in 1..Len(listeners) : listeners[k].account = currentUser
      BY <1>1, <1>3, ListenedIs
    <3>2. NewSeen(currentUser) = Cleaned(f)
      BY SeenCleaned
    <3>3. FriendsIn(NewSeen(currentUser)) = bufferChat' /\ Exists \in NewSeen(currentUser)
      BY <1>2, <1>3, <3>2, CleanedFriends
    <3>4. listeners'[k].told = listeners[k].told /\ listeners[k].told
      BY <2>1, <3>1, <3>3 DEF NobodyTold, IsTold
    <3>5. k \in 1..Len(listeners') /\ listeners'[k].account = currentUser
      BY <1>4, <3>1 DEF SameListeners
    <3>6. IsLatest(mainQueue', bufferChat', FriendsIn(NewSeen(listeners'[k].account)))
      BY <2>1, <2>3, <3>3, <3>5 DEF IsLatest
    <3> QED  BY <3>4, <3>5, <3>6, NextSettling
  <2> QED  BY <2>2, <2>3
<1> QED  BY <1>6, <1>7

\* What a turn of the main thread leaves, and what is added to the queue.
LEMMA LatestTurn ==
  ASSUME Types, mainQueue # << >>, NEW shown,
         shown = IF Head(mainQueue).kind = "buffer" THEN FriendsIn(Head(mainQueue).doc) ELSE bufferChat
  PROVE  \A friends : IsLatest(mainQueue, bufferChat, friends) => IsLatest(Tail(mainQueue), shown, friends)
<1> SUFFICES ASSUME NEW friends, IsLatest(mainQueue, bufferChat, friends)
             PROVE  IsLatest(Tail(mainQueue), shown, friends)
  OBVIOUS
<1>1. PICK q, s, c : q = mainQueue /\ s = Tail(mainQueue) /\ c = bufferChat
  OBVIOUS
<1>2. q \in Seq(Event) /\ q # << >> /\ s = Tail(q) /\ IsLatest(q, c, friends)
  BY <1>1 DEF Types, ScreenTypes
<1>3. Head(q) = q[1]
  BY <1>2, Rest
<1>4. IsLatest(s, IF q[1].kind = "buffer" THEN FriendsIn(q[1].doc) ELSE c, friends)
  BY <1>2, LatestRest
<1>5. shown = IF q[1].kind = "buffer" THEN FriendsIn(q[1].doc) ELSE c
  BY <1>1, <1>3
<1>6. IsLatest(s, shown, friends)
  BY <1>4, <1>5
<1> QED  BY <1>1, <1>6

LEMMA LatestAdded ==
  ASSUME Types, NEW r \in Seq(Event), \A i \in 1..Len(r) : r[i].kind # "buffer"
  PROVE  \A friends : IsLatest(mainQueue, bufferChat, friends) => IsLatest(mainQueue \o r, bufferChat, friends)
<1> SUFFICES ASSUME NEW friends, IsLatest(mainQueue, bufferChat, friends)
             PROVE  IsLatest(mainQueue \o r, bufferChat, friends)
  OBVIOUS
<1>1. PICK q, s, c : q = mainQueue /\ s = mainQueue \o r /\ c = bufferChat
  OBVIOUS
<1>2. q \in Seq(Event) /\ s = q \o r /\ IsLatest(q, c, friends)
  BY <1>1 DEF Types, ScreenTypes
<1>3. IsLatest(s, c, friends)
  BY <1>2, LatestLonger
<1> QED  BY <1>1, <1>3

LEMMA SettlingSame ==
  ASSUME Types, Settling, Running' => Running, listeners' = listeners,
         \A a \in Listened : NewSeen(a) = Seen(a),
         \A friends : IsLatest(mainQueue, bufferChat, friends) => IsLatest(mainQueue', bufferChat', friends)
  PROVE  Settling'
<1>1. \A i \in 1..Len(listeners) : listeners[i].account \in Listened
  BY ListenedIs DEF Types, ScreenTypes
<1>2. \A i \in 1..Len(listeners) : listeners[i].told =>
        /\ i \in 1..Len(listeners') /\ listeners'[i].told
        /\ listeners'[i].account = listeners[i].account
        /\ NewSeen(listeners[i].account) = Seen(listeners[i].account)
  BY <1>1
<1>3. \A i \in 1..Len(listeners') : listeners'[i].told => \E j \in 1..Len(listeners) : listeners[j].told
  OBVIOUS
<1> QED  BY <1>2, <1>3, SettlingQuiet

LEMMA InitSettling == Init => Settling
<1> SUFFICES ASSUME Init PROVE Settling
  OBVIOUS
<1>1. 1..Len(listeners) = {}
  BY DEF Init
<1> QED  BY <1>1 DEF Settling

LEMMA StepSettling ==
  ASSUME Types, Flow, Settling, FsTypeOK', [Next]_vars
  PROVE  Settling'
<1>q. mainQueue \in Seq(Event) /\ Listened \subseteq Account
  BY DEF Types, ScreenTypes
<1>s. UNCHANGED <<clientUser, remoteDocs, mutationQueue>> => \A a \in Listened : NewSeen(a) = Seen(a)
  BY SeenStays
<1>f. mainQueue' = mainQueue /\ bufferChat' = bufferChat =>
        \A friends : IsLatest(mainQueue, bufferChat, friends) => IsLatest(mainQueue', bufferChat', friends)
  OBVIOUS
<1>r. screen' = screen => (Running' => Running)
  BY DEF Running
\* A turn of the main thread without a snapshot.
<1>t. ASSUME mainQueue # << >>, Head(mainQueue).kind # "buffer"
      PROVE  /\ Tail(mainQueue) \in Seq(Event)
             /\ \A friends : IsLatest(mainQueue, bufferChat, friends) =>
                               IsLatest(Tail(mainQueue), bufferChat, friends)
  BY <1>t, TailType, LatestTurn
<1>1. ASSUME NEW a \in Account, LoginClick(a) \/ SignupClick(a) PROVE Settling'
  <2>1. UNCHANGED <<clientVars, clientUser, screenVars, mainQueue>>
    BY <1>1 DEF LoginClick, SignupClick, Ask
  <2>2. UNCHANGED <<clientUser, remoteDocs, mutationQueue, screen, listeners, bufferChat, mainQueue>>
    BY <2>1 DEF clientVars, screenVars
  <2> QED  BY <1>f, <1>r, <1>s, <2>2, SettlingSame
<1>2. CASE OtherScreen
  <2>1. /\ UNCHANGED <<clientUser, remoteDocs, mutationQueue, listeners, bufferChat, mainQueue>>
        /\ Running
    BY <1>2 DEF OtherScreen, clientVars, Running
  <2> QED  BY <1>f, <1>s, <2>1, SettlingSame
<1>3. CASE SignOut
  <2>1. /\ UNCHANGED <<clientUser, remoteDocs, mutationQueue, listeners, bufferChat>>
        /\ mainQueue' = Append(mainQueue, [kind |-> "auth", user |-> NoOne]) /\ Running
    BY <1>3 DEF SignOut, clientVars, Running
  <2>2. PICK e : e = [kind |-> "auth", user |-> NoOne]
    OBVIOUS
  <2>3. e \in Event /\ e.kind = "auth"
    BY <2>2 DEF Event, Person
  <2>4. /\ <<e>> \in Seq(Event) /\ \A i \in 1..Len(<<e>>) : <<e>>[i].kind # "buffer"
        /\ mainQueue' = mainQueue \o <<e>>
    BY <1>q, <2>1, <2>2, <2>3
  <2>5. \A friends : IsLatest(mainQueue, bufferChat, friends) => IsLatest(mainQueue', bufferChat', friends)
    BY <2>1, <2>4, LatestAdded
  <2> QED  BY <1>s, <2>1, <2>5, SettlingSame
<1>4. ASSUME NEW f \in Friend, OpenChat(f) PROVE Settling'
  BY <1>4, SettlingOpenChat
<1>5. CASE Back
  <2>1. Running /\ NewTabBar(mainQueue) /\ UNCHANGED <<clientVars, clientUser>> /\ bufferChat' = bufferChat
    BY <1>5 DEF Back, Running
  <2>2. \A friends : IsLatest(mainQueue, bufferChat, friends) => IsLatest(mainQueue, bufferChat', friends)
    BY <2>1
  <2> QED  BY <1>q, <2>1, <2>2, SettlingTabBar
<1>6. CASE CredentialDidChange
  <2>1. /\ mainQueue # << >> /\ Head(mainQueue).kind = "auth" /\ Tell(Tail(mainQueue), Listened, FALSE)
        /\ screen' = screen /\ bufferChat' = bufferChat
    BY <1>6 DEF CredentialDidChange, Turn
  <2>2. PICK waiting, accounts, now : waiting = Tail(mainQueue) /\ accounts = Listened /\ now = FALSE
    OBVIOUS
  <2>3. waiting \in Seq(Event) /\ Tell(waiting, accounts, now)
    BY <1>t, <2>1, <2>2
  <2>4. \A friends : IsLatest(mainQueue, bufferChat, friends) => IsLatest(waiting, bufferChat', friends)
    BY <1>t, <2>1, <2>2
  <2>5. \A a \in Listened : a \notin accounts => NewSeen(a) = Seen(a)
    BY <2>2
  <2> QED  BY <1>r, <2>1, <2>3, <2>4, <2>5, SettlingTold
<1>7. CASE SignedIn
  <2>1. /\ mainQueue # << >> /\ Head(mainQueue).kind = "signIn" /\ NewTabBar(Tail(mainQueue))
        /\ UNCHANGED <<clientVars, clientUser>> /\ bufferChat' = bufferChat /\ Running
    BY <1>7 DEF SignedIn, Turn, Running
  <2>2. \A friends : IsLatest(mainQueue, bufferChat, friends) => IsLatest(Tail(mainQueue), bufferChat', friends)
    BY <1>t, <2>1
  <2> QED  BY <1>t, <2>1, <2>2, SettlingTabBar
<1>8. CASE Created
  <2>1. /\ mainQueue # << >> /\ Head(mainQueue).kind = "signUp" /\ mainQueue' = Tail(mainQueue)
        /\ clientUser' = clientUser /\ listeners' = listeners /\ bufferChat' = bufferChat
    BY <1>8 DEF Created, Turn
  <2>2. /\ currentUser \in Account /\ currentUser \notin begun \cup Listened /\ screen' = screen
        /\ LocallyWrite(currentUser, SignUpWrites(currentUser))
    BY <1>8, CreatedWrites
  <2>3. ASSUME NEW a \in Listened PROVE NewSeen(a) = Seen(a)
    <3>1. a # currentUser /\ a \in Account
      BY <1>q, <2>2
    <3>2. remoteDocs'[a] = remoteDocs[a] /\ mutationQueue'[a] = mutationQueue[a]
      BY <2>2, <3>1 DEF LocallyWrite, Types, FsTypeOK
    <3> QED  BY <2>1, <3>2, SeenStays
  <2>4. \A friends : IsLatest(mainQueue, bufferChat, friends) => IsLatest(mainQueue', bufferChat', friends)
    BY <1>t, <2>1
  <2> QED  BY <1>r, <2>1, <2>2, <2>3, <2>4, SettlingSame
<1>9. CASE SignedUp
  <2>1. /\ mainQueue # << >> /\ Head(mainQueue).kind = "signedUp"
        /\ UNCHANGED <<clientVars, clientUser>> /\ bufferChat' = bufferChat /\ Running
    BY <1>9 DEF SignedUp, Turn, Running
  <2>2. \A friends : IsLatest(mainQueue, bufferChat, friends) => IsLatest(Tail(mainQueue), bufferChat', friends)
    BY <1>t, <2>1
  <2>3. CASE NewTabBar(Tail(mainQueue))
    BY <1>t, <2>1, <2>2, <2>3, SettlingTabBar
  <2>4. CASE mainQueue' = Tail(mainQueue) /\ UNCHANGED <<screen, listeners>>
    <3>1. UNCHANGED <<clientUser, remoteDocs, mutationQueue>>
      BY <2>1 DEF clientVars
    <3>2. \A friends : IsLatest(mainQueue, bufferChat, friends) => IsLatest(mainQueue', bufferChat', friends)
      BY <2>2, <2>4
    <3> QED  BY <1>r, <1>s, <2>4, <3>1, <3>2, SettlingSame
  <2> QED  BY <1>9, <2>3, <2>4 DEF SignedUp
<1>10. CASE BufferCallback
  <2>1. /\ mainQueue # << >> /\ Head(mainQueue).kind = "buffer" /\ mainQueue' = Tail(mainQueue)
        /\ UNCHANGED <<clientUser, remoteDocs, mutationQueue, listeners>>
    BY <1>10 DEF BufferCallback, Turn, clientVars
  <2>2. CASE bufferChat' = FriendsIn(Head(mainQueue).doc) /\ screen' = screen
    <3>1. \A friends : IsLatest(mainQueue, bufferChat, friends) => IsLatest(mainQueue', bufferChat', friends)
      <4>1. PICK shown : shown = FriendsIn(Head(mainQueue).doc)
        OBVIOUS
      <4>2. shown = IF Head(mainQueue).kind = "buffer" THEN FriendsIn(Head(mainQueue).doc) ELSE bufferChat
        BY <2>1, <4>1
      <4>3. \A friends : IsLatest(mainQueue, bufferChat, friends) => IsLatest(Tail(mainQueue), shown, friends)
        BY <2>1, <4>2, LatestTurn
      <4> QED  BY <2>1, <2>2, <4>1, <4>3
    <3> QED  BY <1>r, <1>s, <2>1, <2>2, <3>1, SettlingSame
  <2>3. CASE screen' = "crashed"
    BY <2>3 DEF Settling, Running
  <2> QED  BY <1>10, <2>2, <2>3 DEF BufferCallback
<1>11. CASE Answer
  <2>1. UNCHANGED <<clientVars, clientUser, screenVars>>
    BY <1>11 DEF Answer
  <2>2. UNCHANGED <<clientUser, remoteDocs, mutationQueue, screen, listeners, bufferChat>>
    BY <2>1 DEF clientVars, screenVars
  <2>3. PICK e, g : e = [kind |-> "auth", user |-> request[2]] /\ g = [kind |-> request[1]]
    OBVIOUS
  <2>4. request[1] \in {"signIn", "signUp"} /\ request[2] \in Account
    BY <1>11, RequestType DEF Answer
  <2>5. e \in Event /\ g \in Event /\ e.kind # "buffer" /\ g.kind # "buffer"
    BY <2>3, <2>4 DEF Event, Person
  <2>6. <<e, g>> \in Seq(Event) /\ \A i \in 1..Len(<<e, g>>) : <<e, g>>[i].kind # "buffer"
    BY <2>5
  <2>7. mainQueue' = mainQueue \o <<e, g>>
    BY <1>11, <2>3 DEF Answer
  <2>8. \A friends : IsLatest(mainQueue, bufferChat, friends) => IsLatest(mainQueue', bufferChat', friends)
    BY <2>2, <2>6, <2>7, LatestAdded
  <2> QED  BY <1>r, <1>s, <2>2, <2>8, SettlingSame
<1>12. ASSUME NEW e \in Messages, FriendSends(e[1], e[2]) PROVE Settling'
  <2>1. UNCHANGED <<clientUser, remoteDocs, mutationQueue, screen, listeners, bufferChat, mainQueue>>
    BY <1>12 DEF FriendSends, screenVars
  <2> QED  BY <1>f, <1>r, <1>s, <2>1, SettlingSame
<1>13. ASSUME NEW a \in Account, PersistWrite(a) \/ CommitWrite(a) \/ StreamBroken(a) PROVE Settling'
  <2>1. UNCHANGED <<clientUser, remoteDocs, mutationQueue, screen, listeners, bufferChat, mainQueue>>
    BY <1>13 DEF PersistWrite, CommitWrite, StreamBroken, Persist, Commit, RestartStream, screenVars
  <2> QED  BY <1>f, <1>r, <1>s, <2>1, SettlingSame
<1>14. ASSUME NEW a \in Account, WriteAnswered(a) PROVE Settling'
  <2> DEFINE more == Head(mutationQueue[a]).path = Profile(a) /\ signingUp = a
             e == [kind |-> "signedUp", account |-> a]
  <2>1. /\ Tell(IF more THEN Append(mainQueue, e) ELSE mainQueue, {a}, FALSE)
        /\ UNCHANGED <<clientUser, screen, bufferChat>>
    BY <1>14 DEF WriteAnswered
  <2>2. ASSUME NEW b \in Account, b # a PROVE NewSeen(b) = Seen(b)
    <3>1. remoteDocs'[b] = remoteDocs[b] /\ mutationQueue'[b] = mutationQueue[b]
      BY <1>14, <2>2 DEF WriteAnswered, Acknowledge, Types, FsTypeOK
    <3> QED  BY <2>1, <3>1, SeenStays
  <2>3. e \in Event /\ e.kind = "signedUp"
    BY DEF Event
  <2> HIDE DEF e, more
  <2>4. /\ <<e>> \in Seq(Event) /\ \A i \in 1..Len(<<e>>) : <<e>>[i].kind # "buffer"
        /\ Append(mainQueue, e) = mainQueue \o <<e>> /\ Append(mainQueue, e) \in Seq(Event)
    BY <1>q, <2>3
  <2>5. \A friends : IsLatest(mainQueue, bufferChat, friends) => IsLatest(mainQueue \o <<e>>, bufferChat, friends)
    BY <2>4, LatestAdded
  <2>6. PICK waiting, accounts, now :
          /\ waiting = (IF more THEN Append(mainQueue, e) ELSE mainQueue) /\ accounts = {a} /\ now = FALSE
    OBVIOUS
  <2>7. waiting \in Seq(Event) /\ Tell(waiting, accounts, now)
    BY <1>q, <2>1, <2>4, <2>6
  <2>8. \A friends : IsLatest(mainQueue, bufferChat, friends) => IsLatest(waiting, bufferChat', friends)
    BY <2>1, <2>4, <2>5, <2>6
  <2>9. \A b \in Listened : b \notin accounts => NewSeen(b) = Seen(b)
    BY <1>q, <2>2, <2>6
  <2> QED  BY <1>r, <2>1, <2>7, <2>8, <2>9, SettlingTold
<1>15. ASSUME NEW a \in Account, ReceiveSnapshot(a) \/ GoOffline(a) PROVE Settling'
  <2>1. Tell(mainQueue, {a}, TRUE) /\ UNCHANGED <<clientUser, screen, bufferChat>>
    BY <1>15 DEF ReceiveSnapshot, GoOffline
  <2>2. ASSUME NEW b \in Account, b # a PROVE NewSeen(b) = Seen(b)
    <3>1. remoteDocs'[b] = remoteDocs[b] /\ mutationQueue'[b] = mutationQueue[b]
      BY <1>15, <2>2 DEF ReceiveSnapshot, GoOffline, Watch, clientVars, Types, FsTypeOK
    <3> QED  BY <2>1, <3>1, SeenStays
  <2>3. PICK waiting, accounts, now : waiting = mainQueue /\ accounts = {a} /\ now = TRUE
    OBVIOUS
  <2>4. waiting \in Seq(Event) /\ Tell(waiting, accounts, now)
    BY <1>q, <2>1, <2>3
  <2>5. \A friends : IsLatest(mainQueue, bufferChat, friends) => IsLatest(waiting, bufferChat', friends)
    BY <2>1, <2>3
  <2>6. \A b \in Listened : b \notin accounts => NewSeen(b) = Seen(b)
    BY <1>q, <2>2, <2>3
  <2> QED  BY <1>r, <2>1, <2>4, <2>5, <2>6, SettlingTold
<1>16. CASE Relaunch
  <2>1. 1..Len(listeners') = {}
    BY <1>16 DEF Relaunch, FreshProcess
  <2> QED  BY <2>1 DEF Settling
<1>17. CASE UNCHANGED vars
  <2>1. UNCHANGED <<clientUser, remoteDocs, mutationQueue, screen, listeners, bufferChat, mainQueue>>
    BY <1>17 DEF vars, clientVars, screenVars
  <2> QED  BY <1>f, <1>r, <1>s, <2>1, SettlingSame
<1>18. CASE OnScreen
  BY <1>1, <1>2, <1>3, <1>4, <1>5, <1>18 DEF OnScreen
<1>19. CASE OnMain
  BY <1>6, <1>7, <1>8, <1>9, <1>10, <1>19 DEF OnMain
<1> QED
  BY <1>11, <1>12, <1>13, <1>14, <1>15, <1>16, <1>17, <1>18, <1>19 DEF Next

LEMMA BadgesAreSome ==
  ASSUME Types, Settling
  PROVE  BadgesAreSomebodys
<1>1. /\ DOMAIN listeners = 1..Len(listeners)
      /\ \A i \in 1..Len(listeners) : listeners[i].account \in Listened
  BY ListenedIs DEF Types, ScreenTypes
<1>2. ASSUME Running, mainQueue = << >>, NEW i \in 1..Len(listeners),
             IsLatest(mainQueue, bufferChat, FriendsIn(Seen(listeners[i].account)))
      PROVE  bufferChat = FriendsIn(Seen(listeners[i].account))
  <2>1. 1..Len(mainQueue) = {}
    BY <1>2
  <2> QED  BY <1>2, <2>1 DEF IsLatest
<1> QED  BY <1>1, <1>2 DEF BadgesAreSomebodys, Settling
-----------------------------------------------------------------------------
(***************************************************************************)
(* The badges of one account stay that account's.                          *)
(***************************************************************************)
LEMMA OwnFieldsAre ==
  ASSUME NEW sent
  PROVE  /\ \A a \in Account : OwnFields(sent)[Buffer(a)] =
              {Exists, UserID, NoUserID} \cup {Badge(f) : f \in Senders(sent, a)}
         /\ \A a \in Account : OwnFields(sent)[Profile(a)] = SessionField
  BY Paths DEF OwnFields

LEMMA OwnFieldsGrow ==
  ASSUME NEW sent, NEW more, sent \subseteq more, NEW p \in SessionPath
  PROVE  OwnFields(sent)[p] \subseteq OwnFields(more)[p]
<1>1. PICK a : a = p.owner
  OBVIOUS
<1>2. a \in Account /\ (p = Buffer(a) \/ p = Profile(a))
  BY <1>1, Paths
<1>3. Senders(sent, a) \subseteq Senders(more, a)
  BY DEF Senders
<1>4. CASE p = Buffer(a)
  <2>1. /\ OwnFields(sent)[p] = {Exists, UserID, NoUserID} \cup {Badge(f) : f \in Senders(sent, a)}
        /\ OwnFields(more)[p] = {Exists, UserID, NoUserID} \cup {Badge(f) : f \in Senders(more, a)}
    BY <1>2, <1>4, OwnFieldsAre
  <2> QED  BY <1>3, <2>1
<1>5. CASE p = Profile(a)
  BY <1>2, <1>5, OwnFieldsAre
<1> QED  BY <1>2, <1>4, <1>5

LEMMA NextOnlyFields ==
  ASSUME NEW A
  PROVE  Lemmas!OnlyFields(A)' <=>
    /\ \A a \in Account : \A i \in 1..Len(mutationQueue'[a]) :
         mutationQueue'[a][i].fields \subseteq A[mutationQueue'[a][i].path]
    /\ \A p \in SessionPath : docs'[p] \subseteq A[p]
    /\ \A a \in Account : \A p \in SessionPath : remoteDocs'[a][p] \subseteq A[p]
  BY DEF Lemmas!OnlyFields

OwnNext(A) ==
  /\ Lemmas!OnlyFields(A)'
  /\ \A a, b \in Listened' : a = b
  /\ WaitingOwn(mainQueue', Listened', A)
  /\ Listened' = {} => bufferChat' = {}
  /\ \A a \in Listened' : bufferChat' \subseteq Senders(sentTo', a)

LEMMA NextOwnBadges ==
  ASSUME NEW A, A = OwnFields(sentTo'), ~shared' => OwnNext(A)
  PROVE  OwnBadges'
<1>1. ~shared' => Lemmas!OnlyFields(OwnFields(sentTo))'
  BY NextOnlyFields DEF Lemmas!OnlyFields, OwnNext
<1> QED  BY <1>1 DEF OwnBadges, OwnNow, OwnNext, WaitingOwn, Senders

\* A view has no fields but those of the document and of the queue.
LEMMA ViewOwn ==
  ASSUME NEW doc \in Document, NEW q \in Seq(Mutation), NEW p, NEW S, doc \subseteq S,
         \A i \in 1..Len(q) : q[i].path = p => q[i].fields \subseteq S
  PROVE  LocalView(doc, q, p) \subseteq S
<1> SUFFICES ASSUME NEW f \in LocalView(doc, q, p) PROVE f \in S
  OBVIOUS
<1>1. f \in Lemmas!LocalView(doc, q, p)
  BY SameView
<1>2. q \in Seq(Lemmas!Mutation) /\ doc \in Lemmas!Document
  BY SameTypes
<1>3. \/ f \in doc /\ Lemmas!Survives(f, q, 1, p)
      \/ \E i \in 1..Len(q) : /\ q[i].path = p
                              /\ f \in q[i].fields
                              /\ Lemmas!Survives(f, q, i + 1, p)
  BY <1>1, <1>2, SameTypes, Lemmas!InView
<1> QED  BY <1>3

LEMMA SeenOwn ==
  ASSUME FsTypeOK, NEW A, Lemmas!OnlyFields(A), NEW a \in Account
  PROVE  Seen(a) \subseteq A[Buffer(a)]
<1>1. /\ Buffer(a) \in SessionPath /\ mutationQueue[a] \in Seq(Mutation)
      /\ remoteDocs[a][Buffer(a)] \in Document
  BY Paths, ClientTypes
<1>2. /\ remoteDocs[a][Buffer(a)] \subseteq A[Buffer(a)]
      /\ \A i \in 1..Len(mutationQueue[a]) : mutationQueue[a][i].path = Buffer(a) =>
           mutationQueue[a][i].fields \subseteq A[Buffer(a)]
  BY <1>1 DEF Lemmas!OnlyFields
<1>3. LocalView(remoteDocs[a][Buffer(a)], mutationQueue[a], Buffer(a)) \subseteq A[Buffer(a)]
  BY <1>1, <1>2, ViewOwn
<1> QED  BY <1>2, <1>3 DEF Seen, View

LEMMA NewSeenOwn ==
  ASSUME FsTypeOK', NEW A, Lemmas!OnlyFields(A)', NEW a \in Account
  PROVE  NewSeen(a) \subseteq A[Buffer(a)]
<1> DEFINE doc == remoteDocs'[a][Buffer(a)]
           queue == mutationQueue'[a]
<1>1. Buffer(a) \in SessionPath
  BY Paths
<1>2. doc \in Document /\ queue \in Seq(Mutation)
  <2>1. remoteDocs'[a] \in [SessionPath -> Document] /\ queue \in Seq(Mutation)
    BY DEF FsTypeOK, Document, Mutation
  <2> QED  BY <1>1, <2>1
<1>3. /\ doc \subseteq A[Buffer(a)]
      /\ \A i \in 1..Len(queue) : queue[i].path = Buffer(a) => queue[i].fields \subseteq A[Buffer(a)]
  BY <1>1, NextOnlyFields
<1> HIDE DEF doc, queue
<1>4. LocalView(doc, queue, Buffer(a)) \subseteq A[Buffer(a)]
  BY <1>2, <1>3, ViewOwn
<1> QED  BY <1>3, <1>4 DEF NewSeen, doc, queue

LEMMA OwnConcat ==
  ASSUME NEW q \in Seq(Event), NEW r \in Seq(Event), NEW s, s = q \o r, NEW listened, NEW A,
         WaitingOwn(q, listened, A), WaitingOwn(r, listened, A)
  PROVE  WaitingOwn(s, listened, A)
<1>1. \A i \in 1..Len(s) : \/ i \in 1..Len(q) /\ s[i] = q[i]
                           \/ i - Len(q) \in 1..Len(r) /\ s[i] = r[i - Len(q)]
  BY Concat
<1> SUFFICES ASSUME NEW i \in 1..Len(s), s[i].kind = "buffer"
             PROVE  s[i].account \in listened /\ s[i].doc \subseteq A[Buffer(s[i].account)]
  BY DEF WaitingOwn
<1>2. CASE i \in 1..Len(q) /\ s[i] = q[i]
  BY <1>2 DEF WaitingOwn
<1>3. CASE i - Len(q) \in 1..Len(r) /\ s[i] = r[i - Len(q)]
  BY <1>3 DEF WaitingOwn
<1> QED  BY <1>1, <1>2, <1>3

LEMMA OwnRest ==
  ASSUME NEW q \in Seq(Event), q # << >>, NEW s, s = Tail(q), NEW listened, NEW A,
         WaitingOwn(q, listened, A)
  PROVE  WaitingOwn(s, listened, A)
<1>1. \A i \in 1..Len(s) : i + 1 \in 1..Len(q) /\ s[i] = q[i + 1]
  BY Rest
<1> QED  BY <1>1 DEF WaitingOwn

LEMMA OwnGrows ==
  ASSUME NEW q \in Seq(Event), NEW listened, NEW more, listened \subseteq more, listened \subseteq Account,
         NEW A, NEW B, \A p \in SessionPath : A[p] \subseteq B[p], WaitingOwn(q, listened, A)
  PROVE  WaitingOwn(q, more, B)
<1> SUFFICES ASSUME NEW i \in 1..Len(q), q[i].kind = "buffer"
             PROVE  q[i].account \in more /\ q[i].doc \subseteq B[Buffer(q[i].account)]
  BY DEF WaitingOwn
<1>1. q[i].account \in listened /\ q[i].doc \subseteq A[Buffer(q[i].account)]
  BY DEF WaitingOwn
<1>2. Buffer(q[i].account) \in SessionPath
  BY <1>1, Paths
<1> QED  BY <1>1, <1>2

LEMMA OwnTold ==
  ASSUME Types, FsTypeOK', NEW A, Lemmas!OnlyFields(A)', NEW waiting \in Seq(Event), NEW accounts, NEW now,
         Tell(waiting, accounts, now), WaitingOwn(waiting, Listened, A)
  PROVE  Listened' = Listened /\ WaitingOwn(mainQueue', Listened, A)
<1>1. PICK new \in Seq(Event) : mainQueue' = waiting \o new /\ News(new, accounts)
  BY Told
<1>2. Listened' = Listened /\ Listened \subseteq Account
  BY ToldTypes DEF Types, ScreenTypes
<1>3. ASSUME NEW i \in 1..Len(new)
      PROVE  new[i].account \in Listened /\ new[i].doc \subseteq A[Buffer(new[i].account)]
  <2>1. PICK a, doc : a = new[i].account /\ doc = NewSeen(new[i].account)
    OBVIOUS
  <2>2. new[i] = Snapshot(a, doc) /\ a \in Listened
    BY <1>1, <2>1 DEF News
  <2>3. new[i].doc = doc
    BY <2>2 DEF Snapshot
  <2>4. NewSeen(a) \subseteq A[Buffer(a)]
    BY <1>2, <2>2, NewSeenOwn
  <2> QED  BY <2>1, <2>2, <2>3, <2>4
<1>4. WaitingOwn(new, Listened, A)
  BY <1>3 DEF WaitingOwn
<1>5. PICK s, L : s = mainQueue' /\ L = Listened
  OBVIOUS
<1>6. s = waiting \o new /\ WaitingOwn(waiting, L, A) /\ WaitingOwn(new, L, A)
  BY <1>1, <1>4, <1>5
<1>7. WaitingOwn(s, L, A)
  BY <1>6, OwnConcat
<1> QED  BY <1>2, <1>5, <1>7
\* The badges that get into documents and queues.
LEMMA OwnApplied ==
  ASSUME NEW p, NEW fields, NEW merge, NEW doc, NEW S, doc \subseteq S, fields \subseteq S
  PROVE  ApplyTo([path |-> p, fields |-> fields, merge |-> merge], doc) \subseteq S
  BY DEF ApplyTo, Overwrites

LEMMA OwnSent ==
  ASSUME Types, NEW f \in Friend, NEW a \in Account, Sends(f, a),
         NEW A, A = OwnFields(sentTo), NEW B, B = OwnFields(sentTo'), Lemmas!OnlyFields(A)
  PROVE  Lemmas!OnlyFields(B)'
<1>1. PICK sent, more : sent = sentTo /\ more = sentTo'
  OBVIOUS
<1>2. sent \subseteq more /\ <<f, a>> \in more
  BY <1>1 DEF Sends
<1>3. \A p \in SessionPath : A[p] \subseteq B[p]
  BY <1>1, <1>2, OwnFieldsGrow
<1>4. UNCHANGED <<remoteDocs, mutationQueue>>
  BY DEF Sends
<1>5. \A b \in Account : \A i \in 1..Len(mutationQueue[b]) : mutationQueue[b][i].path \in SessionPath
  <2> SUFFICES ASSUME NEW b \in Account, NEW i \in 1..Len(mutationQueue[b])
               PROVE  mutationQueue[b][i].path \in SessionPath
    OBVIOUS
  <2>1. mutationQueue[b] \in Seq(Mutation)
    BY ClientTypes DEF Types
  <2>2. mutationQueue[b][i] \in Mutation
    BY <2>1
  <2> QED  BY <2>2 DEF Mutation
<1>6. ASSUME NEW p \in SessionPath PROVE docs'[p] \subseteq B[p]
  <2>1. docs[p] \subseteq B[p]
    BY <1>3 DEF Lemmas!OnlyFields
  <2>2. CASE p = Buffer(a)
    <3>1. B[p] = {Exists, UserID, NoUserID} \cup {Badge(g) : g \in Senders(more, a)}
      BY <1>1, <2>2, OwnFieldsAre
    <3>2. f \in Senders(more, a)
      BY <1>2 DEF Senders
    <3>3. {Exists, Badge(f)} \subseteq B[p]
      BY <3>1, <3>2
    <3>4. ApplyTo(MergeInto(Buffer(a), {Exists, Badge(f)}), docs[p]) \subseteq B[p]
      BY <2>1, <3>3, OwnApplied DEF MergeInto
    <3>5. docs'[p] = ApplyTo(MergeInto(Buffer(a), {Exists, Badge(f)}), docs[p])
      BY <2>2 DEF Sends, Types, FsTypeOK
    <3> QED  BY <3>4, <3>5
  <2>3. CASE p # Buffer(a)
    <3>1. docs'[p] = docs[p]
      BY <2>3 DEF Sends, Types, FsTypeOK
    <3> QED  BY <2>1, <3>1
  <2> QED  BY <2>2, <2>3
<1>7. \A b \in Account : \A i \in 1..Len(mutationQueue'[b]) :
        mutationQueue'[b][i].fields \subseteq B[mutationQueue'[b][i].path]
  BY <1>3, <1>4, <1>5 DEF Lemmas!OnlyFields
<1>8. \A b \in Account : \A p \in SessionPath : remoteDocs'[b][p] \subseteq B[p]
  BY <1>3, <1>4 DEF Lemmas!OnlyFields
<1> QED  BY <1>6, <1>7, <1>8, NextOnlyFields

LEMMA OwnRestarted ==
  ASSUME AllRestart, NEW A, Lemmas!OnlyFields(A)
  PROVE  Lemmas!OnlyFields(A)'
<1>1. UNCHANGED <<docs, remoteDocs, mutationQueue>>
  BY DEF AllRestart
<1> QED  BY <1>1, NextOnlyFields DEF Lemmas!OnlyFields

LEMMA OwnKilled ==
  ASSUME Types, AllKilled, NEW A, Lemmas!OnlyFields(A)
  PROVE  Lemmas!OnlyFields(A)'
  BY SameTypes, Lemmas!KilledOnlyFields DEF Types, AllKilled

LEMMA OwnNetwork ==
  ASSUME Types, Lemmas!NetworkStep, NEW A, Lemmas!OnlyFields(A)
  PROVE  Lemmas!OnlyFields(A)'
  BY SameTypes, Lemmas!NetworkOnlyFields DEF Types

LEMMA OwnWritten ==
  ASSUME Types, NEW a \in Account, NEW ms \in Seq(Mutation), LocallyWrite(a, ms),
         NEW A, Lemmas!OnlyFields(A), \A i \in 1..Len(ms) : ms[i].fields \subseteq A[ms[i].path]
  PROVE  Lemmas!OnlyFields(A)'
<1>1. Lemmas!LocallyWrite(a, ms)
  BY SameWrite
<1>2. ms \in Seq(Lemmas!Mutation) /\ Lemmas!FsTypeOK
  BY SameTypes DEF Types
<1> QED  BY <1>1, <1>2, SameTypes, Lemmas!WriteOnlyFields

\* Sign-up writes no badges, OpenChat those on screen.
LEMMA OwnSignUp ==
  ASSUME NEW a \in Account, NEW sent
  PROVE  \A i \in 1..Len(SignUpWrites(a)) :
           SignUpWrites(a)[i].fields \subseteq OwnFields(sent)[SignUpWrites(a)[i].path]
<1>1. PICK A : A = OwnFields(sent)
  OBVIOUS
<1>2. {Exists, UserID, NoUserID} \subseteq A[Buffer(a)] /\ A[Profile(a)] = SessionField
  BY <1>1, OwnFieldsAre
<1>3. First(a).fields \subseteq A[First(a).path]
  BY <1>2, Writes
<1>4. Second(a).fields \subseteq A[Second(a).path]
  BY <1>2, Writes
<1>5. Third(a).fields \subseteq A[Third(a).path]
  BY <1>2, Writes, Fields
<1>6. \A i \in 1..3 : SignUpWrites(a)[i] \in {First(a), Second(a), Third(a)}
  BY SignUpWritesAre
<1> QED  BY <1>1, <1>3, <1>4, <1>5, <1>6, SignUpWritesAre

LEMMA OwnClean ==
  ASSUME NEW a \in Account, NEW f \in Friend, bufferChat \subseteq Senders(sentTo, a),
         NEW A, A = OwnFields(sentTo)
  PROVE  Put(Buffer(a), Cleaned(f)).fields \subseteq A[Put(Buffer(a), Cleaned(f)).path]
<1>1. PICK sent : sent = sentTo
  OBVIOUS
<1>2. A[Buffer(a)] = {Exists, UserID, NoUserID} \cup {Badge(g) : g \in Senders(sent, a)}
  BY <1>1, OwnFieldsAre
<1>3. Cleaned(f) \subseteq A[Buffer(a)]
  BY <1>1, <1>2 DEF Cleaned
<1> QED  BY <1>3 DEF Put
\* What an event leaves on screen, and who listens.
LEMMA OwnShown ==
  ASSUME NEW A, OwnNow(A), Lemmas!OnlyFields(A)', sentTo' = sentTo, Listened' = Listened,
         bufferChat' \subseteq bufferChat, WaitingOwn(mainQueue', Listened, A)
  PROVE  OwnNext(A)
<1>1. \A a \in Listened : bufferChat' \subseteq Senders(sentTo, a)
  BY DEF OwnNow
<1>2. Listened = {} => bufferChat' = {}
  BY DEF OwnNow
<1> QED  BY <1>1, <1>2 DEF OwnNow, OwnNext

LEMMA OwnQuiet ==
  ASSUME Types, NEW A, OwnNow(A), UNCHANGED <<sentTo, listeners, bufferChat, mainQueue>>,
         Lemmas!OnlyFields(A)'
  PROVE  OwnNext(A)
<1>1. Listened' = Listened
  BY DEF Listened
<1>2. WaitingOwn(mainQueue', Listened, A)
  BY DEF OwnNow
<1> QED  BY <1>1, <1>2, OwnShown

LEMMA OwnTabBar ==
  ASSUME Types, NEW A, OwnNow(A), Lemmas!OnlyFields(A)', UNCHANGED <<sentTo, bufferChat>>, ~shared',
         NEW waiting \in Seq(Event), WaitingOwn(waiting, Listened, A), NewTabBar(waiting)
  PROVE  OwnNext(A)
<1>t. Listened \subseteq Account /\ FsTypeOK
  BY DEF Types, ScreenTypes
<1>1. CASE mainQueue' = waiting /\ listeners' = listeners
  <2>1. Listened' = Listened
    BY <1>1 DEF Listened
  <2>2. WaitingOwn(mainQueue', Listened, A)
    BY <1>1
  <2> QED  BY <2>1, <2>2, OwnShown
<1>2. ASSUME NEW first \in Seq(Event), NEW l \in Listener, currentUser \in Account,
             first = (IF Exists \in Seen(currentUser)
                      THEN <<Snapshot(currentUser, Seen(currentUser))>> ELSE << >>),
             l.account = currentUser,
             mainQueue' = waiting \o first, listeners' = Append(listeners, l),
             shared' = (shared \/ ~(Listened \subseteq {currentUser}))
      PROVE  OwnNext(A)
  <2>1. Listened \subseteq {currentUser}
    BY <1>2
  <2>2. Listened' = Listened \cup {currentUser}
    BY <1>2, TabBarListened
  <2>3. Listened' = {currentUser}
    BY <2>1, <2>2
  <2>4. PICK u, doc : u = currentUser /\ doc = Seen(currentUser)
    OBVIOUS
  <2>5. doc \subseteq A[Buffer(u)]
    BY <1>t, <1>2, <2>4, SeenOwn DEF OwnNow
  <2>6. first = << >> \/ first = <<Snapshot(u, doc)>>
    BY <1>2, <2>4
  <2>7. WaitingOwn(first, {u}, A)
    <3>1. CASE first = << >>
      BY <3>1 DEF WaitingOwn
    <3>2. CASE first = <<Snapshot(u, doc)>>
      <4>1. \A i \in 1..Len(first) : first[i] = Snapshot(u, doc)
        BY <3>2
      <4>2. Snapshot(u, doc).account = u /\ Snapshot(u, doc).doc = doc
        BY DEF Snapshot
      <4> QED  BY <2>5, <4>1, <4>2 DEF WaitingOwn
    <3> QED  BY <2>6, <3>1, <3>2
  <2>8. WaitingOwn(waiting, {u}, A)
    <3>1. PICK L : L = Listened
      OBVIOUS
    <3>2. L \subseteq {u} /\ L \subseteq Account /\ WaitingOwn(waiting, L, A)
      BY <1>t, <2>1, <2>4, <3>1
    <3> QED  BY <3>2, OwnGrows
  <2>9. WaitingOwn(mainQueue', {u}, A)
    <3>1. PICK s : s = mainQueue'
      OBVIOUS
    <3>2. s = waiting \o first
      BY <1>2, <3>1
    <3> QED  BY <2>7, <2>8, <3>1, <3>2, OwnConcat
  <2>10. bufferChat \subseteq Senders(sentTo, currentUser)
    <3>1. CASE Listened = {}
      BY <3>1 DEF OwnNow
    <3>2. CASE currentUser \in Listened
      BY <3>2 DEF OwnNow
    <3> QED  BY <2>1, <3>1, <3>2
  <2> QED  BY <2>3, <2>4, <2>9, <2>10 DEF OwnNext
<1> QED  BY <1>1, <1>2, TabBar

LEMMA OwnCallback ==
  ASSUME Types, NEW A, A = OwnFields(sentTo), OwnNow(A), NEW i \in 1..Len(mainQueue),
         mainQueue[i].kind = "buffer", NEW a \in Listened
  PROVE  FriendsIn(mainQueue[i].doc) \subseteq Senders(sentTo, a)
<1>1. PICK sent, doc : sent = sentTo /\ doc = mainQueue[i].doc
  OBVIOUS
<1>2. mainQueue[i].account = a /\ a \in Account
  BY DEF OwnNow, WaitingOwn, Types, ScreenTypes
<1>3. doc \subseteq A[Buffer(a)]
  BY <1>1, <1>2 DEF OwnNow, WaitingOwn
<1>4. A[Buffer(a)] = {Exists, UserID, NoUserID} \cup {Badge(g) : g \in Senders(sent, a)}
  BY <1>1, <1>2, OwnFieldsAre
<1>5. ASSUME NEW f \in Friend, Badge(f) \in A[Buffer(a)] PROVE f \in Senders(sent, a)
  <2>1. Badge(f) # Exists /\ Badge(f) # UserID /\ Badge(f) # NoUserID
    BY Fields
  <2>2. PICK g \in Senders(sent, a) : Badge(f) = Badge(g)
    BY <1>4, <1>5, <2>1
  <2>3. f = g
    BY <2>2, Fields
  <2> QED  BY <2>2, <2>3
<1>6. FriendsIn(doc) \subseteq Senders(sent, a)
  BY <1>3, <1>5 DEF FriendsIn
<1> QED  BY <1>1, <1>6

LEMMA SharedBefore ==
  ASSUME [Next]_vars, ~shared'
  PROVE  ~shared
<1>1. ASSUME NEW waiting, NewTabBar(waiting) PROVE ~shared
  BY <1>1 DEF NewTabBar
<1>2. CASE OnScreen
  BY <1>1, <1>2 DEF OnScreen, LoginClick, SignupClick, Ask, OtherScreen, SignOut, OpenChat, Back, history
<1>3. CASE OnMain
  BY <1>1, <1>3 DEF OnMain, CredentialDidChange, SignedIn, Created, SignedUp, BufferCallback, history
<1>4. CASE Answer \/ Relaunch
  BY <1>4 DEF Answer, Relaunch, FreshProcess, history
<1>5. ASSUME NEW e \in Messages, FriendSends(e[1], e[2]) PROVE ~shared
  BY <1>5 DEF FriendSends
<1>6. ASSUME NEW a \in Account,
             \/ PersistWrite(a) \/ CommitWrite(a) \/ WriteAnswered(a)
             \/ ReceiveSnapshot(a) \/ GoOffline(a) \/ StreamBroken(a)
      PROVE  ~shared
  BY <1>6 DEF PersistWrite, CommitWrite, WriteAnswered, ReceiveSnapshot, GoOffline, StreamBroken, history
<1>7. CASE UNCHANGED vars
  BY <1>7 DEF vars, history
<1> QED  BY <1>2, <1>3, <1>4, <1>5, <1>6, <1>7 DEF Next

LEMMA OwnStep ==
  ASSUME Types, Flow, NEW A, A = OwnFields(sentTo), OwnNow(A), FsTypeOK', ~shared', [Next]_vars
  PROVE  \E B : B = OwnFields(sentTo') /\ OwnNext(B)
<1> DEFINE Goal == \E B : B = OwnFields(sentTo') /\ OwnNext(B)
<1> SUFFICES Goal
  OBVIOUS
<1>g. ASSUME sentTo' = sentTo, OwnNext(A) PROVE Goal
  BY <1>g
<1> HIDE DEF Goal
<1>q. mainQueue \in Seq(Event) /\ Listened \subseteq Account
  BY DEF Types, ScreenTypes
<1>o. WaitingOwn(mainQueue, Listened, A) /\ Lemmas!OnlyFields(A)
  BY DEF OwnNow
<1>n. UNCHANGED clientVars => Lemmas!OnlyFields(A)'
  BY <1>o, SameNetwork, OwnNetwork
\* A turn of the main thread.
<1>t. ASSUME mainQueue # << >>
      PROVE  Tail(mainQueue) \in Seq(Event) /\ WaitingOwn(Tail(mainQueue), Listened, A)
  <2>1. PICK s, L : s = Tail(mainQueue) /\ L = Listened
    OBVIOUS
  <2>2. WaitingOwn(s, L, A)
    BY <1>q, <1>o, <1>t, <2>1, OwnRest
  <2> QED  BY <1>t, <2>1, <2>2, TailType
\* Events that are no snapshots.
<1>e. ASSUME NEW r \in Seq(Event), \A i \in 1..Len(r) : r[i].kind # "buffer"
      PROVE  WaitingOwn(mainQueue \o r, Listened, A)
  <2>1. PICK q, L, s : q = mainQueue /\ L = Listened /\ s = mainQueue \o r
    OBVIOUS
  <2>2. WaitingOwn(r, L, A)
    BY <1>e DEF WaitingOwn
  <2>3. WaitingOwn(s, L, A)
    BY <1>q, <1>o, <2>1, <2>2, OwnConcat
  <2> QED  BY <2>1, <2>3
\* Listeners are told.
<1>h. ASSUME NEW waiting \in Seq(Event), NEW accounts, NEW now, Tell(waiting, accounts, now),
             WaitingOwn(waiting, Listened, A), Lemmas!OnlyFields(A)', sentTo' = sentTo,
             bufferChat' \subseteq bufferChat
      PROVE  Goal
  <2>1. Listened' = Listened /\ WaitingOwn(mainQueue', Listened, A)
    BY <1>h, OwnTold
  <2>2. OwnNext(A)
    BY <1>h, <2>1, OwnShown
  <2> QED  BY <1>g, <1>h, <2>2
<1>l. listeners' = listeners => Listened' = Listened
  BY DEF Listened
<1>1. ASSUME NEW a \in Account, LoginClick(a) \/ SignupClick(a) PROVE Goal
  <2>1. UNCHANGED <<clientVars, sentTo, listeners, bufferChat, mainQueue>>
    BY <1>1 DEF LoginClick, SignupClick, Ask, screenVars
  <2>2. OwnNext(A)
    BY <1>n, <2>1, OwnQuiet
  <2> QED  BY <1>g, <2>1, <2>2
<1>2. CASE OtherScreen
  <2>1. UNCHANGED <<clientVars, sentTo, listeners, bufferChat, mainQueue>>
    BY <1>2 DEF OtherScreen, history
  <2>2. OwnNext(A)
    BY <1>n, <2>1, OwnQuiet
  <2> QED  BY <1>g, <2>1, <2>2
<1>3. CASE SignOut
  <2>1. /\ UNCHANGED <<clientVars, sentTo, listeners, bufferChat>>
        /\ mainQueue' = Append(mainQueue, [kind |-> "auth", user |-> NoOne])
    BY <1>3 DEF SignOut, history
  <2>2. PICK e : e = [kind |-> "auth", user |-> NoOne]
    OBVIOUS
  <2>3. e \in Event /\ e.kind = "auth"
    BY <2>2 DEF Event, Person
  <2>4. /\ <<e>> \in Seq(Event) /\ \A i \in 1..Len(<<e>>) : <<e>>[i].kind # "buffer"
        /\ mainQueue' = mainQueue \o <<e>>
    BY <1>q, <2>1, <2>2, <2>3
  <2>5. WaitingOwn(mainQueue', Listened, A)
    BY <1>e, <2>4
  <2>6. OwnNext(A)
    BY <1>n, <1>l, <2>1, <2>5, OwnShown
  <2> QED  BY <1>g, <2>1, <2>6
<1>4. ASSUME NEW f \in Friend, OpenChat(f) PROVE Goal
  <2>1. /\ currentUser \in Account /\ currentUser \in Listened
        /\ LocallyWrite(currentUser, <<Put(Buffer(currentUser), Cleaned(f))>>)
        /\ Tell(mainQueue, {currentUser}, FALSE)
    BY <1>4, OpenChatWrites
  <2>2. sentTo' = sentTo /\ bufferChat' \subseteq bufferChat
    BY <1>4 DEF OpenChat, history
  <2>3. PICK u, ms : u = currentUser /\ ms = <<Put(Buffer(currentUser), Cleaned(f))>>
    OBVIOUS
  <2>4. ms \in Seq(Mutation) /\ Len(ms) = 1 /\ ms[1] = Put(Buffer(u), Cleaned(f))
    BY <2>1, <2>3, CleanedIs DEF Types, ScreenTypes
  <2>5. bufferChat \subseteq Senders(sentTo, u)
    BY <2>1, <2>3 DEF OwnNow
  <2>6. ms[1].fields \subseteq A[ms[1].path]
    BY <2>1, <2>3, <2>4, <2>5, OwnClean
  <2>7. \A i \in 1..Len(ms) : ms[i].fields \subseteq A[ms[i].path]
    BY <2>4, <2>6
  <2>8. Lemmas!OnlyFields(A)'
    BY <1>o, <2>1, <2>3, <2>4, <2>7, OwnWritten
  <2>9. PICK waiting, accounts, now : waiting = mainQueue /\ accounts = {currentUser} /\ now = FALSE
    OBVIOUS
  <2>10. waiting \in Seq(Event) /\ Tell(waiting, accounts, now) /\ WaitingOwn(waiting, Listened, A)
    BY <1>q, <1>o, <2>1, <2>9
  <2> QED  BY <1>h, <2>2, <2>8, <2>10
<1>5. CASE Back
  <2>1. NewTabBar(mainQueue) /\ UNCHANGED <<clientVars, sentTo, bufferChat>>
    BY <1>5 DEF Back
  <2>2. OwnNext(A)
    BY <1>q, <1>n, <1>o, <2>1, OwnTabBar
  <2> QED  BY <1>g, <2>1, <2>2
<1>6. CASE CredentialDidChange
  <2>1. /\ mainQueue # << >> /\ Tell(Tail(mainQueue), Listened, FALSE)
        /\ UNCHANGED <<sentTo, bufferChat>> /\ AllRestart
    BY <1>6 DEF CredentialDidChange, Turn, AllRestart, history
  <2>2. PICK waiting, accounts, now : waiting = Tail(mainQueue) /\ accounts = Listened /\ now = FALSE
    OBVIOUS
  <2>3. waiting \in Seq(Event) /\ Tell(waiting, accounts, now) /\ WaitingOwn(waiting, Listened, A)
    BY <1>t, <2>1, <2>2
  <2>4. Lemmas!OnlyFields(A)'
    BY <1>o, <2>1, OwnRestarted
  <2>5. sentTo' = sentTo /\ bufferChat' \subseteq bufferChat
    BY <2>1
  <2> QED  BY <1>h, <2>3, <2>4, <2>5
<1>7. CASE SignedIn
  <2>1. mainQueue # << >> /\ NewTabBar(Tail(mainQueue)) /\ UNCHANGED <<clientVars, sentTo, bufferChat>>
    BY <1>7 DEF SignedIn, Turn
  <2>2. OwnNext(A)
    BY <1>t, <1>n, <2>1, OwnTabBar
  <2> QED  BY <1>g, <2>1, <2>2
<1>8. CASE Created
  <2>1. /\ UNCHANGED <<sentTo, listeners, bufferChat>> /\ mainQueue # << >> /\ mainQueue' = Tail(mainQueue)
        /\ currentUser \in Account /\ LocallyWrite(currentUser, SignUpWrites(currentUser))
    BY <1>8, CreatedWrites DEF Created
  <2>2. PICK u, ms, sent : u = currentUser /\ ms = SignUpWrites(currentUser) /\ sent = sentTo
    OBVIOUS
  <2>3. ms \in Seq(Mutation) /\ u \in Account /\ ms = SignUpWrites(u)
    BY <2>1, <2>2, SignUpWritesAre
  <2>4. \A i \in 1..Len(ms) : ms[i].fields \subseteq A[ms[i].path]
    BY <2>2, <2>3, OwnSignUp
  <2>5. Lemmas!OnlyFields(A)'
    BY <1>o, <2>1, <2>2, <2>3, <2>4, OwnWritten
  <2>6. WaitingOwn(mainQueue', Listened, A)
    BY <1>t, <2>1
  <2>7. OwnNext(A)
    BY <1>l, <2>1, <2>5, <2>6, OwnShown
  <2> QED  BY <1>g, <2>1, <2>7
<1>9. CASE SignedUp
  <2>1. mainQueue # << >> /\ UNCHANGED <<clientVars, sentTo, bufferChat>>
    BY <1>9 DEF SignedUp, Turn
  <2>2. CASE NewTabBar(Tail(mainQueue))
    <3>1. OwnNext(A)
      BY <1>t, <1>n, <2>1, <2>2, OwnTabBar
    <3> QED  BY <1>g, <2>1, <3>1
  <2>3. CASE mainQueue' = Tail(mainQueue) /\ listeners' = listeners
    <3>1. WaitingOwn(mainQueue', Listened, A)
      BY <1>t, <2>1, <2>3
    <3>2. OwnNext(A)
      BY <1>l, <1>n, <2>1, <2>3, <3>1, OwnShown
    <3> QED  BY <1>g, <2>1, <3>2
  <2> QED  BY <1>9, <2>2, <2>3 DEF SignedUp
<1>10. CASE BufferCallback
  <2>1. /\ UNCHANGED <<clientVars, sentTo, listeners>> /\ mainQueue # << >> /\ mainQueue' = Tail(mainQueue)
        /\ Head(mainQueue).kind = "buffer"
        /\ bufferChat' = bufferChat \/ bufferChat' = FriendsIn(Head(mainQueue).doc)
    BY <1>10 DEF BufferCallback, Turn, history
  <2>2. WaitingOwn(mainQueue', Listened, A) /\ Listened' = Listened
    BY <1>t, <1>l, <2>1
  <2>3. CASE bufferChat' = bufferChat
    <3>1. OwnNext(A)
      BY <1>n, <2>1, <2>2, <2>3, OwnShown
    <3> QED  BY <1>g, <2>1, <3>1
  <2>4. CASE bufferChat' = FriendsIn(Head(mainQueue).doc)
    <3>1. Head(mainQueue) = mainQueue[1] /\ 1 \in 1..Len(mainQueue)
      BY <1>q, <2>1, Rest
    <3>2. mainQueue[1].kind = "buffer" /\ bufferChat' = FriendsIn(mainQueue[1].doc)
      BY <2>1, <2>4, <3>1
    <3>3. \A a \in Listened : bufferChat' \subseteq Senders(sentTo, a)
      BY <3>1, <3>2, OwnCallback
    <3>4. mainQueue[1].account \in Listened
      BY <1>o, <3>1, <3>2 DEF WaitingOwn
    <3>5. OwnNext(A)
      BY <1>n, <2>1, <2>2, <3>3, <3>4 DEF OwnNext, OwnNow
    <3> QED  BY <1>g, <2>1, <3>5
  <2> QED  BY <2>1, <2>3, <2>4
<1>11. CASE Answer
  <2>1. UNCHANGED <<clientVars, sentTo, listeners, bufferChat>>
    BY <1>11 DEF Answer, screenVars, history
  <2>2. PICK e, g : e = [kind |-> "auth", user |-> request[2]] /\ g = [kind |-> request[1]]
    OBVIOUS
  <2>3. request[1] \in {"signIn", "signUp"} /\ request[2] \in Account
    BY <1>11, RequestType DEF Answer
  <2>4. e \in Event /\ g \in Event /\ e.kind # "buffer" /\ g.kind # "buffer"
    BY <2>2, <2>3 DEF Event, Person
  <2>5. <<e, g>> \in Seq(Event) /\ \A i \in 1..Len(<<e, g>>) : <<e, g>>[i].kind # "buffer"
    BY <2>4
  <2>6. mainQueue' = mainQueue \o <<e, g>>
    BY <1>11, <2>2 DEF Answer
  <2>7. WaitingOwn(mainQueue', Listened, A)
    BY <1>e, <2>5, <2>6
  <2>8. OwnNext(A)
    BY <1>n, <1>l, <2>1, <2>7, OwnShown
  <2> QED  BY <1>g, <2>1, <2>8
<1>12. ASSUME NEW e \in Messages, FriendSends(e[1], e[2]) PROVE Goal
  <2>1. PICK f \in Friend, a \in Account : f = e[1] /\ a = e[2]
    BY SessionAssumption
  <2>2. Sends(f, a) /\ UNCHANGED <<listeners, bufferChat, mainQueue>>
    BY <1>12, <2>1 DEF FriendSends, Sends, screenVars
  <2>3. PICK B, sent, more, L : B = OwnFields(sentTo') /\ sent = sentTo /\ more = sentTo' /\ L = Listened
    OBVIOUS
  <2>4. Lemmas!OnlyFields(B)'
    BY <1>o, <2>2, <2>3, OwnSent
  <2>5. sent \subseteq more
    BY <2>2, <2>3 DEF Sends
  <2>6. \A p \in SessionPath : A[p] \subseteq B[p]
    BY <2>3, <2>5, OwnFieldsGrow
  <2>7. WaitingOwn(mainQueue, L, B)
    BY <1>q, <1>o, <2>3, <2>6, OwnGrows
  <2>8. \A b \in Listened : bufferChat' \subseteq Senders(sentTo', b)
    <3>1. \A b : Senders(sent, b) \subseteq Senders(more, b)
      BY <2>5 DEF Senders
    <3>2. \A b \in Listened : bufferChat \subseteq Senders(sent, b)
      BY <2>3 DEF OwnNow
    <3> QED  BY <2>2, <2>3, <3>1, <3>2
  <2>9. OwnNext(B)
    BY <1>l, <2>2, <2>3, <2>4, <2>7, <2>8 DEF OwnNext, OwnNow
  <2> QED  BY <2>3, <2>9 DEF Goal
<1>13. ASSUME NEW a \in Account, PersistWrite(a) \/ CommitWrite(a) \/ StreamBroken(a) PROVE Goal
  <2>1. UNCHANGED <<sentTo, listeners, bufferChat, mainQueue>>
    BY <1>13 DEF PersistWrite, CommitWrite, StreamBroken, screenVars, history
  <2>2. Lemmas!NetworkStep
    BY <1>13, SameNetwork DEF PersistWrite, CommitWrite, StreamBroken
  <2>3. OwnNext(A)
    BY <1>o, <2>1, <2>2, OwnNetwork, OwnQuiet
  <2> QED  BY <1>g, <2>1, <2>3
<1>14. ASSUME NEW a \in Account, WriteAnswered(a) PROVE Goal
  <2> DEFINE more == Head(mutationQueue[a]).path = Profile(a) /\ signingUp = a
             e == [kind |-> "signedUp", account |-> a]
  <2>1. /\ Tell(IF more THEN Append(mainQueue, e) ELSE mainQueue, {a}, FALSE)
        /\ UNCHANGED <<sentTo, bufferChat>> /\ Acknowledge(a)
    BY <1>14 DEF WriteAnswered
  <2>3. e \in Event /\ e.kind = "signedUp"
    BY DEF Event
  <2> HIDE DEF e, more
  <2>4. /\ <<e>> \in Seq(Event) /\ \A i \in 1..Len(<<e>>) : <<e>>[i].kind # "buffer"
        /\ Append(mainQueue, e) = mainQueue \o <<e>> /\ Append(mainQueue, e) \in Seq(Event)
    BY <1>q, <2>3
  <2>5. WaitingOwn(mainQueue \o <<e>>, Listened, A)
    BY <1>e, <2>4
  <2>6. PICK waiting, accounts, now :
          /\ waiting = (IF more THEN Append(mainQueue, e) ELSE mainQueue) /\ accounts = {a} /\ now = FALSE
    OBVIOUS
  <2>7. waiting \in Seq(Event) /\ Tell(waiting, accounts, now)
    BY <1>q, <2>1, <2>4, <2>6
  <2>8. WaitingOwn(waiting, Listened, A)
    BY <1>o, <2>4, <2>5, <2>6
  <2>9. Lemmas!OnlyFields(A)'
    BY <1>o, <2>1, SameNetwork, OwnNetwork
  <2> QED  BY <1>h, <2>1, <2>7, <2>8, <2>9
<1>15. ASSUME NEW a \in Account, ReceiveSnapshot(a) \/ GoOffline(a) PROVE Goal
  <2>1. Tell(mainQueue, {a}, TRUE) /\ UNCHANGED <<sentTo, bufferChat>>
    BY <1>15 DEF ReceiveSnapshot, GoOffline, history
  <2>2. Lemmas!NetworkStep
    BY <1>15, SameNetwork, Paths DEF ReceiveSnapshot, GoOffline
  <2>3. PICK waiting, accounts, now : waiting = mainQueue /\ accounts = {a} /\ now = TRUE
    OBVIOUS
  <2>4. waiting \in Seq(Event) /\ Tell(waiting, accounts, now) /\ WaitingOwn(waiting, Listened, A)
    BY <1>q, <1>o, <2>1, <2>3
  <2>5. Lemmas!OnlyFields(A)'
    BY <1>o, <2>2, OwnNetwork
  <2> QED  BY <1>h, <2>1, <2>4, <2>5
<1>16. CASE Relaunch
  <2>1. /\ listeners' = << >> /\ mainQueue' = << >> /\ bufferChat' = {}
        /\ sentTo' = sentTo /\ AllKilled
    BY <1>16, SameKill DEF Relaunch, FreshProcess
  <2>2. Lemmas!OnlyFields(A)'
    BY <1>o, <2>1, OwnKilled
  <2>3. Listened' = {}
    <3>1. Len(listeners') = 0 /\ listeners' \in Seq(Listener)
      BY <2>1
    <3>2. \A a : a \notin Listened'
      BY <3>1, NextListenedIs
    <3> QED  BY <3>2
  <2>4. Len(mainQueue') = 0
    BY <2>1
  <2>5. WaitingOwn(mainQueue', Listened', A)
    <3>1. PICK s, L : s = mainQueue' /\ L = Listened'
      OBVIOUS
    <3>2. WaitingOwn(s, L, A)
      BY <2>4, <3>1 DEF WaitingOwn
    <3> QED  BY <3>1, <3>2
  <2>6. OwnNext(A)
    BY <2>1, <2>2, <2>3, <2>5 DEF OwnNext
  <2> QED  BY <1>g, <2>1, <2>6
<1>17. CASE UNCHANGED vars
  <2>1. UNCHANGED <<clientVars, sentTo, listeners, bufferChat, mainQueue>>
    BY <1>17 DEF vars, screenVars, history
  <2>2. OwnNext(A)
    BY <1>n, <2>1, OwnQuiet
  <2> QED  BY <1>g, <2>1, <2>2
<1>18. CASE OnScreen
  BY <1>1, <1>2, <1>3, <1>4, <1>5, <1>18 DEF OnScreen
<1>19. CASE OnMain
  BY <1>6, <1>7, <1>8, <1>9, <1>10, <1>19 DEF OnMain
<1> QED
  BY <1>11, <1>12, <1>13, <1>14, <1>15, <1>16, <1>17, <1>18, <1>19 DEF Next

LEMMA StepOwnBadges ==
  ASSUME Types, Flow, OwnBadges, FsTypeOK', [Next]_vars
  PROVE  OwnBadges'
<1>1. PICK B : B = OwnFields(sentTo')
  OBVIOUS
<1>2. ASSUME ~shared' PROVE OwnNext(B)
  <2>1. PICK A : A = OwnFields(sentTo)
    OBVIOUS
  <2>2. OwnNow(A)
    BY <1>2, <2>1, SharedBefore DEF OwnBadges
  <2>3. \E C : C = OwnFields(sentTo') /\ OwnNext(C)
    BY <1>2, <2>1, <2>2, OwnStep
  <2> QED  BY <1>1, <2>3
<1> QED  BY <1>1, <1>2, NextOwnBadges

LEMMA InitOwnBadges == Init => OwnBadges
<1> SUFFICES ASSUME Init PROVE OwnBadges
  OBVIOUS
<1>1. PICK A : A = OwnFields(sentTo)
  OBVIOUS
<1>2. \A p \in SessionPath : Exists \in A[p]
  <2> SUFFICES ASSUME NEW p \in SessionPath PROVE Exists \in A[p]
    OBVIOUS
  <2>1. PICK sent : sent = sentTo
    OBVIOUS
  <2>2. PICK a \in Account : p = Buffer(a) \/ p = Profile(a)
    BY Paths
  <2>3. Exists \in OwnFields(sent)[Buffer(a)] /\ Exists \in OwnFields(sent)[Profile(a)]
    BY OwnFieldsAre, Fields
  <2> QED  BY <1>1, <2>1, <2>2, <2>3
<1>3. \A p \in SessionPath : docs[p] \subseteq {Exists}
  BY DEF Init
<1>4. \A a \in Account : \A p \in SessionPath : remoteDocs[a][p] = {}
  BY DEF Init
<1>5. \A a \in Account : Len(mutationQueue[a]) = 0
  BY DEF Init
<1>6. Lemmas!OnlyFields(A)
  BY <1>2, <1>3, <1>4, <1>5 DEF Lemmas!OnlyFields
<1>7. Listened = {} /\ bufferChat = {}
  BY DEF Init, Listened
<1>8. Len(mainQueue) = 0
  BY DEF Init
<1>9. OwnNow(A)
  BY <1>6, <1>7, <1>8 DEF OwnNow, WaitingOwn
<1> QED  BY <1>1, <1>9 DEF OwnBadges

LEMMA OwnBadgesStay ==
  ASSUME OwnBadges
  PROVE  BadgesOfOneAccountStay
<1> SUFFICES ASSUME ~shared, NEW a \in Account, NEW f \in FriendsIn(docs[Buffer(a)])
             PROVE  <<f, a>> \in sentTo
  BY DEF BadgesOfOneAccountStay
<1>1. PICK sent : sent = sentTo
  OBVIOUS
<1>2. docs[Buffer(a)] \subseteq OwnFields(sent)[Buffer(a)]
  BY <1>1, Paths DEF OwnBadges, OwnNow, Lemmas!OnlyFields
<1>3. f \in Friend /\ Badge(f) \in OwnFields(sent)[Buffer(a)]
  BY <1>2 DEF FriendsIn
<1>4. PICK g \in Senders(sent, a) : Badge(f) = Badge(g)
  BY <1>3, OwnFieldsAre, Fields
<1>5. f = g
  BY <1>4, Fields
<1> QED  BY <1>1, <1>4, <1>5 DEF Senders
-----------------------------------------------------------------------------
(***************************************************************************)
(* The inductive invariant, and what follows from it.                      *)
(***************************************************************************)
IInv == Types /\ Flow /\ Readable /\ Settling /\ OwnBadges

LEMMA InitIInv == Init => IInv
  BY InitTypes, InitFlow, InitReadable, InitSettling, InitOwnBadges DEF IInv

LEMMA StepIInv == IInv /\ [Next]_vars => IInv'
<1> SUFFICES ASSUME IInv, [Next]_vars PROVE IInv'
  OBVIOUS
<1>1. Types /\ Flow /\ Readable /\ Settling /\ OwnBadges
  BY DEF IInv
<1>2. ClientSteps
  BY <1>1, StepsOfClient
<1>3. Types'
  BY <1>1, StepTypes
<1>4. FsTypeOK'
  BY <1>3 DEF Types
<1>5. Flow'
  BY <1>1, <1>4, StepFlow
<1>6. Readable'
  BY <1>1, <1>2, StepReadable DEF Types
<1>7. Settling'
  BY <1>1, <1>4, StepSettling
<1>8. OwnBadges'
  BY <1>1, <1>4, StepOwnBadges
<1> QED  BY <1>3, <1>5, <1>6, <1>7, <1>8 DEF IInv

\* The invariant of the sign-up, sign-in and sign-out code is inductive: the
\* types; who is asked for and current; sign-up's writes in the queues and
\* what of them is in the documents; what the badges on screen settle on; and
\* whose they are.
THEOREM Invariant == Spec => []IInv
  BY InitIInv, StepIInv, PTL DEF Spec

\* Types are kept; the Firestore client's user is Auth's current user or a
\* notification of the difference is waiting (Auth.signOut, signIn and
\* createUser against FSTFirestoreClient's credential listener), and every
\* queue holds writes to the account's own documents only.
THEOREM TypesKept == Spec => []TypeOK
<1>1. IInv => TypeOK
  BY TypesAre DEF IInv
<1> QED  BY <1>1, Invariant, PTL

\* After sign-up's last completion the buffer document never again ends the
\* app at the cast in RecentViewController's closure: neither with the
\* account's queue nor without it, whoever is signed in.
THEOREM ReadableForGood == Spec => []BufferStaysReadable
<1>1. IInv => BufferStaysReadable
  <2> SUFFICES ASSUME IInv, NEW a \in finished
               PROVE  Castable(Seen(a)) /\ Castable(remoteDocs[a][Buffer(a)])
    BY DEF BufferStaysReadable
  <2>1. a \in Account
    BY DEF IInv, Types, ScreenTypes, Readable
  <2> QED  BY <2>1, CanBeCast DEF IInv, Types
<1> QED  BY <1>1, Invariant, PTL

\* When nothing waits on the main thread, the badges that RecentViewController
\* shows are what some account with a buffer listener sees now.
THEOREM BadgesSettle == Spec => []BadgesAreSomebodys
<1>1. IInv => BadgesAreSomebodys
  BY BadgesAreSome DEF IInv
<1> QED  BY <1>1, Invariant, PTL

\* While a process has listeners of one account only, buffercleaner writes no
\* badge into a document but those of friends who sent that account a message.
THEOREM NoForeignBadges == Spec => []BadgesOfOneAccountStay
<1>1. IInv => BadgesOfOneAccountStay
  BY OwnBadgesStay DEF IInv
<1> QED  BY <1>1, Invariant, PTL
=============================================================================
