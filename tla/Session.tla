------------------------------ MODULE Session ------------------------------
(***************************************************************************)
(* Signing up, in and out: LoginViewController, SignupViewController,       *)
(* AccountViewController, and what they leave for the badges of            *)
(* RecentViewController, over the Firestore client.                        *)
(*                                                                         *)
(* One device, which several accounts use in turn.  The client keeps one   *)
(* queue of writes per account, and one cache for all of them: Firestore   *)
(* is taken with one "device" per account, and only the documents of that  *)
(* account in its cache.  Signing out removes no snapshot listener and     *)
(* leaves bufferChat as it is, so that what one account hears is in the    *)
(* globals of the next one.                                                *)
(*                                                                         *)
(* Here a missing document and an empty one differ: the closure of the     *)
(* buffer's listener casts the document's fields to [String: [String]],    *)
(* which ends the app if there is no document or if sign-up's userID, a    *)
(* String, is still in it.  A document that exists has the field Exists.   *)
(***************************************************************************)
EXTENDS Naturals, Sequences, SequencesExt

CONSTANTS
  Account,    \* accounts
  Elsewhere,  \* those that were signed up on another device
  NoOne,      \* nobody is signed in; nobody's buffer ended the app
  Friend,     \* those who send messages to the accounts
  Messages,   \* bound: which friend may send which account a message
  MaxClicks,  \* bound: requests for sign-in or sign-up between two launches
  MaxViews,   \* bound: RecentViewControllers between two launches
  MaxOpens,   \* bound: unacknowledged writes when a chat is opened
  MaxFaults   \* bound: broken streams and kills

ASSUME SessionAssumption ==
  /\ Elsewhere \subseteq Account
  /\ NoOne \notin Account
  /\ Messages \subseteq Friend \X Account
  /\ {"document", "userID"} \cap Friend = {}
  /\ {MaxClicks, MaxViews, MaxOpens, MaxFaults} \subseteq Nat

VARIABLES
  docs, remoteDocs, mutationQueue, persisted, applied, caughtUp,  \* see Firestore
  registered,   \* accounts the authentication backend knows
  currentUser,  \* Auth.auth().currentUser, kept across launches
  clientUser,   \* whose queue of writes the Firestore client has open
  request,      \* the sign-in or sign-up that is not answered
  screen,       \* "login", "signup", "tabs", "chat" or "crashed"
  signingUp,    \* the account whose documents the sign-up screen waits for
  listeners,    \* the buffer listeners since launch: whose, and if told yet
  bufferChat,   \* the friends the badges on screen are for
  mainQueue,    \* completions and snapshots waiting for the main thread
  crashed,      \* the account whose buffer could not be cast, or NoOne
  begun,        \* history: accounts whose documents sign-up has written
  finished,     \* history: those of them whose last write was answered
  sentTo,       \* history: <<f, a>> where f has sent a a message
  lost,         \* history: lost[a]: writes of a cut off by a kill
  shared,       \* history: a process had the listeners of two accounts
  clicks, faults

Buffer(a) == [coll |-> "ChatBuffer", owner |-> a]

Profile(a) == [coll |-> "User", owner |-> a]

SessionPath == {Buffer(a) : a \in Account} \cup {Profile(a) : a \in Account}

Exists == [key |-> "document"]

\* "userID": String, and what FieldValue.delete() leaves of it
UserID == [key |-> "userID", there |-> TRUE]

NoUserID == [key |-> "userID", there |-> FALSE]

Badge(f) == [key |-> f]

SessionField == {Exists, UserID, NoUserID} \cup {Badge(f) : f \in Friend}

INSTANCE Firestore WITH
  Device <- Account, Path <- SessionPath, Field <- SessionField

clientVars == <<docs, remoteDocs, mutationQueue, persisted, applied, caughtUp>>

authVars == <<registered, currentUser, request>>

screenVars == <<screen, signingUp, listeners, bufferChat, crashed>>

history == <<begun, finished, sentTo, lost, shared, clicks, faults>>

vars == <<clientVars, authVars, clientUser, screenVars, mainQueue, history>>
-----------------------------------------------------------------------------
\* Buffer(a) as the listeners of account a see it: the queue of an account
\* that is not signed in is not looked at.
Seen(a) ==
  IF clientUser = a THEN View(a, Buffer(a)) ELSE remoteDocs[a][Buffer(a)]

NewSeen(a) ==
  IF clientUser' = a THEN LocalView(remoteDocs'[a][Buffer(a)], mutationQueue'[a], Buffer(a))
  ELSE remoteDocs'[a][Buffer(a)]

Castable(doc) == Exists \in doc /\ UserID \notin doc

FriendsIn(doc) == {f \in Friend : Badge(f) \in doc}

Snapshot(a, doc) == [kind |-> "buffer", account |-> a, doc |-> doc]

Listened == {listeners[i].account : i \in DOMAIN listeners}

\* Is listener i told of a step after which it sees doc?  The first event
\* waits for a document that exists or, if now is TRUE, comes anyway: the
\* listener is in sync, or the client has found itself offline.
IsTold(i, old, new, now) ==
  IF listeners[i].told THEN new # old ELSE Exists \in new \/ now

\* A step of the client: the listeners of these accounts are told, one query
\* after the other, in any order of the queries, after what waits already.
Tell(waiting, accounts, now) ==
  LET Of(i) == listeners[i].account
      told == {i \in DOMAIN listeners : Of(i) \in accounts /\ IsTold(i, Seen(Of(i)), NewSeen(Of(i)), now)}
  IN  /\ \E turn \in SetToSeqs(told) :
           /\ \A i, j, k \in DOMAIN turn : i < j /\ j < k /\ Of(turn[i]) = Of(turn[k]) => Of(turn[i]) = Of(turn[j])
           /\ mainQueue' = waiting \o [n \in DOMAIN turn |-> Snapshot(Of(turn[n]), NewSeen(Of(turn[n])))]
      /\ listeners' = [i \in DOMAIN listeners |-> [listeners[i] EXCEPT !.told = @ \/ i \in told]]

Put(p, fields) == [path |-> p, fields |-> fields, merge |-> FALSE]

MergeInto(p, fields) == [path |-> p, fields |-> fields, merge |-> TRUE]

\* Accounts from elsewhere have their documents; this device knows neither.
Init ==
  /\ docs = [p \in SessionPath |-> IF p.owner \in Elsewhere THEN {Exists} ELSE {}]
  /\ remoteDocs = [a \in Account |-> [p \in SessionPath |-> {}]]
  /\ mutationQueue = [a \in Account |-> << >>]
  /\ persisted = [a \in Account |-> 0]
  /\ applied = [a \in Account |-> 0]
  /\ caughtUp = [a \in Account |-> {}]
  /\ registered = Elsewhere
  /\ currentUser = NoOne
  /\ clientUser = NoOne
  /\ request = << >>
  /\ screen = "login"
  /\ signingUp = NoOne
  /\ listeners = << >>
  /\ bufferChat = {}
  /\ mainQueue = << >>
  /\ crashed = NoOne
  /\ begun = {}
  /\ finished = {}
  /\ sentTo = {}
  /\ lost = [a \in Account |-> {}]
  /\ shared = FALSE
  /\ clicks = 0
  /\ faults = 0
-----------------------------------------------------------------------------
(***************************************************************************)
(* The login and the sign-up screen.  A user who has asked for something   *)
(* stays on the screen until it is answered, but may sign out meanwhile.   *)
(***************************************************************************)
Idle == request = << >> /\ \A i \in DOMAIN mainQueue : mainQueue[i].kind = "buffer"

Ask(kind, a) ==
  /\ Idle
  /\ clicks < MaxClicks
  /\ request' = <<kind, a>>
  /\ clicks' = clicks + 1
  /\ UNCHANGED <<clientVars, registered, currentUser, clientUser, screenVars, mainQueue,
                 begun, finished, sentTo, lost, shared, faults>>

LoginClick(a) == screen = "login" /\ a \in registered /\ Ask("signIn", a)

SignupClick(a) ==
  screen = "signup" /\ signingUp = NoOne /\ a \notin registered /\ Ask("signUp", a)

\* The button between the two; each presents a new controller of the other.
OtherScreen ==
  /\ screen \in {"login", "signup"}
  /\ Idle
  /\ screen' = IF screen = "login" THEN "signup" ELSE "login"
  /\ signingUp' = NoOne
  /\ UNCHANGED <<clientVars, authVars, clientUser, listeners, bufferChat, crashed, mainQueue, history>>

\* Auth answers, on its own queue: the user is current before the closure
\* runs, after the notification that tells the Firestore client.
Answer ==
  /\ screen # "crashed"
  /\ request # << >>
  /\ LET a == request[2]
     IN  /\ currentUser' = a
         /\ registered' = registered \cup {a}
         /\ mainQueue' = mainQueue \o <<[kind |-> "auth", user |-> a], [kind |-> request[1]]>>
  /\ request' = << >>
  /\ UNCHANGED <<clientVars, clientUser, screenVars, history>>

\* Mutant of SignOut: the Firestore client does not hear of it.
SignOutQuietly ==
  /\ screen \in {"login", "tabs"}
  /\ currentUser # NoOne
  /\ currentUser' = NoOne
  /\ screen' = "login"
  /\ UNCHANGED <<clientVars, registered, request, clientUser, signingUp, listeners, bufferChat,
                 mainQueue, crashed, history>>

\* Auth.signOut, from the login screen (Signout) or the account tab
\* (SignoutClick, which goes to the login screen).
SignOut ==
  /\ screen \in {"login", "tabs"}
  /\ currentUser # NoOne
  /\ currentUser' = NoOne
  /\ mainQueue' = Append(mainQueue, [kind |-> "auth", user |-> NoOne])
  /\ screen' = "login"
  /\ UNCHANGED <<clientVars, registered, request, clientUser, signingUp, listeners, bufferChat,
                 crashed, history>>
-----------------------------------------------------------------------------
(***************************************************************************)
(* The main thread.                                                        *)
(***************************************************************************)
Turn(kind) ==
  /\ screen # "crashed"
  /\ mainQueue # << >>
  /\ Head(mainQueue).kind = kind

\* FSTSyncEngine: another user's queue is opened, whoever listens is told of
\* what that changes, in any order of the queries, and the streams restart.
CredentialDidChange ==
  /\ Turn("auth")
  /\ clientUser' = Head(mainQueue).user
  /\ applied' = [a \in Account |-> 0]
  /\ caughtUp' = [a \in Account |-> {}]
  /\ UNCHANGED <<docs, remoteDocs, mutationQueue, persisted>>
  /\ Tell(Tail(mainQueue), Listened, FALSE)
  /\ UNCHANGED <<authVars, screen, signingUp, bufferChat, crashed, history>>

\* A new tab bar for the current user: RecentViewController's viewDidLoad
\* and listener.  Its first "myUser!" ends the app if nobody is signed in.
NewTabBar(waiting) ==
  LET a == currentUser
      first == IF Exists \in Seen(a) THEN <<Snapshot(a, Seen(a))>> ELSE << >>
  IN  IF a = NoOne
      THEN /\ screen' = "crashed"
           /\ mainQueue' = waiting
           /\ UNCHANGED <<listeners, shared>>
      ELSE /\ Len(listeners) < MaxViews
           /\ screen' = "tabs"
           /\ listeners' = Append(listeners, [account |-> a, told |-> first # << >>])
           /\ mainQueue' = waiting \o first
           /\ shared' = (shared \/ ~(Listened \subseteq {a}))

\* The closure of signIn.
SignedIn ==
  /\ Turn("signIn")
  /\ NewTabBar(Tail(mainQueue))
  /\ UNCHANGED <<clientVars, authVars, clientUser, signingUp, bufferChat, crashed,
                 begun, finished, sentTo, lost, clicks, faults>>

\* Mutant of SignUpWrites: userID is deleted after the profile is written.
SignUpWritesProfileFirst(a) ==
  <<Put(Buffer(a), {Exists, UserID}), Put(Profile(a), {Exists}), MergeInto(Buffer(a), {NoUserID})>>

\* setData, updateData with FieldValue.delete(), and setData of the profile.
SignUpWrites(a) ==
  <<Put(Buffer(a), {Exists, UserID}), MergeInto(Buffer(a), {NoUserID}), Put(Profile(a), {Exists})>>

\* The closure of createUser: the account exists, now its documents.
Created ==
  /\ Turn("signUp")
  /\ mainQueue' = Tail(mainQueue)
  /\ IF currentUser = NoOne
     THEN /\ screen' = "crashed"
          /\ UNCHANGED <<clientVars, signingUp, begun>>
     ELSE /\ LocallyWrite(clientUser, SignUpWrites(currentUser))
          /\ signingUp' = currentUser
          /\ begun' = begun \cup {currentUser}
          /\ UNCHANGED screen
  /\ UNCHANGED <<authVars, clientUser, listeners, bufferChat, crashed,
                 finished, sentTo, lost, shared, clicks, faults>>

\* The closure of the profile's setData, if its screen is still there.
SignedUp ==
  /\ Turn("signedUp")
  /\ IF signingUp = Head(mainQueue).account
     THEN NewTabBar(Tail(mainQueue)) /\ signingUp' = NoOne
     ELSE mainQueue' = Tail(mainQueue) /\ UNCHANGED <<screen, listeners, shared, signingUp>>
  /\ UNCHANGED <<clientVars, authVars, clientUser, bufferChat, crashed,
                 begun, finished, sentTo, lost, clicks, faults>>

\* The closure of the buffer's listener, whoever is signed in by now.
BufferCallback ==
  /\ Turn("buffer")
  /\ LET e == Head(mainQueue)
     IN  IF Castable(e.doc)
         THEN bufferChat' = FriendsIn(e.doc) /\ UNCHANGED <<screen, crashed>>
         ELSE screen' = "crashed" /\ crashed' = e.account /\ UNCHANGED bufferChat
  /\ mainQueue' = Tail(mainQueue)
  /\ UNCHANGED <<clientVars, authVars, clientUser, signingUp, listeners, history>>

\* Mutant of Cleaned: the friend's badge is taken out of the document only.
CleanedInPart(f) == {Exists} \cup {Badge(g) : g \in bufferChat}

\* What buffercleaner leaves of the badges on screen.
Cleaned(f) == {Exists} \cup {Badge(g) : g \in bufferChat \ {f}}

\* A friend's row is selected: the badges on screen, but for the friend's,
\* replace the current user's buffer document.
OpenChat(f) ==
  /\ screen = "tabs"
  /\ Len(mutationQueue[currentUser]) < MaxOpens
  /\ bufferChat' = bufferChat \ {f}
  /\ LocallyWrite(clientUser, <<Put(Buffer(currentUser), Cleaned(f))>>)
  /\ screen' = "chat"
  /\ UNCHANGED <<authVars, clientUser, signingUp, crashed, history>>
  /\ Tell(mainQueue, {currentUser}, FALSE)

Back ==
  /\ screen = "chat"
  /\ NewTabBar(mainQueue)
  /\ UNCHANGED <<clientVars, authVars, clientUser, signingUp, bufferChat, crashed,
                 begun, finished, sentTo, lost, clicks, faults>>
-----------------------------------------------------------------------------
(***************************************************************************)
(* The network, and the process.                                           *)
(***************************************************************************)
\* Another device's message for a, who can be found by the profile.
FriendSends(f, a) ==
  /\ Exists \in docs[Profile(a)]
  /\ <<f, a>> \notin sentTo
  /\ docs' = [docs EXCEPT ![Buffer(a)] = ApplyTo(MergeInto(Buffer(a), {Exists, Badge(f)}), @)]
  /\ sentTo' = sentTo \cup {<<f, a>>}
  /\ UNCHANGED <<remoteDocs, mutationQueue, persisted, applied, caughtUp, authVars, clientUser,
                 screenVars, mainQueue, begun, finished, lost, shared, clicks, faults>>

Running == screen # "crashed"

\* (The worker runs one account's blocks before the next one's; which are on
\* disk first makes no difference here.)
PersistWrite(a) ==
  /\ Running
  /\ Persist(a)
  /\ UNCHANGED <<authVars, clientUser, screenVars, mainQueue, history>>

\* Only the queue of the client's user is sent.
CommitWrite(a) ==
  /\ Running
  /\ clientUser = a
  /\ Commit(a)
  /\ UNCHANGED <<authVars, clientUser, screenVars, mainQueue, history>>

WriteAnswered(a) ==
  /\ Running
  /\ clientUser = a
  /\ Acknowledge(a)
  /\ UNCHANGED <<authVars, clientUser, screen, signingUp, bufferChat, crashed,
                 begun, sentTo, lost, shared, clicks, faults>>
  /\ LET last == Head(mutationQueue[a]).path = Profile(a)
     IN  /\ finished' = IF last THEN finished \cup {a} ELSE finished
         /\ Tell(IF last /\ signingUp = a THEN Append(mainQueue, [kind |-> "signedUp", account |-> a])
                 ELSE mainQueue,
                 {a}, FALSE)

Waits(a) == \E i \in DOMAIN listeners : listeners[i].account = a /\ ~listeners[i].told

\* The buffer of any account with a listener is watched, whoever is signed in.
ReceiveSnapshot(a) ==
  /\ Running
  /\ a \in Listened
  /\ IsStale(a, Buffer(a)) \/ Waits(a)
  /\ Watch(a, Buffer(a))
  /\ UNCHANGED <<authVars, clientUser, screen, signingUp, bufferChat, crashed, history>>
  /\ Tell(mainQueue, {a}, TRUE)

\* The client is offline: whoever waits for the backend gets what there is.
GoOffline(a) ==
  /\ Running
  /\ Waits(a)
  /\ UNCHANGED <<clientVars, authVars, clientUser, screen, signingUp, bufferChat, crashed, history>>
  /\ Tell(mainQueue, {a}, TRUE)

Fault == faults < MaxFaults /\ faults' = faults + 1

StreamBroken(a) ==
  /\ Running
  /\ RestartStream(a)
  /\ Fault
  /\ UNCHANGED <<authVars, clientUser, screenVars, mainQueue,
                 begun, finished, sentTo, lost, shared, clicks>>

\* The app, crashed or not, starts again, on the login screen.  Auth and the
\* client still know the user; a request may have been carried out.  Of the
\* queues there is what was on disk.
FreshProcess ==
  /\ Fault
  /\ lost' = [a \in Account |-> lost[a] \cup CutOff(a)]
  /\ applied' = [a \in Account |-> 0]
  /\ caughtUp' = [a \in Account |-> {}]
  /\ registered' \in IF request = << >> THEN {registered} ELSE {registered, registered \cup {request[2]}}
  /\ clientUser' = currentUser
  /\ request' = << >>
  /\ screen' = "login"
  /\ signingUp' = NoOne
  /\ listeners' = << >>
  /\ mainQueue' = << >>
  /\ crashed' = NoOne
  /\ clicks' = 0
  /\ UNCHANGED <<docs, remoteDocs, currentUser, begun, finished, sentTo, shared>>

\* Mutants of Relaunch: the badges are restored; the queues are not.
RelaunchWithBadges ==
  /\ FreshProcess
  /\ mutationQueue' = [a \in Account |-> OnDisk(a)]
  /\ UNCHANGED <<persisted, bufferChat>>

RelaunchWithoutPersistence ==
  /\ FreshProcess
  /\ bufferChat' = {}
  /\ mutationQueue' = [a \in Account |-> << >>]
  /\ persisted' = [a \in Account |-> 0]

Relaunch ==
  /\ FreshProcess
  /\ bufferChat' = {}
  /\ mutationQueue' = [a \in Account |-> OnDisk(a)]
  /\ UNCHANGED persisted

OnScreen ==
  \/ \E a \in Account : LoginClick(a) \/ SignupClick(a)
  \/ OtherScreen
  \/ SignOut
  \/ \E f \in Friend : OpenChat(f)
  \/ Back

OnMain == CredentialDidChange \/ SignedIn \/ Created \/ SignedUp \/ BufferCallback

Next ==
  \/ OnScreen
  \/ OnMain
  \/ Answer
  \/ \E e \in Messages : FriendSends(e[1], e[2])
  \/ \E a \in Account : \/ PersistWrite(a)
                        \/ CommitWrite(a)
                        \/ WriteAnswered(a)
                        \/ ReceiveSnapshot(a)
                        \/ GoOffline(a)
                        \/ StreamBroken(a)
  \/ Relaunch

Spec == Init /\ [][Next]_vars
-----------------------------------------------------------------------------
(***************************************************************************)
(* Safety.                                                                 *)
(***************************************************************************)
\* Types; the client's user is the current one but for a notification that
\* waits, and an account's queue holds writes to its own documents only.
TypeOK ==
  /\ FsTypeOK
  /\ currentUser \in registered \cup {NoOne}
  /\ \/ currentUser = clientUser /\ \A i \in DOMAIN mainQueue : mainQueue[i].kind # "auth"
     \/ \E i \in DOMAIN mainQueue :
          /\ mainQueue[i].kind = "auth" /\ mainQueue[i].user = currentUser
          /\ \A j \in DOMAIN mainQueue : j > i => mainQueue[j].kind # "auth"
  /\ screen \in {"tabs", "chat"} => currentUser # NoOne
  /\ \A a \in Account : \A i \in DOMAIN mutationQueue[a] : mutationQueue[a][i].path.owner = a

\* Once sign-up was answered for, to its last write, the buffer can be cast
\* for good: with the account's queue or without it, for listeners that
\* outlive the session, after other accounts and on the next launch.  (A
\* snapshot taken before that may still wait, and end the app.)
BufferStaysReadable ==
  \A a \in finished : Castable(Seen(a)) /\ Castable(remoteDocs[a][Buffer(a)])

\* When nothing waits on the main thread, the badges on screen are those of
\* an account this process has signed in, as the device sees them now.  (Of
\* which one is not certain: the previous account's listeners go on.)
BadgesAreSomebodys ==
  (Running /\ mainQueue = << >> /\ \E i \in DOMAIN listeners : listeners[i].told)
    => \E a \in Listened : bufferChat = FriendsIn(Seen(a))

\* A badge gets into the buffer document of somebody who has no message from
\* that friend only if two accounts were used without a kill in between:
\* buffercleaner then writes one account's badges into the other's buffer.
BadgesOfOneAccountStay ==
  shared \/ \A a \in Account : \A f \in FriendsIn(docs[Buffer(a)]) : <<f, a>> \in sentTo
-----------------------------------------------------------------------------
(***************************************************************************)
(* Liveness, with the fairness of Chat.                                    *)
(***************************************************************************)
Fairness ==
  /\ WF_vars(OnMain)
  /\ WF_vars(Answer)
  /\ \A a \in Account :
       WF_vars(PersistWrite(a)) /\ SF_vars(CommitWrite(a)) /\ SF_vars(WriteAnswered(a))

FairSpec == Spec /\ Fairness

\* Sign-up is finished in the end if the account keeps coming back, whoever
\* uses the device in between, unless a kill came before its last write was
\* on disk: nothing in the app writes the rest again.
SignUpFinishes ==
  \A a \in Account \ Elsewhere :
    []<>(Running /\ clientUser = a) => (a \in begun ~> a \in finished \/ Last(SignUpWrites(a)) \in lost[a])
=============================================================================
