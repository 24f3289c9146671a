# dark_chat: a TLA+ verification project

dark_chat is a chat server in C++ (epoll threads, a command queue, worker threads, PostgreSQL
through pqxx) with a Qt client. Users register, log in, make friends, ask a friend for a session,
and talk two by two. This directory holds TLA+ models of the server and of what its client relies
on, TLC configurations that check them on small instances, and TLAPS proofs.

## 1. The system

### Components

| component | state | operations | who calls it |
|---|---|---|---|
| command queue (`Server/queue_safe.h`) | `std::queue`, one mutex, one condition variable | `push`, `pop_with_check_and_wait` | epoll threads push; workers pop, and push the `delete_user` of a rejected command |
| network front end (`Server/server_handle.cpp`) | epoll sets, `usage` per epoll thread, open descriptors | `accept`, choice of a thread, `EPOLL_CTL_ADD`, `recv`, `close` | the kernel; it pushes `make_new_user`, `delete_user` and client commands |
| user record (`Server/user.*`) | login, status, correspondent, privilege | mutators and `log_off` | workers, under `data_mutex` |
| workers (`Server/server_work.cpp`) | `users_online` (descriptor to user), `login_to_socket` (login to descriptor) | `make_new_user`, `delete_user` | the queue |
| command handlers (`Server/user_work.cpp`) | the same two maps, copies on the stack | 12 user moves | the workers |
| database (`Server/database_handle.cpp`, `dark_chat.backup`) | `Users` with the array `Friends`, `Friendship_requests` | stored procedures | the handlers, one call at a time (`db_mutex`) |
| wire format (`Server/command.*`, `Chat/command.*`) | none | encode and decode a fixed-size command | both ends |
| Qt client (`Client_Linux/Chat`, `Client_Windows/Chat`) | login form, menu mode, one dialog window, what the socket has not read yet | button slots, `server_listener` (one command per `readyRead`), `decoding_server_response`, the lists of friends and requests | the user and the server |
| CLI test client, `main.cpp`, forms | | | |

An epoll thread turns what happens on a descriptor into commands; the queue hands each to one of
several workers; the worker checks what its sender may do now (`authorization`), runs the handler
on the two maps, asks the database **without** holding the lock, and answers with `send()` mostly
**after** it released the lock. Commands of one connection may be executed by two workers at once.

### What is hard

* check-then-act across the unlock around a database query (log-in, session request);
* messages sent after the unlock, in another order than the state changes they report;
* authorization by a status that another worker changes before the handler runs;
* two users changed together (dialogue start, exit, lost connection) while either may vanish;
* `make_new_user`, `delete_user` and `close` racing on a descriptor the kernel reuses;
* in-doubt commits, and stored procedures with keys that are narrower than their checks;
* windows that rely on an answer to become usable again, and that show the past while commands
  are on their way in both directions;
* one dialog that is not modal: it stays open while the user's mode changes behind it, and its
  buttons keep sending;
* counters (`usage`) that several threads update in other steps than the sets they stand for, and
  decrement before they are incremented;
* `EPOLL_CTL_ADD` that fails, `recv` that returns a part of a command or waits for ever for a
  descriptor that was closed meanwhile;
* lists that are packed into one array of 500 bytes without an end mark and taken apart again.

`PROJECT.json` lists every hazard at its line, with the properties that watch it.

### What makes each component correct

* queue: exclusive, FIFO, exactly once, no lost wake-up;
* maps: a login leads to the connection of that login, every authenticated connection is found,
  a closed connection's record goes away;
* sessions: dialogues are two-sided, start by consent between friends, end for both; no circle of
  waiting users;
* friendship tables: mutual, by consent, listed once; pending requests stay answerable;
* client: a disabled form comes back; a prompt reaches a free user; a
  window shows what the server has its user down for once nothing crosses; a client that keeps to
  its windows is not thrown out; a button of a list addresses the user it names;

  (the form, the prompt and the last rule but one do not hold without exceptions; the properties
  and findings say which);
* front end: `usage` counts the connections of a thread, whatever the order of the updates; one
  thread reads a connection, in the order it was written; a connection is closed for a reason of
  its own, and one whose client left does get closed.

## 2. Modules

| module | models | by |
|---|---|---|
| `CommandQueue` | what the server expects of the queue: an atomic FIFO | `Push`, `Pop`, fairness |
| `QueueSafe` | `queue_safe.h`: mutex, condition variable, spurious wake-ups | one action per step between two synchronisation points; refines `CommandQueue` |
| `ServerHandle` | `server_handle.cpp`: the epoll threads, with the kernel, the clients and the closing workers as environment | one action per step that another thread can see |
| `Friendship` | tables and stored procedures of `dark_chat.backup`, commits that fail or are in doubt | one action per procedure |
| `FriendLists` | the lists from the rows of those tables to the buttons of the client (`get_friends_list`, `Command`, `friends_list_show`, `friends_requests_show`) | operators on texts, checked in every state of `Friendship` |
| `Sessions` | the promise about sessions: offline, in the menu, waiting for b, talking to b | one atomic step per promise |
| `User` | `user.h`, `user.cpp`, the access rules | operators on records |
| `ChatClient` | which commands the client's windows and its one dialog offer, what a server command changes in them | operators on windows |
| `UserWork` | `server_work.cpp`, `user_work.cpp`, and the front end and clients as environment | one action per critical section and per `send()` |
| `UserWorkProperties` | what `UserWork` is checked against; the refinement mapping to `Sessions`; the steps that come too late | |
| `DarkChat` | `UserWork` with a channel from `send()` to `Connect::server_listener` | composition: `UserWork`'s actions with its two sending ones replaced |
| `MCUserWork`, `MCDarkChat`, `MCFriendship` | instances for TLC | |
| `QueueSafe_proofs`, `Friendship_proofs`, `Sessions_proofs`, `UserWork_proofs`, `UserWork_table_proofs`, `UserWork_dialogue_proofs`, `DarkChat_proofs`, `ServerHandle_proofs` | proofs | |

`UserWork` uses the FIFO of `CommandQueue` as its queue (`commands`), which `QueueSafe` is shown
to implement. What the friends' commands do in the database is in `Friendship`; in `UserWork` they
are a lookup, a call and a reply (`database_command`), and `Check_friends` is a constant relation.

### How `UserWork` corresponds to the code

* `users`, `login_to_socket`, `commands` are the maps and the queue. A `User` record keeps the
  login, the status and the correspondent; `is_authenticated`, `db_id` and `privilege` are set and
  cleared together with the login. A map node is its descriptor.
* `pc[w]` is where worker `w` is: `popped` a command, authorized it (`handle`), past the database
  query (`checked`), about to queue a deletion (`reject`) or to `close`, or about to `send`.
  `cmd[w]` is its command, `held[w]` the copies `communication_request_processing` makes
  (with its iterator `node`), `out[w]` the messages left to send.
* One action is one critical section of `data_mutex`, as the code holds it; `delete_user` alone
  sends inside. `request_start`, `request_denied` and `request_forward` are the three sections of
  a session request; `authentication_lookup` and `authentication_finish` the two of a log-in.
* `request_denied` writes through the old iterator. If the node was erased (`NoFd`) the write is
  lost, and if the allocator has given its memory to a new node, the new user's status is
  overwritten: `make_new_user` chooses. What else a write to freed memory may do is not modelled.
* `pending` is what an epoll thread decided to push after `accept` or `close` but has not pushed.
* `win` are the client's windows: which one is up (`screen`), how the Menu window is set up (`mode`),
  and what the one `Dialog_window` shows (`dialog`, with the `caller` of a prompt). The last two are
  independent, as in the code: `set_chat_dialogue_mode` does not close the dialog, a late list
  opens it in any mode, and its buttons send what its state says (connect.cpp:307-381). Only a text for
  the user, a press of a button, or a log-off closes what it shows. `set_make_request_mode` opens the form for
  a friend request without any command.
* A message is received by the client when it is sent; only the order of the `send()` calls is
  modelled, no buffers. That is a client that has always read everything. Nothing about windows is
  claimed in `UserWork` but what they show when a prompt arrives (`stale_prompt`): the rest needs `DarkChat`, where
  clients read late and one command at a time.

### How `ServerHandle` corresponds to the code

* `table`, `backlog` and `watched` are the kernel's: which connection a descriptor number stands
  for, who waits for `accept()`, and the epoll set of every thread. A number is handed out again, the
  lowest first, as soon as it was closed; `close()` takes it out of every set. The code only knows the
  number, the model also knows the connection.
* `client`, `sent`, `stream` are the clients: connected or gone, commands sent, and the half commands
  that were not read. Two halves are a command, which is enough for a `recv()` that returns a part.
* `pc[t]` is where thread `t` is in `handle_thread`: `wait` in `epoll_wait`; at an `event` of the
  array `events[t]`; between `accept()` and the announcement (`choose`, which reads the usages one by
  one while others change them, `add`, `count`, `announce`);
  `blocked` in a `recv()` that finds nothing; about to `push`; or between `close`, the
  deletion (`delete`) and `usage--` (`uncount`). `local[t]` are its local variables.
* `usage[t]` is `Thread_handle::usage`, an unsigned number modulo `Modulus`. Thread 0 accepts and
  starts with `AcceptorLoad`, so that it gets connections of its own last.
* `Refuse` and `refused_close` are what `User_work` does to a command without permission:
  `delete_user` is queued, then the descriptor is closed, whoever has it by then.
* A command whose halves belong to two, because a part was dropped before, decodes to a number of
  action that may be negative (dropped) or not (pushed): the model has both.
* `handled`, `refused`, `torn`, `dropped`, `stale` and `drift` are read by properties only. A
  connection is `stale` if its number was still in an event array, in a `recv()`, in a
  worker or in a queued command when it was accepted; `drift[t]` counts the closes that `usage[t]`
  is not told of (a worker closes; a thread closes a number it does not watch).

### How `DarkChat` corresponds to the code

* `transit[fd]` is what was sent and has not arrived, `buffer[fd]` what lies unread in the client's
  `QTcpSocket`. `server_listener` is one `readyRead`: some more commands have arrived, and the slot
  reads the first unread one, as the code does, so a client may stay behind until the next arrives.
* `crossed` is history: the descriptors whose commands, or what they were told, crossed something, until their
  windows have recovered. `WindowsAgree` without it is false, and rightly so: a request that is
  denied while its sender leaves the wait, or two workers who tell a client something at once, leave
  a window that shows something else than the server has, and the client is thrown out for what
  the window then offers. `Recovered` asks for the mode of the Menu window whether it is shown or not: a `session_accepted`
  that is read at the log-in form leaves it in dialogue mode, and `authentication_successful` only
  shows the window again (`menu.cpp:95`), so the next session starts with the buttons of a
  dialogue. TLC finds both properties violated when a crossing is forgotten at the log-in form.
* `RejectedForCause` names the other way to be thrown out, which needs no crossing: the dialog. Answer Yes,
  open the form for a friend request before `session_accepted` arrives, submit it in the dialogue. So
  whatever the dialog sends may be rejected; every other widget is switched with the mode, and what
  it sends is rejected only after a crossing.
* `overtaken` is history too: the descriptors whose `delete_user` was executed before the
  `make_new_user` on its way, or whose number was given out again while the worker that rejected its last user was
  still about to close it, until there is no such record and none to come.

### How `FriendLists` corresponds to the code

* `Letters` are what owners typed, `Column` the blank-padded `CHAR(15)`. `get_friends_list` adds a `+` or a
  blank per row; `get_data` is the way through `Command::data`: `strncpy` leaves a text of 500 or
  more bytes without an end, and the client reads on into whatever lies behind (`Garbage`).
* `friends_list_show` takes cells of 16; `Ends` is where its inner loop meets the end of the text at all.
  `friends_requests_show` takes words, and counts the superfluous blanks over the whole text: beyond
  15 it stops. So two requests are always shown, a third from users with short logins only after
  an earlier one was answered; that is what `RequestsListed` says. `@` and `~` can be registered
  and are not shown (`Clean`).

### Constants that choose an environment

`Polite`: clients send only what their windows offer (otherwise any command at any time).
`MaxInFlight`: how many commands of one connection are queued or executed when its client sends
another. `Settled`: clients act after `make_new_user` was executed. `FdReuse`: the kernel reuses
a descriptor that the server still refers to. `DbFails`: the friendship query may fail.
`Leavers`: which clients close. `Contacts`: whom a client offers to call. `Account`: the logins a client uses. `Moves`: the commands
used. `MaxCommands` bounds the queue when clients act; deletions and `make_new_user` of descriptors
already accepted are still appended. `MaxUnread` bounds what all clients have not read when one acts. Every action has the guards of the code only; these
constants restrict clients and the kernel, never the server.

The code guarantees none of these restrictions. They choose instances that TLC can finish; no theorem
assumes one of them, but for `Polite` in the two about `AskedByFriend`, where an impolite client could say
yes to anybody.

## 3. Runs

Deadlock is checked in the queue and friendship runs. In the runs of `UserWork` and `DarkChat` it is
not: users who are all connected, idle, and whose clients have nothing more to send, are a normal
end. In `front_end` it is not either: a server whose bounded clients have all had their turn waits.

| run | instance | shows |
|---|---|---|
| `queue` | 1 epoll thread, 2 workers, 2 values, 3 pushes | exclusion, no lost wake-up, FIFO refinement with liveness |
| `friendship` | 4 accounts with logins of 1, 6, 7 and 15 letters, failing calls | mutual friendship, open requests, consent; in every state the lists each account is shown name the right users |
| `lifecycle` | 2 connections, 2 fair workers, from the empty server, one command in flight | the two maps agree exactly; refinement of `Sessions`; records of closed connections go |
| `dialogue` | 3 users in a ring, one pair no friends, 2 workers, one command in flight | symmetry, friends only, no circular wait while requests cross |
| `hasty` | 2 users who use both accounts, 2 commands of each in flight, failing queries, log-offs, a lost connection | which late steps break the table, the dialogues and the promises, and that nothing else does; no dialogue without consent |
| `pipelined` | 1 connection, every command, without permission too, 2 in flight | types; a closed connection's record is always about to be deleted |
| `windows` | 2 users with channels who call, talk, make friends, log off and on, one may close, 2 workers | windows agree with the server unless something crossed; nobody is thrown out without a cause |
| `forms` | 1 client with a channel that comes and goes at any time, its number reused at once, 2 commands in flight, fair workers and network | a form is enabled again, with two exceptions; only an overtaken record stays |
| `front_end` | 2 epoll threads, 3 connections on 2 descriptors, 1 closing worker, failing adds, split reads | counters, one reader per connection, order, causes of closes; a client that left is noticed |

Runs that find what the code does differently from its comments, texts or intentions
(each has an entry under `findings`):

| run | finding |
|---|---|
| `double_login` | two overlapping log-ins to one account both succeed |
| `stale_prompt` | a session prompt reaches a user who is waiting or talking |
| `overtaken` | `delete_user` before `make_new_user` leaves a record for ever |

### Why the bounds are enough, and what they leave out

Two workers are enough for every interleaving of two critical sections, of a handler with its own
unlocked window, and of a `send()` with anything; three workers would add two stale windows at
once. Two connections make every pair of roles; a third is needed for circles of three, for
strangers, and for prompts that go stale because of somebody else (`dialogue`, `stale_prompt`).
With more users and every command the state space passes ten million states, so the runs
share the commands among them; every command is in some run, all of them in `pipelined`.

`friendship` scales `Command::data` from 500 to 47 bytes, so that three cells of 16 and three full
columns of 15 fall on either side of the limit. Its `VIEW` leaves out the last reply, which only the
action property reads, and TLC checks that on every step. Four accounts are the fewest with three friends of one user,
who overrun the array, and with a third request behind two.

`front_end` has two threads (one accepts and reads, one only reads), more connections than
descriptors (so that `accept` fails and numbers are reused), a modulus of 4 for 2^32 (so that the
decrement below zero that happens in the code wraps where it can be seen), an initial load of 1 for 500, two commands and one client leaving
in all. Its safety properties are proved for every value of these constants.

`windows` has at most one unread command and one queued command when a client acts. These bounds
restrict clients only: what the workers send is never dropped. Its users log off and on again, since
a window's mode outlives the session. The lists are open from the start (`ChatWindows`); fetching them anew multiplies the
states by about two and was checked once by hand, without another result. `forms` lets its client
act only on what it has read (`MaxUnread = 0`), which is when it can send a form at all; with
`MaxUnread = 1` the safety properties pass on 1.1 million states, and the liveness check takes too long to be a run.

#### One command in flight, and more

`lifecycle`, `dialogue` and `windows` assume `MaxInFlight = 1`: a client waits until its last
command was executed. Nothing in the client enforces that for commands without an answer
(`exit_dialog`, `leave_from_account`, an answer to a prompt), so what these runs show is how the server treats patient
clients, and `LoginTableExact`, `KeepsPromises`, `DialogueSymmetric` and `NoCircularWait` are claimed for those only. They
are false otherwise: a user presses Yes and then Leave, both are authorized in the menu, the answer
is executed first, and `leave_from_account`, which tests no status (user_work.cpp:535-553), logs
off a user who talks; the partner stays in a dialogue with nobody. A call authorized in the menu and executed in
a dialogue leaves a partner in the same way.

What holds for every client is stated as action properties that name the late steps, and that no
other step breaks anything (`UserWorkProperties`, last part):

| property | the only steps that break it |
|---|---|
| `EntriesStayTrue`: an entry of the table names a connection of its login | a connection that is logged in logs in again under another login (`LogsInAgain`) |
| `StaysFound`: a connection is found by its login | none, unless the login is on line twice or its entry is wrong already |
| `NoNewCircle`: no circle of waiting users | a call to oneself; a log-in executed while its connection waits |
| `DialoguesStayMutual`: dialogues are two-sided | a command that would not be authorized any more (`OutOfTurn`: the Leave above); the end of an older call whose caller talks by then (`TalksMeanwhile`: user_work.cpp:243 writes through the old iterator) |
| `PromisesBrokenLate`: the promises of `Sessions` | the two of the line above; a call to oneself |

They speak of a step from a good state to a bad one, so they would be violated by any other handler
that does damage. `hasty` has two users who may use both accounts, so that second log-ins happen, and each cause named
is one: without it TLC finds the property violated on this instance. The exception is the log-in that closes a
circle, for which TLC needs three workers and clients that do not keep to their windows. The late call in a dialogue
needs a third user and is left to the theorems, which say the same for any number of users.

`DisconnectedIsDeleted` and `NoGhosts` assume `Settled`; `overtaken` shows what happens without, and
`DeletedUnlessOvertaken` (`forms`, and proved) says that nothing but being overtaken does it.
`WorkerSymmetry` is sound: workers are interchangeable, no property names one, and
the runs that check liveness (`lifecycle`, `forms`) do not use it.

### Fairness

`QueueSafe!FairSpec` assumes that the operating system runs every thread that can take a step,
and that a worker's loop comes back for the next command; no push and no spurious wake-up is
fair. `UserWork!FairSpec` assumes that somebody takes the head of the queue (this is what `ImplementsFifo`
gives), that each worker finishes its handler (every lock is released, a query returns or throws),
and that an epoll thread pushes what it decided to push. `DarkChat!FairSpecTransmit` adds that the network delivers
(`readyRead` happens as long as something is on its way) and assumes nothing about what has arrived and was not
read: nothing in the client reads it before the next `readyRead`. No client owes a command.

`NoGhosts` needs the workers only. `FormIsAnswered` says what becomes of a submitted form: it is enabled
again, by its answer or by the end of the connection, or its answer lies unread in the socket behind
another command (one `readyRead`, one command read), or the registration was executed for a
connection that is logged in or has no record and gets no answer at all (user_work.cpp:561-571). An unread
answer waits for the next message of anybody, and after a dropped registration only a restart of the client helps; TLC reaches both.

`ServerHandle!FairSpec` assumes that an epoll thread that can take a step takes one, and that a
worker that is about to close does. `HangupsAreSeen` has a premise of its own: no thread stays in
`recv()` for ever. The sockets are blocking, and a thread whose event was consumed by somebody else's
close and reuse waits in `recv()` for the next command of a healthy client, who owes none; without
the premise TLC finds the other clients of that thread unserved.

## 4. Proofs

All theorems are for every value of the constants, under the named assumptions next to their
declarations (disjointness of "no login", "no descriptor" and the like; bounds are numbers).

* `QueueSafe_proofs`: `IInv` joins the types, `MutexOwner` and `NoLostWakeup`; the last alone is
  not inductive, since a worker may only fall asleep on an empty queue because it owns the mutex
  while it tests. From it `TypeCorrect`, `MutualExclusion`, `WakeupsAreNotLost`, and `Refinement` (safety part).
* `Friendship_proofs`: `IInv` joins the keys of the tables, mutual friendship and open requests:
  an accept keeps friendship mutual and listed once because the request it consumes was open.
  From it `TypeCorrect`, `FriendshipIsMutual`, `RequestsStayOpen`, `FriendshipNeedsConsent`.
* `Sessions_proofs`: for any set of logins without `NoLogin`, the promises imply `DialoguesAreSymmetric` and `WaitsAreNotCircular`. The
  second is the argument why asking only free users excludes circles: the last to start waiting
  asked a user in the menu, who is in the circle and does not wait. `Sessions` has no run of its own.
* `UserWork_proofs`: `Invariance` (the types of all ten variables, and that a busy worker has a
  command, a sending one a message, a request past its query a real receiver) and `DialogueNeedsConsent`. Its argument:
  of all steps only `communication_response` writes `in_dialogue` into a record that was not, it
  does so after it re-checked under the lock that the receiver waits for the sender, and it
  touches only these two records.
* `UserWork_table_proofs`: `LoginFrame` reduces every step of the server to a log-in, a log-off, a deletion or
  no change of any login, whatever becomes of the rest. From it `OnlySecondLogInsSpoilEntries` (`EntriesStayTrue`)
  and `OnlyDoubleLogInsGetLost` (`StaysFound`): a deletion and a log-off erase the entry of the login they
  remove from the record, so an entry goes astray only where a record changes its login without one.
* `UserWork_dialogue_proofs`: `RecordFrame` reduces every step of a worker to one of seven changes of the two maps; the
  proofs go on from there, one lemma per change.
  - `OnlyTwoStepsCloseCircles` (`NoNewCircle`): a new wait points at a user who is in the menu at that moment, so it closes
    no circle unless that user is the caller; a record that did not wait before does so by a call only.
  - `OnlyLateStepsLeavePartners` (`DialoguesStayMutual`): while the table is exact and dialogues are mutual, partners find each
    other by login (`Partners`), so an exit or a deletion reaches both; a command executed in its
    turn changes a talking user only by an exit.
  - `OnlyLateStepsBreakPromises` (`PromisesBrokenLate`): in such a state the users' view of the maps changes like one action
    of `Sessions` or not at all (`ViewHandle`). It needs one invariant, `MenuAlone`: a user in the menu has no correspondent.
  - `OnlyFriendsAreAnswered` (`AskedByFriend`, for `Polite`). `Acquainted` follows the approval of the database from the
    query through the copies and the send, `CallersFit` to the prompt, and `Acquainted` again from the prompt's button through the queue: the caller it names
    is a friend of a login of that client, however long ago that was. It is said of the client, not of the account
    it is logged in to by then: a prompt may be answered under the client's next login.
* `DarkChat_proofs`: the same for clients that hear of everything late. The lemmas of the
  three modules above are about a `Step` of the server, which leaves the windows open (`Serves` is a
  worker's step with whatever becomes of them), and every step of `DarkChat` is a `Step` (`TransmitIsStep`). So `LateConsent`,
  `LateTables` and `LateDialogues` follow from them. `LateTypes` needs `ChannelsOK`: what is under way to a client
  is a sequence of real commands, and none once its connection is closed. `LateAnswers` follows an approved prompt through the channel too (`UnseenFit`).
  `OnlyOvertakenRecordsStay` (`DeletedUnlessOvertaken`) has the inductive invariant `Doomed`: the property itself says nothing of a record
  that is still to be created, nor of a connection that its worker has rejected and not closed yet, and
  a step from either would break it.

  None of these theorems assumes `Settled`, a bound, one command in flight, drained descriptors, distinct accounts
  or a database that answers.

  `SpecTransmit`, which these theorems are about, starts with the empty server; the run `windows` starts
  later, where everybody is logged in, to save states.
* `ServerHandle_proofs`: five results about any number of threads, workers, connections and
  descriptors and any width of the counters, all from the kernel's and clients' free choices.
  `TypeCorrect`: the types, among them that a usage stays in its width. `ReadByOneThread`: `Watching` strengthens `WatchedOnce` by
  what makes `EPOLL_CTL_ADD` safe: one thread accepts, a watched number is open, so a number that
  was free is watched by nobody. `UsageIsAccounted`: the equation `LoadIsAccounted` is preserved
  step by step as an equation of remainders (`ModStep`: increments and decrements may be reduced one
  by one or all at once), so no order of the two threads' updates loses one. `ClosesAreExplained`: `Causes` follows a reason from the `recv()` that
  saw it, through the command in the queue and the worker, to the `close()`; a number
  changes hands meanwhile only if its new connection is `stale`.
  `PushedInOrder`: `recv()` and `push()` are two steps; `Reading` shows that
  whoever refers to a connection (in a set, in an event, in `recv()`, before `push()`) is
  one and the same thread, and `Ordered` counts: what was pushed, what is about to be,
  and what is left in the stream are the sequence that was sent.

Model-checked only: every liveness property; `LoginTableExact`, `KeepsPromises`, `DialogueSymmetric`, `NoCircularWait`, `DialogueOnlyFriends`
and `DisconnectedIsDeleted`, which need patient or settled clients (what is proved instead is how they can come to fail); the two lists (what `FlattenSeq` and the scan of the
client compute for every input needs induction over texts, which the provers here do not have);
`WindowsAgree` and `RejectedForCause` of `DarkChat` (`Caught_up` folds over a channel of any length: the same).

## 5. Not modelled

* Passwords, message texts and layout; the order of bytes in the frame of a command.
* Full send buffers: a `send()` under the lock can block everybody when a client stops reading for
  thousands of commands. `DarkChat` lets the kernel take every command at once.
* In the client: a read of less than a command, which ends the application, and the connect timer.
* `main.cpp` and shut-down (`Start` never returns, and nothing writes its descriptor).
* The CLI client, which speaks an older protocol; whatever it sends is within `Polite = FALSE`.
* `size`, `front`, `back` and the plain `pop` of the queue, which only a destructor calls.
* Database reconnection is the choice that a call fails; what the allocator does with freed nodes
  is reduced to "lost or in the new node".
* The Windows client is the Linux client but for casts; `map` names one of the two files for
  each shared definition.

## 6. Plan

1. Compose `ServerHandle` with `UserWork`, in place of its `Accept`, `Disconnect` and `PushPending`;
   property: the record of a connection is never used by the commands of an earlier one on the same
   number unless it is `stale`.
2. The client's connection attempt: `Connect`'s timer against a late `connected`.
3. Proofs: `RejectedForCause`, from an invariant that says which of the unread commands last changed a window.
