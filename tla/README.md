# A TLA+ model of Mobius

Mobius is a server for the Hotline protocol, written in Go, with a macOS
application that configures it and runs it as a child process. This directory
holds TLA+ modules that model the server's stateful parts, TLC configurations
that check them on small instances, and TLAPS proofs of the properties that
matter most. `PROJECT.json` maps every definition to the source lines it
stands for.

## The system

| Part | State | Operations | Hard because |
|---|---|---|---|
| Client sessions (`hotline/server.go`, `client_conn.go`, `client_manager.go`, `stats.go`) | list of clients by 16-bit ID, connection statistics, each client's account and name | login, service loop, `Disconnect` | one goroutine per connection; a client is listed before it has an `Account`; panics are recovered per goroutine; `Disconnect` is called by the session, by delayed goroutines and by the REST API |
| User administration (`internal/mobius/transaction_handlers.go`) | none of its own | disconnect, ban, edit and delete users | acts on other sessions' state; sleeps before it disconnects |
| REST API (`internal/mobius/api.go`) | none of its own | ban, unban, lists, statistics, reload, shutdown | runs against live sessions |
| Ban list (`internal/mobius/ban.go`, `redis_ban.go`) | three maps and `Banlist.yaml`, or Redis sets and expiring keys | six changes, queries, load | file rewritten in place, rollback on failure, reload; in Redis a query or a change of several commands |
| Accounts (`internal/mobius/account_manager.go`) | cache and one YAML file per login | create, update with rename, delete, load with migration | read-modify-write over two lock sections; file and cache change one after the other |
| Threaded news (`internal/mobius/threaded_news.go`) | tree of groups and linked articles, `ThreadedNews.yaml` | create and delete groups, post, delete, load | links by number, numbers given again, rollback of several changes |
| File transfers (`hotline/file_transfer.go`, `transfer.go`, `server.go`) | registry by reference number, `.incomplete` files, statistics | request, claim, upload, folder upload, download | second connection, resumption, concurrent uploads of one name, crashes |
| Files (`hotline/file_wrapper.go`, handlers) | a file is up to four directory entries: data, partial upload, resource fork, information | move, rename, delete, comment, new folder | entry by entry, while others do the same or the server dies |
| Chat (`hotline/chat.go`) | chats and their members | new, invite, join, leave, subject | members disconnect |
| Message board, agreement (`internal/mobius/news.go`, `agreement.go`) | text with one read offset | read, post, reload | offset shared by all readers |
| Presence (`hotline/server.go`, `client_conn.go`, `user.go`) | each client's flags and idle time, the outbox | idle timer, user information, edits of an account, announcements | three writers of the same two bytes under different locks or none; sends with a lock held |
| Wire format and client library (`hotline/transaction.go`, `field.go`, `handshake.go`, `client.go`) | stream, scanner buffer, requests that wait for a reply | encode, write in pieces, scan, decode, match replies | lengths of 16 bits, a buffer of 64 KB, several writers of one connection, a stream that is cut anywhere |
| Trackers | none | registration, listing | sequential |
| macOS application (`MobiusAdmin`) | child process, status, polled data | start, stop, restart, forms | termination handler against stop and start |

The parts meet in four places. A session calls the ban list and the accounts
during login and from its handlers. Handlers and the REST API reach other
sessions through the client list. Requests on a session's connection register
transfers that other connections carry out. Everything that a session is to
learn goes through the outbox, one goroutine for each transaction.

What makes each part correct: no session, count, reference number or file entry
outlives its owner; nobody's cleanup touches what belongs to somebody else;
what was acknowledged is found after a restart, what failed is not; a change of
rights reaches everybody it is about; links lead where they say; a finished
upload is what one client sent.

## Modules

| Module | Models | Notes |
|---|---|---|
| `Sessions` | connections from accept to end, kicks, evictions, REST bans | one action per stretch between two locks |
| `MCSessions` | instances of it | |
| `SessionsProofs` | theorems about `Sessions` | |
| `BanMgr` | what a ban manager promises | abstract specification |
| `BanFile` | the file-backed ban manager | implements `BanMgr` |
| `RedisBan` | the ban manager in Redis, command by command | implements `BanMgr` |
| `Bans`, `MCBans` | the server's ban manager: one of the two, chosen at the start | composes `BanFile` and `RedisBan` |
| `BansProofs` | theorems about both ban managers | invariants and refinements |
| `Accounts`, `MCAccounts` | account manager and the handlers that edit accounts | |
| `AccountsProofs` | theorems about `Accounts` | |
| `ThreadedNews`, `MCThreadedNews` | groups, articles, links and their file | |
| `Transfers`, `MCTransfers` | registry, transfer connections, partial files | |
| `Chat`, `MCChat` | private chats and the handlers that use them, the unordered outbox | |
| `ChatProofs` | theorems about `Chat` | |
| `FlatNews`, `MCFlatNews` | the message board, its readers and its file | |
| `NewsProofs` | theorems about `ThreadedNews` and `FlatNews` | |
| `Files`, `MCFiles` | the file area and the handlers that change it | |
| `FileAreaProofs` | theorems about `Transfers` and `Files` | |
| `Presence`, `MCPresence` | flags, idle timer, announcements, the outbox | |
| `PresenceProofs` | theorems about `Presence` | |
| `Wire`, `MCWire` | transactions on a connection, both ends | |
| `WireProofs` | theorems about `Wire` | |
| `ServerProcess` | the macOS application and its child processes | |

### Sessions

`pc[c]` is the place in `handleNewConnection` where the goroutine of connection
`c` stands, or the handler it is in. The other variables are the fields of
`ClientConn` (`login`, `account`, `nick`, `id`), the client manager (`clients`,
`nextID`), the account names, the three ban maps, the statistics, the delayed
goroutines (`sleeping`, `closing`) and the REST handler (`api`).

- A panic in a handler is recovered by the deferred function of the goroutine:
  the session ends through its deferred calls. Three panics are modelled where
  they occur: an unknown client ID in `HandleDisconnectUser`, a listed client
  whose `Account` is nil in the loops over all clients, an agreement request
  without options.
- `HandleDisconnectUser` is one action: what it reads of the target cannot
  change its decision once `Account` is set, and the delay follows anyway.
- The end of a peer's input is noticed by the service loop only; before, it is
  a failed login.
- Saving the ban list may fail (`AddBan`); what is in its file is the subject
  of `BanFile`.
- A temporary ban that has run out is the same as none.

### BanMgr, BanFile, RedisBan and Bans

`BanMgr` says what callers rely on. Every step that returns from a call says so
in `answer`, with the call and whether there was an error. A call that returns
no error has had its effect (`Succeed`). One that returns an error has had none
(`Fail`); only a store on the other side of a network may have carried it out
without the answer coming back (`Doubt`, with `Remote`), and there `UnbanIP` is
several steps (`BeginUnban`, `EndUnban`): it returns no error only if no ban is
left of those it found, and with an error it may have lifted some of them.
`before` is a history of the latter. Without a call, bans change only when
their time is over, or when a file is loaded that was tampered with, torn or
unreadable (`Reread`, `Unreadable`).

`BanFile` has the maps, the bytes of `Banlist.yaml` up to what `Load` tells
apart, and every way `os.WriteFile` can end. `trusted` is a history variable.
It implements `BanMgr` with `Remote` false.

`RedisBan` takes each Redis command as a step. `IsBanned` is `IsMember`,
`Exists` and `TTL`; `UnbanIP` is two steps, the pipeline's two commands, of
which the second may never be carried out. Whatever was carried out, the reply
may be lost, which the caller sees as an error (`Done`). A command that does
not reach Redis changes nothing and is no step. The retries of the client
library are left out: they repeat commands that change nothing the second time,
unless somebody else came between. `time` is the clock of Redis, and a key goes
when its time comes (`Tick`). For the refinement an address has the set of its
bans, the permanent and the temporary one, and `trusted` is constantly true:
nothing but the commands changes them. The history in `check` says which kinds
of ban were in force during the whole check, and whether one was at any time.
At each address at most one `UnbanIP` is between its commands at a time, which
bounds the model. `Bans` chooses the manager as `main.go` does.

### Accounts

A handler that edits an account is two actions: the first takes a copy
(`Get`), the second calls `Update` or `Create` with it. `HandleSetUser` then
takes a copy of the client list (`ListClients`) and tells the sessions one by
one (`Tell`), in any order, without a lock: other handlers, logins and other
such loops come in between. A listed client without an `Account` ends the loop
by a nil pointer (`TellPanics`), also when it has given up its login meanwhile
(`Forsaken`). A client that has left is told nothing any more. `stale` is a
history of the logins whose sessions may have older rights: a loop panicked, a
later change overtook it, or two loops for one account overlapped.

An interrupted write leaves one of the prefixes of
the YAML text that the loader tells apart (`Interrupted`). It is assumed that
no login is a prefix of another one, so that a cut off file never names another
account. The evictions that follow a deletion are in `Sessions`.

### ThreadedNews

The tree is a function from paths to groups, of at most two levels. `uid` and
`of` are history: they tell which post an article is and which one it answers,
independently of the numbers and links that the code keeps. `drift` records
that a fault the code does not undo left memory ahead of the file, `pruned`
that articles were deleted from a category.

### Transfers

`h[c]` is the goroutine of a transfer connection. A file is an inode whose
content is a sequence of blocks of what clients send, so that appending,
resuming and mixing can be told apart; `inc` and `fin` say which inode is under
the name with `.incomplete` and under the name itself. `spoiled` names the
inodes for which the code cannot be expected to produce a whole file: written
by two connections at a time, appended to at another place than the client was
told, or renamed by somebody else or after an error. A download is one step
that changes nothing. `HandleUploadFile` looks at both names in one step.

### Chat

Every call of `MemChatManager` is a step, so that `HandleJoinChat` is four:
tell the members, join, read the subject, list the members. `pc[c]` says which
is next. A connection stands for its client ID (fewer than 2^16 connections),
and a random chat number is a new one. `knows` and `told` are histories of
what the handlers decide to tell a member; invitations and texts travel through
`net` and arrive in any order, or never if the client is no longer listed.
Disconnecting removes nobody from a chat, as in the code. Clients name chats
whose number they were given, or chats that do not exist.

### FlatNews

`data`, `offset` and `boardFile` are the fields of `FlatNews` and its file,
byte by byte: post `p` is `Size[p]` bytes that name it and their places.
`HandleGetMsgs` is a `Seek` and as many `Read`s as it takes, each of any number
of bytes. `got` is what a reader has received, kept as long as it is `alone`:
no other reader and no reload got in its way. `first` are the posts that were
on the board when it began, `torn` those that the offset stood in, more bytes
deep than the new post is long, when a post was put in front (`Torn`): the
reader then gets some of their bytes twice, but not in one piece. The temporary
file is not part of the state: nothing reads it. Replacing line breaks is left
out.

### Files

`node` is the directory tree, entry by entry; `of` and `text` say whose side
entry one is and which comment it holds. A handler runs up to its first change
in one step and makes one change in each further one, so that requests of other
connections and crashes come in between; `req[c].at` is the next entry of
`File.Move` and `File.Delete`. Renames replace files and fail on folders as
`os.Rename` does. An upload makes its partial file, gets its data and is
renamed. `loose` is a history: the files for which the code does not keep the
side entries together, each for one of the four reasons that
`SideEntriesFollow` names. `Loosen` adds to it in every step that changes
entries or requests: what requests of overlapping places are about and find
there (`Contending`, `Involved`), the owner of a fork that is overwritten for
another file (`OthersFork`), and whatever comes to share a name with another
file or with what a loose one left (`Caught`). Aliases and listings are left out, and an upload is
one block (its contents are the subject of `Transfers`).

### Presence

`flags[c]` are the two bytes of `UserFlags`. `Flags.Set` is two steps, a read
and a write, since those who call it hold different locks: the timer and the
end of `handleTransaction` hold the client's own, user information none, and
`HandleSetUser` only looks at the list. `mu[c]` is that lock. A handler builds
its announcement from the flags and hands it to the outbox later. `told` is a
history of the sessions whose flags were announced after the last change of
them, `crossed` of those whose flags an edit of the account wrote over.
`edit[e]` is the loop of `HandleSetUser` in the session of administrator `e`:
the loops of several may overlap. The
outbox takes whatever is sent (`OutboxReady`), because `processOutbox` starts a
goroutine for each transaction; `pending` says that some goroutine still waits
for a peer to read. Idle time is counted in rounds of the timer, up to one more
than the limit. Keep-alive requests, which do not count as activity, change
nothing here.

### Wire

The stream is a sequence of digits of two bytes each. A goroutine in `io.Copy`
writes pieces of `Chunk` digits; the client holds a lock meanwhile, the server
does not. The scanner reads when its buffer holds no complete transaction and
gives up when the buffer is full. `Decode` is total: what it cannot cut into
the announced number of fields ends the connection. `torn` is a history: the
pieces of two of the server's transactions alternated.

### ServerProcess

One action is one turn of the main thread. `handled` are the children whose
termination handler is in place, `queued` the blocks that handlers have put on
the main queue. A click may be handled before a queued block. Which exit code a
child had is chosen when its handler runs.

## Runs

Every bound is a constant of the configuration.

| Run | Shows | Bounds |
|---|---|---|
| `sessions` | no ghost entries, exact count, own entries only, evictions complete, evicted sessions leave | two connections on one address, an administrator and a guest account; enough for a kick, an eviction and a login to overlap |
| `sessions_api` | an answered ban has disconnected everybody it matched by user name or address | REST requests by address, nickname and user name, and an unban; connections are symmetric |
| `bans` | file and memory agree as long as nothing failed; a check in Redis is right; both refinements | two addresses, one user name, one nickname, a clock of one tick, temporary bans of one tick, any number of changes, one `UnbanIP` of each address between its commands; addresses are symmetric |
| `accounts` | cache and files agree, rights stay confined, sessions are told | two sessions, three requests, one interrupted write; sessions are symmetric |
| `threaded_news` | memory is file, links ordered, threads complete, parents right | a bundle, a category in it, three articles, one fault |
| `transfers` | finished uploads are whole, statistics exact, numbers forgotten | two transfers, two connections, two files, two sources of two blocks; all symmetric |
| `chat` | texts stay private, subjects reach members, of two members one knows the other, leaving reaches everybody | three sessions, one of which refuses chats, one chat, two subjects, five requests: two can join while a third leaves or renames |
| `flat_news` | acknowledged posts stay, an undisturbed reader gets every post in one piece | two readers, two posts of one byte and one of three, three faults, edits or reloads; readers and the short posts are symmetric: a post can be shifted by less, as much or more than the reader has of it |
| `files` | side entries stay with their file; one maker of a folder | two sessions, one without the right to rename files, three requests; two names, a folder with a file in it and a file with comment and resource fork at the start: every pair of requests meets at every entry |
| `presence` | flags are announced, away means idle, inactive sessions go away, nobody is held up | two sessions, one of which makes a request, two administrators that edit its account, a limit of one round; edits take the right to disconnect away, a request with options sets one of them: timer, session and both edits overlap in every way |
| `wire` | what is read is what was sent, replies meet requests, what fits arrives | digits below 16, a buffer of 16 digits, pieces of 8; a request with and one without an answer, a small push and one with a field of 17, which exceeds length, buffer and piece |
| `process` | violated: the application loses a running server | three launches, one shutdown task |

Two or three actors are enough for the races here: every property relates one
actor to one or two others.

Deadlock is checked in `bans`, `flat_news` and `presence`: in the other
instances the number of requests is bounded, so that they really stop.

### Fairness

`sessions`: `FairSpec` asks that a goroutine that can run does (`Progress`,
`Kick`, `ApiHandler`), which the Go scheduler gives. Peers, administrators and
clocks promise nothing: a connection that nobody closes may stay for ever.

`presence`: strong fairness for the goroutine of a session and for the timer,
because both wait for a lock that is taken again and again (a `sync.Mutex`
hands itself to whoever has waited for a millisecond), and the ticker ticks;
weak fairness for each edit, which waits for nothing. None for peers that read
what they are sent (`Deliver`), for requests and for edits to begin.

`wire`: weak fairness of `Progress`: bytes that were written arrive, and both
ends go on reading. Nobody has to send anything.

## Findings

`process` violates what two comments of `ProcessManager.swift` intend
(`PROJECT.json` has the lines). A server that ends by itself puts a block on
the main queue. If a restart has its turn before that block, the block finds a
process, which is the new one, and drops it: the application shows a stopped
server while it runs, cannot stop it, and the next start finds the port in use.

The models also show, without a run for each:

- Sessions: a client that is logging in has no `Account`, and a ban by user
  name that meets it panics and leaves those after it connected; a client whose
  login is under way can be disconnected although its account is protected;
  the peak of connections is compared with one list and set from another.
- Bans: a temporary ban on file takes the place of a permanent one. In Redis, a
  temporary ban that ends just as a permanent one is made is missed by a check
  whose commands fall before and after.
- Accounts: an edit of the access bits puts back the password that another
  administrator has changed since (`HandleUpdateUser`), and can bring back a
  deleted account. Two administrators who edit the rights of one account at the
  same time can leave a session with the older ones, although the later loop
  ran to its end: the loops hold no lock, and each session is told by both.
- News: the first-child link of an article can lead to an article that is no
  reply to it, when the number of a deleted article is given again.
- Transfers: the check for an existing file is made long before the rename, so
  that the second of two uploads of one name replaces the first; a reference
  number that the client is not told stays in the registry.
- Files: renaming a folder leaves its comment behind; moving a file onto
  another replaces the data and inherits its side entries; a partial upload can
  be deleted but not moved; the comment of a file is written before the right
  to rename it is checked.
- Chat, message board: of two sessions that join a chat at the same time one
  may never be told of the other; two readers of the board get parts of it, and
  even a lone one gets a post garbled when it stopped in the middle of it and a
  shorter post was put in front before it read on.
- Bans in Redis: an `UnbanIP` that returns an error may have lifted the
  permanent ban of the address and left the temporary one.
- Presence: `HandleSetUser` sets the administrator flag by the old rights; an
  edit can bring back flags of a moment ago, which last until the next request
  or round of the timer; two announcements may arrive in the other order.
- Wire: a handshake that arrives in two pieces is refused; two transactions of
  more than one piece can get mixed; one of more than 64 KB ends the connection
  of this client library.

## Proofs

TLC checks the instances above; the theorems hold for every value of the
constants that satisfies the named assumptions: any number of connections,
names, files, articles, requests and faults. The bounds `MaxRequests`,
`MaxFaults` and the like only have to be numbers. The assumptions are that
values standing for "none" differ from real ones, that sets which are counted
are finite (`Conns`, `Handlers`), and, in `ThreadedNews`, that groups are nested
at most two levels deep. `Files` starts from any tree in which side entries lie
beside their files and no two entries at one place (`TreeAssumption`); its
requests name the root or a folder in it (`PathsAssumption`), while the tree
may be as deep as moves make it. In `FlatNews` a post has at least one byte, and
any number of them. In `Wire`, a piece and the header are shorter
than the buffer, whose size in digits a digit can count (`SizeAssumption`:
pieces of 32 KB, a buffer of 64 KB and digits of 16 bits in the code), the
server makes no replies of its own accord (`TransactionAssumption`), the sizes
of transactions fit into 32 bits (`CountAssumption`), and requests have different
numbers (`IdAssumption`).

The definitions of `Transfers` and `Files`, and of both kinds of news, stand
side by side in one module of proofs each, because the pairs are about one part
of the server; no proof about the one uses the other, but for general lemmas.

Most properties here say something of the moments when nobody is at work, or
except what the code cannot be expected to get right. None of those is
inductive. The invariants add what holds in between: who still owes a message,
an announcement, a count or an eviction, and whose file, entry or number it
is. Each module states its invariant first and then, where a step does more
than one thing, a lemma that reduces the action to its effect on what the
invariant reads; there is one step of the proof for each action.

`SessionsProofs`

- `TypeCorrect`: types, strengthened by `LoggedIn` (a session that is served
  has an account), without which `Named` would leave its type.
- `NoGhosts`: a goroutine that has ended has no entry. The invariant behind it
  (`Listed`) says that a connection is listed only under its own ID and only
  between registration and its deferred `Disconnect`; no action enters a
  connection twice.
- `CountCorrect`: the statistic is the cardinality of the set of served
  sessions; one lemma per change of that set, from `FiniteSetTheorems`. The
  clamp in `Decrement` is never what saves it.
- `ServedStaysListed`: until the counter of IDs wraps, everybody on whom
  `Disconnect` can be called has an ID of its own (`FreshIDs`), so that nobody's
  disconnection removes somebody else's entry.
- `DeletedIsEvicted`: a client that is entered into the list has no account yet
  (`Unloaded`) and is given one only if that still exists, so that the loop of
  the eviction finds everybody who has the account already, and nobody gets it
  after.
- `BannedAreDisconnected`: how far the REST handler has come (`Scanned`). The
  address and the account of a listed client do not change, so a match stays
  one; a nickname does change, and is not promised.

`BansProofs`

- `TrustedFile`, and `FileIsCurrent` for the server with either manager: the
  invariant that a trusted file decodes to the maps in memory is inductive
  together with the types. `Refinement` and `FileKeepsPromise`: it makes every
  step of `BanFile` a step of `BanMgr` or a stutter.
- `ChecksAreRight`: what `IsBanned` has learnt between its commands
  (`Learnt`): behind the first one the address is not permanently banned all
  the time, so that only a temporary ban can still be there from the start.
- `FileKeepsPromise` and `RedisKeepsPromise` are about the answers, too: each
  step that returns is shown to be the step of `BanMgr` for that very call and
  answer. For the file that is `Succeed` or `Fail` and never another, since a
  failed save is taken back.
- `RedisKeepsPromise`: every command changes the bans of one address, or one
  name, or nothing (`RedisCases`). `before` in `RedisBan` is the same set as in
  `BanMgr` (`SameStill`), and the second command of `UnbanIP` leaves none of it:
  the permanent ban went with the first command, and a ban that is there again
  was made by somebody else since.

`AccountsProofs`

- `InSync`: an account is cached under its own login (`CacheLogin`), and a file
  that names another login than its own names one that an interrupted
  operation was about (`Claimed`). Without the second, loading could put a
  stale account over a good one.
- `RightsConfined`: where nobody may modify accounts, neither files nor
  handlers hold a right that nobody had at first (`Confined`), files because
  they are what a restart reads.
- `SessionsTold`: while a loop is under way, the sessions that it has behind it
  or need not look at have the access that it tells (`Telling`), as long as it
  tells what is in force and is the only one for its login (`Relied`, `Sound`).
  A session that logs in after the list was copied has the new access from the
  cache; one that logged in before is in the list, or ends the loop.
- `TypeCorrect`: with what a handler holds between its two lock sections
  (`Jobs`) and that nobody is connected while the server is down (`Down`).

`NewsProofs`, threaded news

- `MemoryMatchesFile`, `LinksInOrder`, `ParentsAreParents`, `ThreadsComplete`,
  `TypeCorrect`: one invariant for the tree in memory and for the one on file
  alike (`Sound`), since a restart takes the one for the other: links lead to
  their own side, the parent is the article answered, a category that lost
  nothing has no gaps, and nothing is below a group that is not there. That a
  largest number exists comes from `WFMin` of `WellFoundedInduction`; what
  `PostArticle` does follows from there being one and only one.

`NewsProofs`, message board

- `AckedKept`: together with `KeptInMemory` (the acknowledged posts are in
  memory, too) the property is inductive: writing makes the file what the
  memory is, reloading the other way round.
- `ReadsWhole`: an undisturbed reader has each post already, or the post lies in
  the board at a place such that the reader's last bytes are what lies between
  its beginning and the offset (`InSight`, `Follows`). Reading on extends both
  sides alike (`FollowsOn`); a post put in front moves that place behind the
  offset, unless the reader has more of the post than the new one is long, which
  is what `torn` says. At the end nothing is behind the offset, so that the
  reader has the whole post (`CaughtUp`). That there is only one such reader
  (`OnlyOne`) keeps others from moving the offset.

`FileAreaProofs`, transfers

- `UploadsIntact`: no file has two names (`OneName`), what a connection may
  still create is untouched (`Fresh`), and what an unspoiled file holds is what
  its only writer has received (`OneWriter`). A connection that ends leaves
  part of one source behind, which is what resumption starts from.
- `CountsCorrect`: cardinalities again; the connections at work are those
  between `Increment` and `Decrement`, and a banner is never among them
  (`Stages`).
- `FinishedForgotten`: numbers are drawn once (`Registry`).

`FileAreaProofs`, files

- `FilesInvariant`, from which the other three follow. `SidesFollow` is about
  files that no request is about; what the invariant says of the others is that
  a side entry lies beside its file unless it is `Behind`: the request that
  took the file away has not come to that entry yet (`Near`). The comment in an
  information fork is that of its file unless a request has it open to write
  it (`Texts`), a file with a comment has a fork (`Noted`), and what lies beside
  a file is its own (`Own`). That the entry a request left behind is
  still where the request looks for it needs more: the file of a request is where it
  was found or moved to (`Placed`), no other file lies there (`Alone`), an open
  fork is still in place (`Handles`), and of two requests that could disturb
  each other both files are loose (`Rivals`, `Contest`).
- Each step is shown to be `Local`, that is, to change entries at the places of
  its own request only, then to leave alone the files it is not about
  (`Undisturbed`) and to keep its own in order (`Followed`). Deleting a folder
  takes everything below it: `Below`, a recursive function, is shown to be
  closed both ways (`BelowIs`), by an induction over a set of numbers, and
  nothing else about it is used.
- `OneMakerEach`: `Mkdir` fails on an entry that is there, and gives a new one
  one maker; no other step names makers.
- `FilesTypeCorrect`: types.

`ChatProofs`

- `TextsStayPrivate`: who can know a number at all (`Numbers`, `Placed`); a
  session left in a chat whose invitation failed never learnt its number, and
  nobody else can be told it.
- `SubjectsReach`, `MembersSeen`, `LeaversForgotten`: for every member there is
  a message sent or a handler that still owes it (`Told`, `Seen`,
  `Forgotten`). That only one of two members need know the other is all that
  the code gives: `MembersSeen` needs no more than that each lists the members
  after it has joined.

`PresenceProofs`

- `ChangesAnnounced`: whoever writes flags announces them later, or has built
  an announcement that is equal to them still (`Owed`, `Announcing`).
- `AwayIsIdle`: the idle time does not change while the timer has the lock, and
  the timer has one lock at most (`OneAway`); each edit writes at one session at
  a time (`OneEdit`), however many edits overlap.

`WireProofs`

- `RoundTrip`: `Decode` undoes `Encode` for every transaction of at most `W`
  digits, with any number of fields of any length. Both are recursive over the
  fields; a recursive function is shown to satisfy its own equations
  (`Recursion`), and where its fields start and end follows by induction over a
  set of numbers (`Induction`), a form the provers can use: the set is built
  for the purpose and shown to hold 0 and successors.
- `ReceivedIntact`: what is in the scanner's buffer, on the wire and still with
  the writer is, in this order, the encoding of the transactions that were begun
  and not read (`Flow`). The scanner cuts the first one off exactly at its end
  and not before all of it is there; one with a field whose length was reduced to
  its width is longer than the buffer, so that it is never decoded.
- `RepliesMatched`: before a reply is begun, its request is in `activeTasks` or
  has been answered (`Waiting`): the client enters it before it writes, and the
  server replies to what it has read, which is what was written.

Every safety property of a passing run is proved. Only model-checked:

- liveness (`EvictedLeaves`, `InactiveGoesAway`, `NobodyIsHeldUp`, `AllArrive`),
  which the prover does not handle;
- the finding in `ServerProcess`, which a counterexample shows.

## Not modelled

- The agreement: the same shared offset as the message board, without writes.
- The online set in Redis: one member per login, name and address, which
  sessions that agree in these share; only the REST API reads it.
- Instant messages and broadcasts, listings of files, news and users, aliases:
  they read state that is modelled, or add an entry of no further effect.
- The encodings of file objects, names, times, news lists and access bits:
  sequential, and covered by the repository's tests.
- Trackers: a datagram without an answer, and a parser.
- Start-up beyond the ban manager, configuration, logging, TLS, rate limiting.
- The login sequence of the client library, and the macOS application beyond
  its child process: forms over files and over the REST API.

## Plan

The components above are done, and every safety property of a run is proved.
What could come next:

1. A chat server in which a client that disconnects leaves its chats, should
   the code come to do so: `LeaversForgotten` has to hold for it, too.
2. The login sequence of the client library on top of `Wire`, with the handlers
   a client registers.
3. Aliases in `Files`, which would make an entry reachable under two paths.
