# A TLA+ model of the Virdan server

Virdan is a backend in Go (fiber, PostgreSQL through pgx, Redis, MinIO) for
communities: users sign up with an OTP sent by mail, create *servers*, post
images on them, like and comment. This directory holds TLA+ models of its core
logic, the TLC instances that check them, and proofs that TLAPS checks.

    tlc -config MCSignup.cfg MCSignup      # a run: see PROJECT.json, "runs"
    tlapm SignupProofs.tla                 # a proof module

`PROJECT.json` lists components, runs, mutants, the source lines behind every
definition (`map`), findings, hazards and theorems. All paths below are
relative to `src/` unless they name a module.

## 1. Inventory

One process serves HTTP. Each request runs in a goroutine of its own through
handler -> usecase -> repository, and meets other requests only in the stores:
PostgreSQL (rows, unique indexes, foreign keys, transactions), Redis (strings,
hashes, time to live) and MinIO (objects). No goroutine shares memory with
another, apart from the clients of the stores and their connection pools; only
`main` and the goroutine it starts to listen share a variable. There are no locks,
no background jobs and no queues in the code, and the only retries are those of
the Redis client: what is hard is everything between two commands of one request,
and what the end of the process does to them.

| Component | Sources | State | Operations | Status |
|---|---|---|---|---|
| Signup and username change | `internal/usecase/user_usecase.go`, `internal/repository/user_repository.go`, migration of `users` | Redis hash `signup:<session>` (email, otp, deadline, step, username), Redis string `signup_email:<email>`, table `users` | StartSignup, GetSignupStatus, VerifyOtp, VerifyUsername, VerifyPassword, UpdateUsername | modelled: `Signup`, `Registration` |
| Posts, likes, comments | `internal/usecase/post_usecase.go`, `internal/repository/post_repository.go`, migrations of `server_post*` | `server_posts`, `server_post_images`, `server_post_likes`, `server_post_comments`, objects in the bucket | CreatePost, UpdatePostCaption, DeletePost, LikePost, UnlikePost, CreateComment, DeleteComment, GetPost, the lists | modelled: `Posts`, `Forum` |
| PostgreSQL connection pool | `internal/config/postgresql.go`, every `DB.Begin` and query | at most 20 connections, who waits for one | acquire, release, the end of a request's context | modelled: `ConnPool`, `Service` |
| Cursor pagination | the four list methods of `post_usecase.go` and `server_usecase.go`, and their queries | none on the server: the cursor travels with the client | GetServerPosts, GetComments, GetUserServer, GetDiscoveryServer | modelled: `Pagination` |
| Servers, members, invites | `internal/usecase/server_usecase.go`, `internal/repository/server_repository.go`, migrations of `server*` | `servers`, `server_roles`, `server_members`, `server_invites`, images | CreateServer, the updates, DeleteServer, CreateInviteLink, JoinServer, JoinServerFromInvite | modelled: `Servers`, `Communities` |
| Tokens and authentication | `user_usecase.go` (Login, Logout), `internal/util/jwt.go`, `middleware/auth_middleware.go`, `internal/config/redis.go` | Redis strings of access and refresh token by user | Login, Logout, the token of VerifyPassword, the middleware's check, the handler behind it | modelled: `AuthTokens`, `Sessions` |
| User profile and avatar | `user_usecase.go` | columns of `users`, `user_avatar_images` | UpdateFullname, UpdateBio, UpdateAvatar (no route leads to it) | partly: `AuthTokens` |
| HTTP delivery | `internal/delivery/http` | none | parsing, status codes | not modelled |
| Configuration and start-up | `cmd`, `internal/config` | clients of the stores, whether the process listens, is stopping or down | wiring, Listen, signals, ShutdownWithContext | partly: `Service` |
| Utilities, errors | `internal/util`, `internal/exception` | none | random codes, mails, JSON; a panic becomes a 500 | not modelled |
| Code generator | `tools.go` | none | a developer's tool | not modelled |

### How the components interact

* The signup ends in `users` and in the first pair of tokens. Login, the rename
  and every later handler read `users`.
* The middleware looks the access token up in Redis before each protected
  handler; nothing looks again afterwards.
* Posts ask the servers' tables whether a user is an active member, and go with
  their server by foreign key. Likes and comments go with their post, replies
  with the comment they reply to.
* An image is a row in PostgreSQL and an object in MinIO; no transaction spans
  the two.
* Every usecase takes connections from one pool; a handler that holds one while
  it asks for another ties all the others to its fate.
* Handlers pass fiber's request context to the stores. It has no deadline, but
  fasthttp ends all of them at once when the process is told to stop.

### What is hard, and what makes each component correct

* **Signup.** Four requests a client may send in any order, again, and twice at
  the same time, over a hash that expires, is deleted by a restart and is
  recreated, without its address and without a time to live, by a late `HSET`.
  Correct means: nobody gets an account for an address whose OTP they did not
  type back, accounts share neither address nor name, sessions live once and
  expire, pointers name sessions of their own address.
* **Posts.** Rows, the image row and the object are created and removed in
  different stores and, for `DeletePost`, in two transactions. Correct means: a
  visible post has its image, an image without post has a known cause, replies
  stay in their thread, only authors delete, a user likes a post once.
* **Pool.** Waiting has no time limit. Correct means: connections do not leak,
  and whoever waits is served.
* **Pagination.** The list changes between two pages, times tie, results are
  cut short. Correct means: no row twice, none skipped, the end is the end.
* **Servers.** Ownership is checked in one query and used in another; invites
  outlive servers; the loop that looks for a free code keeps its last draw
  whatever it found. Correct means: a server comes and goes together with role
  and membership, owners decide, a code names one server.
* **Tokens.** Two keys set and deleted by two commands, commands sent twice,
  overlapping logins, a logout while a handler runs. Correct means: a session
  ends in time, however it is used; the last login or logout decides, once
  nothing else is at work; a handler acts for the user it was let in for.
* **The process.** Requests in flight when a signal comes, a pool that may have
  jammed, a deadline that began long ago, an error variable with two writers.
  Correct means: the process stops, lets go of all it holds, and says how.

The hazards, each at its line and with the properties that cover it, are in
`PROJECT.json`.

## 2. The modules

A request is an element of the constant `Request`; its local variables and its
place in the handler are the record `rq[r]` (`at[r]` in `ConnPool`). One action
is one command on a store: one Redis command, one SQL statement that is
committed by itself, one commit, one call of MinIO. An early return before any
write leaves no trace, and is a guard of the action that begins the request;
after the beginning, every failing check is a step that returns to `idle`.
`Fail(r)` ends a request at any point, for a command that fails, a client that
goes away or a process that dies; open transactions are rolled back.
`MaxFaults` bounds how often that happens.

**`Signup`** (`user_usecase.go:452-955` and the repository behind it). `session`,
`pointer` and `users` are the stores. `mailed`, `issued` and `proved` are
history: which address each session's OTP went to, which sessions a client has
been told, for which an OTP was compared equal. Actions carry the initials of
their handler: `Ss` StartSignup, `Vo` VerifyOtp, `Vu` VerifyUsername, `Vp`
VerifyPassword, `Uu` UpdateUsername. Codes are not spelt out: an OTP is `live`,
`late` or absent, and a client that types the right one is `VoCompare`; a client
that types a wrong one is rejected and leaves no trace. `OtpDeadline`,
`SessionExpires` and `PointerExpires` are the clock. `NoRow` is what the code
gets when the uniqueness query returns nothing: two empty strings, compared with
`!=` like real ones, which matters for a recreated hash whose address is empty
(`VpCheckUnique`). VerifyPassword reads the hash under the parsed session id and
deletes it under the id as the client spelled it, so `VpDelSession` may find nothing
to delete.

**`Registration`** is the abstract specification of the signup: addresses are
verified, accounts registered for verified addresses, accounts renamed.
`Signup!KeepsPromise` is `Registration!Spec` with `verified` the addresses
`mailed[s]` of the sessions in `proved`, and `accounts` the table.

**`Posts`** (`post_usecase.go`). A post's image gets a uuid of its own in the
code; since both are drawn once in one request the post's uuid stands for both,
so `images` and `objects` are sets of posts. Statements of a transaction that
wait for nothing are folded into the commit; the `DELETE` of `DeletePost` that
the code runs on the pool is a step of its own (`DpDeleteRow`), because it is
committed by itself. `CpInsert` takes the foreign-key lock on the server, which
`DeleteServer` has to wait for. `likes` counts rows per post and user, since no
index keeps a second row out. `Membership` is a constant: in `Servers` a
server's only member is its owner, from creation to deletion (`MembershipLasts`).
Membership and authorship are checked as the code checks them, with a server or post
of the URL that need not be that of what is changed.

**`Forum`** is the abstract specification of the posts: a user who is inside may
publish in a server he is a member of, change or withdraw what is his, like,
comment and take comments back, each in one step that asks for membership,
authorship and parent at that very moment. `Posts!KeepsPromise` is `Forum!Spec`
with the tables as they are and `inside[r]` the user of request `r`: the checks,
the image and its object are stutters, the step that writes a table is the act.
This is what makes the gap between check and effect harmless: rows never change
their owner or server, and the foreign keys refuse what has lost its post.

**`ConnPool`**. `at`, `owner` and `queue`. A request is a query, a transaction
or, for the members of `Deleter`, a `DeletePost`: a transaction that runs a query
on the pool in the middle (`post_usecase.go:328`, `post_repository.go:116`). The
pool itself is external: pgxpool serves waiters in order and, as the code passes
a context without deadline, lets them wait for ever.

**`Service`** composes the pool with the process of `cmd/main.go`: it extends
`ConnPool`, and its steps are those of the pool (`Ask`, `Proceed`, `Grant`), of
requests that come and are answered (`Accept`, `Answer`), of the goroutine that
listens (`Listen`, `ListenReturns`, `ListenChecks`), and of `main` (`GetSignal`,
`CloseListeners`, `Poll`, `PollAgain`, `GiveUp`, `SayGoodbye`). What fasthttp does
in `ShutdownWithContext` is external: it closes the listener and the channel
behind every request's context, then polls the number of open connections until
there are none or its own context ends. From then on whoever waits for a
connection is refused (`Refuse`) and nobody asks for another one; a statement that
is being run ends, with an error or without, and the handler goes on to its
`Rollback`. `late` is the end of the context made at the start of the process,
`waited` ten seconds since the signal. The variable `err` is written by `main` and
by the goroutine with no lock between them: assignment and test are separate
steps of each, so the one may read what the other wrote. That such a race is
undefined in Go beyond this is left out. `overwritten` is history: the nil of
`Listen` was written over an error of `main` after the assignment and before the
test. `GoodbyeIsHonest` excuses that write, and a signal that comes before anything
listens: `ShutdownWithContext` then finds nothing to shut down, and the goroutine
may listen and let requests in until `main` returns. TLC violates the property
without either excuse. In every other run it speaks, also when `Listen` has long
returned, as it usually has.

**`Pagination`**. A list is a set of rows ordered by `Newer`; the four lists of
the code differ only in columns and filter. `GetPage` fetches one row more than
the limit, `FullPage` cuts it off and takes the last row as cursor, `LastPage` is
the answer without cursor, `NoSuchRow` the index -1 for limit 0, which panics and
is answered with 500. `MayCut` says whether the connection may be lost while rows
are read, which the loop cannot tell from the end. `standing` is the set of rows
present since the walk began.

**`Servers`** (`server_usecase.go`). Rows of the four tables as sets of records.
Two kinds of request always end in an error and are modelled up to it: joins,
whose `CheckServerMember` compares a smallint with `'ACTIVE'`, and changes of
avatar or banner, whose first query names a column the image tables lack. What
the code would do after these queries is not reached and not modelled. The three
INSERTs of CreateServer show at their commit and are one action with it (`CsCommit`;
an error before it is `Fail`), so that they stand or fall together is PostgreSQL's
promise and not a result of the model: `MembersAreOwners` says that nothing
takes them apart later, and that nobody else gets in as long as joins fail. The
columns an owner may change are `Column`; the category, which is one of them, is
not told apart from the texts.

**`Communities`** is the abstract specification of the servers: a user founds a server
and is its one member from then on, alters and disbands it as its owner, and may
invite to any server; what is disbanded never comes back. `Servers!KeepsPromise` is
`Communities!Spec` with the members as pairs of server and user, and `gone` the uuids
given out that no row has and no CreateServer is about to insert (`Lost`). It is the
other side of what `Posts` assumes: a `Membership` that does not change, of servers
that are only removed.

**`AuthTokens`** (`user_usecase.go:251-368`, the end of VerifyPassword, `jwt.go`,
the middleware). `access` and `refresh` are the two Redis keys of a user, each
with the uuid of the login it is of and its age. A JWT names its user and the
second it was minted in and nothing else that differs, so the token a client
holds (`held`) is a user and an age, and two logins within a second give one and
the same token. `Mint` is the check of the password (or the INSERT of a new
account) and GenerateTokenPair, `SetAccess` and `SetRefresh` are SetAuthTokenInCache,
`DelAccess` and `DelRefresh` RemoveAuthToken; `ProtectedRoute` is the middleware,
behind which a handler runs, `UpdateProfile` if it is UpdateFullname or UpdateBio.
`Resend` is the Redis client, which sends a command again whose answer is late
(`MaxRetries`): the command takes effect and the request stays where it is. `Tick`
is one second, `Life` the fifteen minutes of both keys. A name with capitals is
never found by Login, which lowers what was typed while signup and rename store
it as it is (`LowerCase`). That a rename may change the case is not in the module;
with `LowerCase = User`, for which the theorems hold too, anybody may log in at any
time, and every history of names is among the behaviours. `settled` and `last` are history for `LastWordStands`.

**`Sessions`** is the abstract specification of the tokens: a user has at most one
session, which ends when it is `Life` old; a handler is entered in an open session
only, and closes sessions and changes profiles of its own user only.
`AuthTokens!KeepsPromise` is `Sessions!Spec` with the session of a user read off
the first key: `SetAccess` maps to `Open`, `DelAccess` to `Close`, `ProtectedRoute`
to `Enter`, and everything about the second key to a stutter. It permits what the
code permits: a handler goes on in a session that is over, and a Logout let in by
one login closes the session of the next.

## 3. The runs

| Run | Instance | What it shows |
|---|---|---|
| `signup` | 2 addresses, names, sessions, requests; 1 fault; symmetry (774 thousand states) | Safety of the signup: `AccountsAreVerified`, `AccountsAreDistinct`, `KnownSessionsExpire`, `PointerMatchesMail`, `NoOtpLimbo`, `SessionsLiveOnce`, and the refinement `KeepsPromise` |
| `signup_live` | 1 address, 2 sessions, 2 requests, 1 fault, no symmetry | `SessionsDrain`: every address leaves Redis in the end |
| `posts` | 2 servers, users, posts, comments, captions, requests; 1 fault; symmetry (1.3 million states) | `PostsAreServed`, `StorageAccounted`, `RepliesStayInThread`, `LikesBounded`, `AuthorsDecide`, and the refinement `KeepsPromise` of `Forum` |
| `posts_live` | 3 requests on 1 post, 1 fault (254 thousand states) | `WithdrawnImagesGo`: the image of a withdrawn post leaves the bucket |
| `posts_likes` | 2 requests on 1 post | finding: a user's overlapping likes are both stored (`LikedOnce` fails) |
| `conn_pool_jam` | 2 connections, 2 deletions | finding: the pool jams (`DeletionsComplete` fails) |
| `service` | 2 connections, 3 requests, 2 of them deletions, no symmetry (50 thousand states) | the process over the pool: `ConnsAccounted`, `GoodbyeIsHonest`, `JamLastsUntilStopped`, `ServedUntilStopped`, `StopsInTheEnd` |
| `shutdown` | 1 connection, 1 request | finding: requests in flight are not waited for (`RequestsMayFinish` fails) |
| `auth` | 2 users, one with capitals in the name, 3 logins, 2 requests, 2 seconds of life, 2 faults; symmetry of requests (3.3 million states) | `LastWordStands`, and the refinement `KeepsPromise` of `Sessions` |
| `pagination` | 2 times, 4 ids, limits 0 to 2 (45 thousand states) | `PagesDescend`, `NothingSkipped`, `WalkEnds` |
| `pagination_cut` | 2 rows, results may be cut | finding: a truncated result looks like the last page (`EndIsTheEnd` fails) |
| `servers` | 2 servers, users, codes, columns, values, requests; 1 fault; symmetry (2 million states) | `MembersAreOwners`, `CodesKeepTheirServer`, `OwnersDecide`, and the refinement `KeepsPromise` of `Communities` |

Every property of a passing run has a mutant in `PROJECT.json`: an operator that
changes one definition the way a plausible bug would, under which TLC finds the
property violated. The mutants stand before the definition they change.

### Why the bounds are enough

* Two requests are the least that race, and two of *any* kinds, so every pair of
  handlers meets at every pair of points. Requests start again when they have
  ended, so a run covers sequences of any length, up to the uuids. Where three
  matter (two deletions of one post and the creation they follow), `posts_live`
  has three.
* Two of each name is what it takes to confuse one with another: two sessions of
  one address (a restart), one name wanted by two addresses, a reply in another
  post's thread, an invite of another server.
* One fault is enough to leave each half-done state behind. Properties that excuse
  faults (`StorageAccounted`, `NoOtpLimbo`, `WithdrawnImagesGo`) do so because the
  code has these failures; they show that nothing else has the same effect, in every
  run in which no fault has happened.
* Two connections show both a partial and a full jam; the theorem
  `SpareConnection` has the general case. The third request waits behind the jam.
* Three logins are one in either key and one being stored, which is all that two
  requests can have in use: `Mint` always finds a fresh one. Two seconds of life
  tell a token just minted from an older and from a dead one. Two faults
  are a command sent twice whose request is cut short, or two of either.
* Two times and four ids give ties within one time and across the cursor; four
  rows are two full pages of limit 1 or 2 and a remainder.
* Sessions, posts, comments and codes that are used up stop a run, not the
  system: `CHECK_DEADLOCK FALSE` stands only in those configurations, in
  `conn_pool_jam`, where a jam is the deadlock the property is about, in
  `service` and `shutdown`, where the process ends, and in the pagination, where
  the walk ends.

### Findings

`PROJECT.json` quotes the lines. (1) A user's overlapping likes are counted twice
or more. (2) `DeletePost` asks the pool for a second connection inside its
transaction: as many at once as there are connections stop every request until
the process is stopped. (3) No list asks `rows.Err()`, so a lost connection
silently ends the list. (4) The ten seconds for requests in flight begin with the
process and not with the signal.

Met while modelling, part of the models, and not given a run of their own:

* `DeletePost` runs its `DELETE` on the pool and not on its transaction
  (`post_repository.go:116`), so the post is gone even if the rest is rolled back
  (`DpDeleteRow`; what is left behind is what `StorageAccounted` excuses).
* `StartSignup` passes the session id where the address is wanted
  (`user_usecase.go:499`), so the old pointer is not deleted; it is overwritten a
  few commands later unless the request fails in between (`SsDelPointer`).
* An account with capitals in its name cannot log in again (`LowerCase`).
* VerifyPassword deletes the session under the id as it was sent
  (`user_usecase.go:807`, `824`), although `uuid.Parse` (`735`) also reads capitals,
  braces and a urn: a session spelled so outlives its signup until it expires
  (`VpDelSession`). The properties hold all the same.
* A nil that `Listen` returns between main's assignment (`cmd/main.go:64`) and its
  test hides the deadline: main says it has shut down gracefully while requests are
  cut off (`overwritten`).
* The list of a server's posts puts the bucket's URL before a key and `.webp` after it
  twice (`post_repository.go:233`, `post_usecase.go:425`), and the key ends in `.webp`
  already (`post_usecase.go:101`). URLs are not modelled: `PostsAreServed` says that row
  and object are there, not that the URL a client is given leads to them.
* Two logins within a second are given the same access token (`Token`).
* The refresh token lives fifteen minutes in Redis, not seven days, and nothing
  reads it.
* The route `/servers/invites/:inviteCode` is meant to be public
  (`route.go:83`) but lies behind the middleware of the group `/servers`, which
  was registered before with the same prefix.
* `GetPost` answers a post deleted after the membership check with status 200
  and an empty post (`post_repository.go:268`); so do the updates of captions and
  servers with what was deleted meanwhile.

## 4. Fairness

Safety runs use `Spec`, without fairness. `FairSpec` adds what the environment
of the code gives:

* weak fairness of a started request's next step (`Proceed(r)`, `Serve(r)`): the
  Go scheduler runs every goroutine, and the stores answer every command or fail
  it, which is `Fail`, a step of its own;
* in `Signup`, weak fairness of `SessionExpires`: Redis drops keys whose time is
  up. Nothing is assumed of keys without a time to live;
* in `ConnPool`, weak fairness of `Acquire`: pgxpool hands out what is free;
* in `Service` (`FairService`) the same, and weak fairness of `Refuse` (the runtime
  wakes whoever selects on a context that has ended), of the listening goroutine's
  start, of `main` once it has its signal (`Stop`), and of time (`TenSeconds`).
  `select` chooses at random when the ticker and the end of the context are both
  ready; a poll that found requests and comes back to the same point is left out
  once the context has ended (`PollAgain`), since fair choice would end it;
* in `Pagination`, weak fairness of `GetPage`: `WalkEnds` is about a client that
  keeps asking.

Clients owe nobody another request: no fairness is assumed of the actions that
begin one, nor of signals. No strong fairness is used anywhere.

## 5. What is proved

TLAPS checks the following for every value of the constants, from the named
`ASSUME`s of the modules only: `None` is not one of the names it stands beside,
keys of different kinds differ (`KeysAssumption`), a key is not `None` (`KeyAssumption`), bounds are natural numbers,
times and ids are numbers in their order, `Deleter` is a part of `Request`, nil is
no error and no line of the log (`NilAssumption`), and, in `Posts`, finitely many
requests run at once (`RequestAssumption`), without which `LikesBounded` has no
number to compare with.

**`SignupProofs`.** `TypeOK` is not inductive: a request that goes on needs to
have a session, address or name in the local the next command uses. `TypeInv`
adds that for every point (`HasLocals`). `SignupInv` adds the facts that
connect Redis with history:

* `HonestHashes`, `KnownWereMailed`: an address in a hash is the one its OTP was
  mailed to, and a session known to a client was mailed to somebody;
* `Vouched`: a hash past its first step, and a request working on its behalf, has
  an OTP that was compared equal, which no deletion or recreation undoes;
* `StoredAlone`: while a request of StartSignup stores a session, no other
  request works on it;
* `PointerMatchesMail`, `KnownSessionsExpire` and the accounts' own facts.

There is one lemma per action, and from `SignupInv` follow `VerifiedAccounts`,
`DistinctAccounts`, `ExpiringSessions`, `PointersMatch`. `SignupKeepsPromise` is
the refinement: `VoCompare` maps to `Verify`, `VpInsert` to `Register`,
`UuUpdate` to `Rename`, a first mailing to a stutter because a session not yet
mailed is not in `proved`, and every other action to a stutter.

The last two theorems look at one hash at a time. `HashStep` lists all that a step
may do to it, with the one step that recreates a hash after its deletion: the
`HSET` of a request whose session went meanwhile (`NextHashStep`). `NobodyInLimbo`
then follows a hash that has lost its OTP: a request stands between `HDEL` and `HSET`
(`BetweenOtpAndStep`) until it has recorded the step, or a fault has cut it short.
`NoSecondLife` needs `StoredAlone`, which also says that the session a StartSignup
stores is not known to any client yet: nothing else writes an address or the first
step.

**`PostsProofs`.** A handler asks first and acts later, so `PostsInv` says for every
point what the answers are worth by then (`Prepared`): the author of the request's
post is its user (`Owning`), its user is a member of the post's server (`Visiting`),
the parent of a reply hangs on the same post, each *if the row is still there*.
These last because rows keep their author, server and post and no uuid is given
out twice; for this `CreatesAlone` says that nobody else is at work on a uuid that
has no row yet, and `TablesInv` that uuids are primary keys and posts are of servers
that exist. `PostsAreServed` is inductive only with the two points of CreatePost
that hold an object without a row, and the one of DeletePost that may remove the
object because the row is gone. `RepliesStayInThread` survives a deletion because
the thread of a comment, the least set closed under replies, goes as a whole.
`NothingLeftBehind` is proved on top of it, and `LikesStayBounded` from a bound that
counts the likes that *may* come: the rows plus the requests that found none and are
about to insert (`LikesInv`). Theorems: `TypeCorrect`, `ServedAlways`,
`ThreadsStayWhole`, `NothingLeftBehind`, `LikesStayBounded`.

**`ForumProofs`.** `AuthorsAlwaysDecide`, and `PostsKeepPromise`, the refinement: the
query that begins a request maps to `Come`, `CpCommit` to `Publish`, `UpUpdate` to
`Recaption`, the `DELETE` of DeletePost (or, if that comes late, of its image) to
`Withdraw`, `LpInsert`, `UlDelete`, `CcInsert` and `DcDelete` to `Like`, `Unlike`, `Say`
and `TakeBack`, `DeleteServer` to `Close`; every step that returns without an effect
to `Go`, and what remains, the checks and the bucket, to stutters. What `Forum` asks
at the moment of the act is what `Prepared` has kept since the check.

**`ServersProofs`.** `ServersInv` is `TypeOK`, `MembersAreOwners`, the locals, that
a uuid given out to a `CreateServer` in progress has no row yet and is held by it
alone (`DrawnOnce`), and that a request about to write was let through as the
owner (`OwnersWrite`): the owner of a server never changes and its uuid is never
drawn again, so the ownership read earlier is still true when it is used. Theorems:
`OnlyOwnersBelong`, `OwnersAlwaysDecide`, `CodesStand`, and `ServersKeepPromise`, the
refinement: what begins a request maps to `Come`, `CsCommit` to `Found`, `SuWrite` and
`SsWrite` to `Alter`, `DsDelete` to `Disband`, `CiInsert` to `Invite`, or to `Go` if what
they were about is gone or taken by then; every other return, that of a failed CreateServer
included, to `Go`, and the checks to stutters. From it follows `MembershipLasts`, what
`Posts` has as a constant: the members of a server stay the same until it goes, and
it goes for ever.

**`ConnPoolProofs`.** `PoolInv` says which connections a request holds at each
point (`HeldInv`), that exactly waiting requests queue, each once (`QueueInv`),
and who nests (`DeleterInv`). Theorems: `ConnsHeldAsNeeded`, `JamNeverEnds`, and
`SpareConnection`: with fewer deletions in flight than connections the pool never
jams, which says what a limit on concurrent deletions would have to be. They are
about the pool as long as the process is not being stopped.

**`ServiceProofs`** carries `PoolInv` over to the process. New there is `Refuse`, which
takes a request out of the middle of the queue: `Without` removes the right one only
if who waits is in the queue (`WaitersQueued`, which `ConnPool` alone does not need)
and is there once (lemmas `WithoutKth`, `WithoutLeaves`). `OpenInv` says that who is in
the pool was accepted and not answered. `ClosedInv` says that nobody is accepted
while nothing listens, so that a poll that found no request stays true until
main says so, whether `Listen` has returned or not; that until main has closed the
listener nobody has, and nothing is open unless something listens; and that an `err`
of nil which main is about to test is its own, unless `overwritten`. Theorems:
`ServiceTypesCorrect`, `ServiceConnsHeldAsNeeded`, `GoodbyeAlwaysHonest`,
`JamsUntilStopped`, and `GoodbyeLeavesNothing`: after a graceful goodbye, with the
excuses of `GoodbyeIsHonest`, every connection is back in the pool. `ServiceSpareConnection` is `SpareConnection` for the
process. They are stated of `ServiceSpec`, which
`FairService` implies.

**`PaginationProofs`.** `WalkInv` says that the cursor is the oldest row handed
out (`CursorIsOldest`). Theorems: `NoRowTwice`, even when results are cut, and
`WalkIsComplete`: when no result is cut, no standing row is skipped.

**`AuthTokensProofs`.** `TypeInv` adds to `TypeOK` the user and key a request goes
on with and that a key in Redis is of a user with a row. `LastWordStands` says
something only of users whose keys nobody is at work on, so the invariant has to
follow the request that will have the last word: while it is alone it is the only
writer of its user (`AloneMeansAlone`), and between its two commands the first key
is as it will leave it, or has expired since (`HalfwayInv`). Writing the second key
and leaving then gives `WordStands`. Theorems: `LastWordCorrect`, and
`AuthKeepsPromise`, the refinement: `VpRegister` maps to `Register`, `SetAccess`
to `Open`, `ProtectedRoute` to `Enter`, `DelAccess` to `Close`, the end of a
handler, or of a logout, however it ends, to `Leave`, and every other action but
`Tick` to a stutter.

Only model-checked is all liveness (`SessionsDrain`, `WithdrawnImagesGo`,
`ServedUntilStopped`, `StopsInTheEnd`, `WalkEnds`), which together with `ENABLED` is
out of the prover's reach. Every invariant and every action property of a passing
run is a theorem, and so is every refinement. No module declares a RECURSIVE operator:
the thread of a comment is the least set closed under replies. Induction over data,
also out of the prover's reach, is needed nowhere so far.

## 6. What is not modelled, and why

* Formatting, validation of lengths and formats, hashing of passwords, the text
  of mails: a request that fails them returns before it touches a store.
* UpdateAvatar: its route is commented out, so no request reaches it.
* GetSignupStatus, GetUserInfo, GetPost and GetServerInfoForInvite read and write
  nothing; the lists are in `Pagination` for what they do between two calls.
* HTTP delivery, utilities and the code generator keep no state: a controller
  parses, calls one method of a usecase and answers, and a panic is an answer.
* Wiring and configuration run once, before the first request.
* The end of contexts at a shutdown is in `Service` only; in `Posts` and `Signup` it
  is a `Fail`.
* A Redis command whose answer was late and that takes effect after its repetition,
  or after its request has ended: `Resend` has the repetition and what others do in
  between, and no command of a request that is over. Such a command could still undo
  a later login or logout, so `LastWordStands` and the theorems of `AuthTokens` are
  about a Redis that executes what it is sent in time or not at all.
* What follows the query that always fails in joins and image changes.
* The `used_count` and `expires_datetime` of invites are written and never used;
  a property about them needs joins that succeed.
* Time is an order of events: deadlines may pass at any moment at which what
  they end is there.

## 7. Plan

Done, in this order: `Signup` with `Registration` and its proofs; `Posts`;
`ConnPool`; `Pagination`; `Servers`; `AuthTokens` with `Sessions` and its proofs;
`Service` over `ConnPool`; `Forum` over `Posts`; the proofs of `Posts`, `Forum` and
`Service`, and the rest of those of `Signup`; `Communities` over `Servers`.

1. When joins work: members as a variable of `Posts`, and invites that are used
   up and expire.
2. When the list methods ask `rows.Err()`: `MayCut` goes, and `WalkIsComplete` holds
   of every walk.
