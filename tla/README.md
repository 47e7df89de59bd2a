# A verification of xtemplate in TLA+

xtemplate serves a directory of Go templates and static files and reloads it
while requests are running. This directory holds TLA+ specifications of its
parts, translated from the Go code in `src/`, the TLC configurations that check
them on small instances, and proofs, checked by TLAPS, that the safety
properties hold for every size of the system.

## 1. Inventory

| Part | State | Operations | Modules |
|---|---|---|---|
| `Server` (`server.go`) | mutex, atomic instance pointer, cancel function | `Config.Server`, `Reload`, `Stop`, `Handler` | `Server`, `HotSwap`, `ServerProofs` |
| `Instance.ServeHTTP` (`instance.go`) | the instance's context | context check, routing | `Server` |
| Command and watcher (`app/app.go`, `config.go`) | phase and configuration of `Main`, owed callback | configuration, first load, start of the watch, callback, `Serve`, exits | `App`, `ServerProofs` |
| Instance build (`instance.go`, `build.go`, `dot_nats_config.go`) | templates, routes, providers, INIT templates | `Config.Instance`, `addTemplateHandler`, providers' `Init` | `Build`, `HotSwap`, `BuildProofs` |
| Template handlers and dot (`handlers.go`, `dot*.go`) | dot pool, transactions, response | `dot.value`, template execution, `dot.cleanup`, response | `TemplateHandler`, `Connections`, `TemplateHandlerSteps`, `TemplateHandlerProofs` |
| Streams (`dot_flush.go`, `dot_nats.go`) | channels and their goroutines, two contexts, subscriptions | `Repeat`, `Sleep`, `WaitForServerStop`, `Subscribe`, `Publish`, `Request` | `Streams`, `StreamsProofs` |
| Static files (`build.go`, `handlers.go`) | files on disk and open, table of files and encodings | `addStaticFileHandler`, `staticFileHandler` | `StaticFiles`, `StaticFilesProofs` |
| Negotiation (`handlers.go`) | best encoding so far | `negiotiateEncoding` | `Negotiate`, `NegotiateProofs` |
| `Dir` field (`dot_fs.go`, `dot_fs_config.go`) | open files | `Open`, `Exists`, `Read`, `Stat`, `List`, `Dir`, `Cleanup` | `DotDir`, `ContentProofs` |
| Front matter (`frontmatter.go`, `funcs.go`) | none | `splitFrontMatter` | `FrontMatter`, `ContentProofs` |

How they interact: the watcher calls `Reload`; `Reload` holds the mutex while
it builds an instance, which reads the files, starts providers and runs the
INIT templates; then it swaps the pointer and cancels the old instance's
context. Requests never take the mutex. They load the pointer, check the
context and run a handler, which may use a database shared between instances,
may wait for the cancellation (`WaitForServerStop`), and may be abandoned by
its client at any time.

What is hard to test, and is the subject of the runs: the steps of `Reload`,
`Stop` and requests interleaved; edits of the files during a load; loads that
fail at any step; a client that leaves just before a commit; several databases
that commit one after another; waiting for connections; a template that stops
receiving while a goroutine sends; two contexts that end in either order; the
order of Go's maps;
the non-transitive comparison of preferences. `PROJECT.json` lists the hazards
with the source line at which each one bites.

## 2. Modules and code

**`Server`.** An instance is its id, 0 is `nil`. A goroutine's `pc` says where
it is in `Reload` or `Stop`: `ReloadLock` (lock, load the old pointer),
`ReloadInstance` (new context, id, files read), then `ReloadFail` or
`ReloadSwap` (`CompareAndSwap`, whose result is ignored) and `ReloadFinish`
(cancel the old one, unlock); `StopCancel` and `StopClear`. A request takes
`LoadInstance` and, as a separate step, one of `ServeNil`, `Refuse` and
`Admit`, because it holds no lock between them. `floor`, `halted` and `answer`
are history. `built[i]` is the version of the files that instance `i` read.

**`HotSwap`.** What `server.go:12-19` promises, with no mutex: one current
instance, at most one that is leaving, and requests admitted by these two only.
`ImplementsHotSwap` in `Server` is the refinement, with the mapping `Current`,
`Leaving`, `Ended`, `Admitted`.

**`App`.** Extends `Server` with `Main`: `Configure` (flags, files and JSON, or
exit 1), `NewServer` (`Config.Server` with `Main`'s overrides, or exit 2),
`StartWatch` (the list of directories, or exit 4), then `Serve`. `config` is
`Main`'s own configuration and `fs` says whether the copy inside the Server has
a `TemplatesFS`. The first load reads version 0 of the files; edits begin after
it. The watch library (`watch.Watch`) owes a callback for every edit it saw; it
is external and modelled from its use.

**`Build`.** `Config.Instance` step by step inside one `Reload` at a time (that
there is only one is what `Server` shows). `toAdd` and `toRun` are sets, since
the code ranges over maps. `Build` implements `HotSwap` too (`ImplementsHotSwap`
in `Build`): the steps of a load stutter, `Publish` is the swap and `CancelOld` the
end of the old instance. Two routes conflict if their patterns are equal; that
`ServeMux` also refuses patterns that overlap and of which neither is the more
specific is left out. `Fail` is every early return, followed by `Reload`'s
`newcancel()`. `nats` is the set of in-process servers that run. Requests query
the shared database, then call `WaitForServerStop`.

**`TemplateHandler`.** A request through either handler. `handle` says that
`DotDB.tx` is not nil, `live` that the transaction exists in the database and
occupies a connection; they differ after the context ends. `work` records what
became of the statements: `saved`/`undone` by the template itself, `kept`/`lost`
by the cleanup. `sent` and `body` are the response as net/http delivers it: the
first status counts and nothing is written beyond a declared length. `header`
follows the headers that a template sets through `Resp` until they are copied
into the response. The cleanups have positions: `X` is 0, the databases follow,
and `Out` is the last, as `makeDot` collects them. A flushing template may block
(`Wait`), as `WaitForServerStop` and a range over a subscription do, and goes on
when the request's context ends (`WaitOver`) or when what it waits for happens
(`Wake`). Directories and providers of the application also have cleanups; those
of directories are in `DotDir`, and neither changes the error that is passed on,
unless an application's provider does.

**`Connections`.** `TemplateHandler` without errors, work, response and pool: who
holds a connection, who waits for one, who blocks. Each action stands for one or
several of `TemplateHandler`, which implements it (`ImplementsConnections`, with
the variables of the same names). It is small enough to check liveness with two
databases. `Stuck(r)` says what can keep a request from its end: its template
blocks, or it waits for a database whose connections are all held by requests
that are stuck themselves, like two that use two databases in opposite order.

**`Streams`.** A flushing template that ranges over one channel, of `Repeat` or
of `Subscribe`, and may call `Sleep`, `WaitForServerStop`, `Publish` and
`Request` before, inside and after its range. `go` is where the channel's
goroutine is. Channels are unbuffered: `RepeatSend` is a step of both sides. A
message that the NATS client has for a template that is not receiving is
dropped (`Deliver`), as `ChanSubscribe` does with a full channel. `gone` is the
request's context, `cancelled` the instance's; only the first ends a
subscription. `Shutdown` stops the in-process server under running requests.
One channel per request is a simplification: channels do not affect each other,
and a template receives from one at a time.

**`FrontMatter`.** `extractFrontMatter` on sequences of tokens, where a fence, a
newline, a space or any other text is one token of length one. The loops over
the characters and over the closing fences are functions with the code's local
variables: `Iterate` is the body of the first, `Scan` its variables after each
iteration. The properties state the result again by lines and fences, without
offsets.

**`StaticFiles`.** A path is a sequence of parts, so that its extension can be
taken off. Content is a version number; a hash and a decoded copy are the
content itself, so equal hashes mean equal contents. `addStaticFileHandler` is
three steps for each file of the walk, `OpenStatic`, `StatStatic` and
`AddStaticFile`, since it hashes after it asked for the modtime; `WalkFails` is
its early returns. A request is `Get`, `OpenFile`, `StatFile` and `ServeContent`.
Between any two of these steps a file may be removed, replaced or changed in
place. `fds` says what file the load and each request have open: the one at the
path as it is now, or `old`, the one that was there when the path was given to
another. `WriteFile` may give a modtime that is not new, as coarse clocks, `cp -p`
and `touch` do; `lagged` has the paths to which that happened. `Insert` is the
code's append and `sort.Slice` of a list that is sorted already: for up to
twelve elements, more than there are encodings, that is an insertion sort, so the
new one goes behind those that are not larger (`Place`).

**`Negotiate`.** One step per item of the `Accept-Encoding` headers. Qualities
are hundredths; where the code's floating-point difference is 0.1 on paper,
both outcomes of the comparison are possible. A q may be negative, since
`ParseFloat` accepts that; NaN and the infinities, which it accepts too, are left
out.

**`DotDir`.** File descriptors are a finite set. `Dir.Open` is two steps, as it
opens the file twice; `Exists` calls it with a path that was already joined.
`Cleanup` closes the first of the two. Nothing in the code closes the second,
and so nothing in the module does; that the garbage collector may close it some
day is left out.

Mutants (operators named in `PROJECT.json`, commented "Mutant") are plausible
mistakes in the operation that follows them. They are no part of any
specification: each replaces that operation to see a property fail.

## 3. Runs

Passing runs:

| Run | Shows | Bounds |
|---|---|---|
| `server` | `OnlyCurrentLive`, `SignalAfterSwap`, `ServedByNewest`, `NeverBackwards`, `CallsReturn`, `WaitersReleased`, `ImplementsHotSwap` | 2 goroutines, 1 request, 4 instances, 1 edit |
| `app_watch` | `AtRestCaughtUp`, `SeenEditsLoaded` | 2 directories, 3 edits, 4 instances |
| `build` | `LastDefinitionRuns`, `RoutesComplete`, `InitsBeforePublish`, `NatsStopped`, `ReloadReturns` | 2 files with 32 choices of definitions, 2 loads, 2 NATS providers, 1 request, no limit on connections |
| `handler` | `PageMeansSaved`, `FailureKeepsNothing`, `BodyFitsStatus`, `StatusReachesClient`, `HeadersWithPage`, `NoLeakedTx`, `DotExclusive`, `ImplementsConnections` | 2 requests, 2 databases of 1 connection, 3 operations, 2 pooled structs |
| `connections` | `RequestsFinish`, `ConnsReturned` | 2 requests, 2 databases of 1 connection, 6 operations |
| `static` | `EncodingsAgree`, `SmallestFirst`, `CheckNoticesStale`, `Converges` | a file, a `.gz` and a `.zip` copy, 3 writes with modtimes that lag by up to 1, 1 removal, 1 request |
| `negotiate` | `DefaultOrAsked`, `StrongPreferenceWins`, `SmallestOfEquals`, `BoundedDrift` | up to 3 encodings, 3 items, 8 qualities |
| `dir` | `OnlyReturnedStayOpen` | 2 requests, 3 descriptors, 4 operations |
| `streams` | `RepeatComplete`, `DeliverySafe`, `GoroutinesEnd`, `StopEndsStreams`, `ClientEndsStreams` | 1 request, `Repeat` of -1, 0, 2 and without limit, 2 calls per iteration, 2 messages |
| `front_matter` | `KindIsRight`, `SplitExact` | all documents of up to 7 of 6 tokens |

Why the bounds are enough: two goroutines give every pair of racing calls, and
the third and fourth instance a reload after a failed or raced one; requests to
a `Server` do not affect each other, so one stands for all; 2 requests and 1
connection give waiting, with 2 databases also in a circle, and a first commit
that succeeds before a second that fails; 6 operations let each of 2 requests use
both databases and block besides; 3 let one request set a header or produce output
and have work in both databases; the qualities 39, 41, 50 and 59 lie on both sides of the
distance 0.1 and chain two small steps into a large one, and -10 lets the chain
begin below the default; 3 writes give an
original and a copy of different versions during one walk, and a file that is
loaded, changed and changed back to an old modtime; the `.gz` copy grows with its
content from smaller than the file to larger; a callback of the
watcher for each of the 3 edits fits into 4 instances; streams of one instance
meet only in the NATS server, where `PublishElsewhere` stands for the others;
-1, 0 and 2 are a limit below, at and above the first number; 7 tokens hold a
blank line, an opening fence, front matter with a fence of the other kind, and a
closing fence. The fence of JSON is in the table and not among the tokens: it is
treated as that of TOML, which also has one closing fence. Every bound is a
constant named in a guard (`MaxInstances`, `MaxDisk`, `MaxLoads`, `MaxOps`,
`MaxWrites`, `MaxRemovals`, `MaxItems`, `MaxEdits`, `MaxMsgs`, `MaxLen`). Symmetry
is used in `handler`, over requests and pooled structs, and in `dir`, over
requests and handles. Both runs check safety only, and neither the
specifications nor the properties tell these apart.

Type invariants (`TypeOK`) are proved (section 5), but for that of `StaticFiles`,
which TLC confirms when it is added to the configuration; the runs spend their
time on other properties.

Runs in which the code disagrees with a document of the repository (each is a
finding in `PROJECT.json`, with the quotation):

| Run | What the code does |
|---|---|
| `server_race` | A request overtaken by a `Reload` between its load and the context check is answered 500 "server stopped". |
| `build_stuck` | An INIT template and a request in `WaitForServerStop` wait for each other through a shared database with one connection. |

`build` and `build_stuck` both check `ReloadReturns` and differ in the limit on
connections: a waiting request then denies the INIT template its connection.
How far the code keeps what `server_race` refutes is proved
(`RefusedOnlyWhenReplaced`): only such a request is refused while the server runs.

Other disagreements are stated as properties of their modules and have no run
of their own; TLC refutes each when it is added to the configuration of its
module:

- `EditsLoaded` (`App`): an edit between the first load and the start of the
  watch is not loaded until there is another, while `README.md:65-66` says that
  files are loaded milliseconds after they are modified.
- `WatchesWhatIsLoaded` (`App`): `Main` looks for `TemplatesFS` in its own
  configuration, which no flag or file can set, and not in the Server's copy,
  which its overrides did set. With `WithTemplateFS` it still watches
  `TemplatesDir`, and exits if that cannot be watched; `config.go:23` says that
  `TemplatesFS` overrides it.
- `ClosedAtEnd` (`DotDir`): `Dir.Open` records one file and returns the result of
  opening it again, which nobody closes, while
  `test/templates/fs/openclose.html:8` says that opened files are closed at the
  end of the request.
- `FirstFenceCloses` (`FrontMatter`): YAML front matter closed by `...` extends to
  a later line that begins with `---`, if there is one, since the closing fences
  are tried one after the other over the whole document. `FirstFenceClosesOthers`,
  which is proved, says that it holds but for YAML.
- `AlwaysRouted` (`Server`): after `Stop` a request calls `ServeHTTP` on a nil
  instance, while `server.go:61-62` has the handler always route to the current
  one. `RoutedUntilStop` is proved of the `Server`, `AlwaysRouted` of the command.
- `ContentInstead` (`TemplateHandler`): with a `Content-Encoding` header set,
  the page rendered so far follows the content of `ServeContent`, which
  "instead responds" with it (`dot_resp.go:52-54`). `ContentAlone`, which is proved,
  says that this is the only case: content of a declared length stays alone.
- `HashPinsContent` (`StaticFiles`): between a write and the next load, new
  content is served under the old hash as immutable (`README.md:228-232`).
  `CheckNoticesStale`, which is proved, says when the handler at least logs it.
- `CopiesAreDecoded` (`StaticFiles`): a `.zip` copy makes the load fail
  (`README.md:218-219`).
- `ExistsIsRight` (`DotDir`): `Dir.Exists` in a subdirectory misses files that
  exist (`dot_fs.go:41`).

## 4. Fairness

- Goroutines inside `Reload`, `Stop` or a handler are scheduled: weak fairness
  of their steps. `sync.Mutex` gives the lock to a starving waiter and
  `database/sql` serves waiting requests in order: strong fairness of
  `ReloadLock`, `StopCancel`, `BeginTx` and `BeginInit`.
- `TemplateHandler` has no fairness: its liveness is studied on `Connections`.
  There no client has to leave (`ClientGone`) and nothing has to happen for which
  a template waits (`Wake`). A request whose template blocks for good is then one
  that never ends, and `RequestsFinish` and `ConnsReturned` say that this, and
  waiting for such a request, are the only reasons. What links the modules is a
  safety refinement: it shows that every behaviour of the handlers is one of
  `Connections`, while that the fairness carries over (a handler's step is enabled
  wherever a step of `Connections` is) is by comparing the guards.
- `database/sql` watches the contexts of transactions (`AutoRollback`), the
  NATS provider's goroutine waits for its context (`Shutdown`), and the watch
  library delivers what it saw (`WatchCallback`).
- In `Streams`, timers fire, and Go chooses at random among the ready cases of a
  `select`: strong fairness of `RepeatStop`, as a loop that evaluates the
  `select` again and again with a context done takes that case at some time. A
  template that could go on receiving forever ends because of it.
- Templates terminate, as does `Config.Instance` in module `Server`. `Build`
  drops the second assumption.
- In `StaticFiles` a load that was asked for goes on to its end, whatever that is
  (`WF_vars(Load)`). It may fail for an error of the system that no write announces,
  and then nothing asks for another: `Converges` excepts that.
- Nothing is assumed of the environment: nobody has to call `Reload` or `Stop`,
  to send a request, to give one up, or to edit a file.

## 5. Proofs

Every safety property that a passing run checks is also proved for all values of
the constants. The bounds of the runs are only
natural numbers in the proofs; the numbers of goroutines, requests, files,
databases, descriptors, encodings and header items and the length of documents
are arbitrary.

| Module | Theorems | Inductive invariant |
|---|---|---|
| `ServerProofs`, about `Server` | `TypeCorrect`, `OnlyCurrentLiveAlways`, `SignalAfterSwapAlways`, `ServedByNewestAlways`, `NeverBackwardsAlways`, `Refinement`, `RefusedOnlyWhenReplacedAlways`, `RoutedUntilStopAlways` | `IInv`; `Overtaken` |
| `ServerProofs`, about `App` | `ImplementsServer`, `AtRestCaughtUpAlways`, `AppAlwaysRouted`, `AppRefusesOnlyReplaced`, `AppRefinement` | `AppIInv` on top of `IInv` |
| `TemplateHandlerProofs` | `TypeCorrect`, `DotExclusiveAlways`, `NoLeakedTxAlways`, `PageMeansSavedAlways`, `FailureKeepsNothingAlways`, `BodyFitsStatusAlways`, `StatusReachesClientAlways`, `HeadersWithPageAlways`, `ContentAloneAlways`, `Refinement` | `TypeOK`, `Pooled`, and `Own(r)` for each request; `ContentAlone` |
| `BuildProofs` | `TypeCorrect`, `LastDefinitionRunsAlways`, `InitsBeforePublishAlways`, `RoutesCompleteAlways`, `NothingLeftOverAlways`, `Refinement` | `TypeOK`, `Published`, `Scanned`, `Routed`, `Inits`, `LastDefinitionRuns`; `Accounted` |
| `StaticFilesProofs` | `EncodingsAgreeAlways`, `SmallestFirstAlways`, `CheckNoticesStaleAlways` | `Directory`, `Descriptors`, `Loader`, `Tables`, `Answers` |
| `NegotiateProofs` | `DefaultOrAskedAlways`, `StrongPreferenceWinsAlways`, `SmallestOfEqualsAlways`, `BoundedDriftAlways` | `TypeOK`, `Shortcut`, `DefaultOrAsked`, `Strong`, `Smallest`, `Drift` |
| `ContentProofs`, about `DotDir` | `OnlyReturnedStayOpenAlways` | `TypeOK`, `Custody` |
| `ContentProofs`, about `FrontMatter` | `KindIsRightAlways`, `SplitExactAlways`, `FirstFenceClosesOthersAlways` | the properties themselves; loop invariant `Scanned` |
| `StreamsProofs` | `TypeCorrect`, `RepeatCompleteAlways`, `DeliverySafeAlways`, `ReceivedInOrderAlways`, `NobodyForgottenAlways` | `TypeOK`, `Channels`, `Counting`; `Ordered`, `Attended` |

Each module shows `Init => IInv` (`InitIInv`), `IInv /\ [Next]_vars => IInv'`
(`NextIInv`, by one step or lemma per action) and from these `Invariance`; a
theorem then needs only that `IInv` implies its property. What the table names
after a semicolon is shown inductive on top of `IInv`, for the theorems listed
last. TLC has checked each invariant on the bounds of the module's run as well.

**Assumptions.** Only the named ones of the modules, which TLC evaluates on every
run: the bounds are natural numbers; the values that stand for nothing are none
of the real ones (`NoThread` is no goroutine, `NoDot` no struct, `None` and `Own`
no template name, `Forever` no limit of `Repeat`); at least one instance;
sizes and lags are natural numbers and qualities integers; an encoding `identity`
exists; no path is empty, and no request is named as the load is.

**`Server`.** None of the invariants is inductive. `IInv` adds what the code
relies on without saying so:

- `LockHeld`: being inside `Reload` or `Stop` is the same as holding the mutex;
- `Locals`: the `old` that the holder loaded is still the pointer, hence the
  `CompareAndSwap` whose result is ignored succeeds; a new instance is known to
  nobody before the swap;
- `Ownership`: `Server.cancel` belongs to the current instance, except between
  a swap and its cancellation and inside `Stop`, and was never called;
- `OthersCancelled`: every other instance was cancelled, but for one that is
  being built;
- `NewestFiles`: the last instance read the most recent files;
- `FloorReached`, `Unanswered`: what the request path needs.

The refinement has one lemma for each action that is a step of `HotSwap`
(`SwapPromise`, `FailPromise`, `FinishPromise`, `StopPromise`, `ParentPromise`,
`AdmitPromise`) and two for those that stutter.

`Overtaken` is about requests that get no answer from a template. Until `Stop` is
called the pointer is not nil and is at least as new as any that a request has
loaded, and a refused request's instance was cancelled; as `IInv` has only the
current instance live, a newer one must have replaced it.

**`App`.** `ImplementsServer` is `AppSpec => Spec`: `Main` and the watcher call
the `Server` as `Server` allows, so its theorems hold of the command. `CaughtUp`
says when the last load has read what the watcher saw: whenever no callback is
owed and none is before its build. `NeverStopped` says that the command never
calls `Stop` and its context never ends. With it the theorems about `Server` say
more: `AlwaysRouted`, which `Server` alone violates, holds, and a request is
refused only when a reload overtook it.

**`TemplateHandler`.** `TemplateHandlerSteps` holds what every proof needs:
types are kept (`TypeStep`); a step of one request changes nothing that another
owns (`OthersKept`), so that all parts but `Pooled` are shown for the request
that moves; and what the ten operations of a template have in common
(`TemplateStep`). The invariant follows the error through the chain of cleanups
(`ErrorFlow`: equal to how the template ended before `X`'s, never a
`ReturnError` after it, nil only if the template ended normally), ties the work
to it (`Outcome`: work lost means an error from then on; work is kept only
before any is lost), ties transactions to the position of the cleanups
(`Transactions`), and the response to both (`Pages`, `Response`). Then
`PageMeansSaved` follows since a page needs a nil error and unfinished work a
transaction, which is gone by then. `ContentAlone` is inductive given that
nothing was sent while the template runs: later writes find the length used up.
`Response` carries what the cleanups have sent to the handler's last write, from
which `BodyFitsStatus` follows. `Refinement` is `Spec => ImplementsConnections`; it has
one step per action (`ConnsStep`) and needs from the invariant only where `at`
points and that a transaction without a `DotDB` has lost its context.

**`Build`.** `Scanned` and `Routed` describe the builder in terms of what was
`Added`, which mentions files and names but no order, so the order of the maps
drops out; `Inits` says that every INIT template waits, runs or has run.
`Accounted` says to whom every NATS server and every waiting request belongs,
during a load too. The refinement of `HotSwap` maps the instance in `cancel` that
is not current to the one that is leaving; a load that fails ends an id that
nobody was admitted to.

**`StaticFiles`.** `Consistent` is proved of the table under construction as of
the one that is served. What the check by modtime rests on is `Tells(p, m, c)`: if
the file at `p` has modtime `m` and the path was never given an old one, the file
holds `c`. Every write keeps it, since a new modtime is equal to none that was
recorded (`TellsKept`). It is carried along five places: from the disk to the file
that the load has open, through the Stat before the hash (`Loader`), into the
encoding (`Faithful`), to the request that was given it, and into the request's
own descriptor, where the file may by then be an old one (`Answers`). That the
load and the request ask the file they have open, and not the path, is what
`Descriptors` is for; the mutant `StatByPath` shows that it matters. `PlaceExists` shows that a place
to insert exists in any list, by the least-number principle (`Least`), and
`InsertIs` what the result is, element by element.

**`Negotiate`.** `Drift` counts the wanted items seen so far instead of the
encodings: each may cost 0.1. `BoundedDrift` follows because items that are
listed once each are no more than the encodings. The proof does not go through
for `(n - 1) * 0.1` if a q is negative, and TLC then shows why: the choice can
first go from the default's 0 down to -0.1. The property and the qualities of
the run include that case.

**`DotDir`, `Streams`.** `Custody` says who is to close each handle. `Counting`
relates the local variable of `Repeat`'s goroutine to what the template has
received, on both sides of the send. `Ordered` adds that a subscription has
received only messages before the next that the library has for it, and
`Attended` that a goroutine ends only by closing its channel.

**`FrontMatter`.** One call is one step, so the argument is about the loop.
`Scanned` is its invariant: where the line so far starts and ends, whether all of
it is space, and that no line with text has ended. `RunExists` shows that the
recursive function of the loop exists, and `FirstLineScanned` that the invariant
holds after the last iteration; both are inductions over the length, done by
taking the least iteration that fails (`Least`). `OpeningIsLine` and
`LineIsOpening` then say that the trimmed line is a fence exactly if the document
has an `Opening`, and `IndexIs` what `strings.Index` finds; the theorems put these
together.

Only model-checked:

- all liveness properties (`CallsReturn`, `WaitersReleased`, `SeenEditsLoaded`,
  `NatsStopped`, `ReloadReturns`, `RequestsFinish`, `ConnsReturned`, `Converges`,
  `GoroutinesEnd`, `StopEndsStreams`, `ClientEndsStreams`): fairness and `ENABLED`
  are beyond the prover;
- `TypeOK` of `StaticFiles`, because its walk is a `SelectSeq`, about which the prover has
  no facts; the proofs do without it;
- that the fairness of `Connections` is that of `TemplateHandler` (section 4).

## 6. Not modelled

- The format of server-sent events and the template functions other than `try`,
  `return`, `failf` and `splitFrontMatter`: pure formatting.
- Parsing and minification of templates, metrics, logging, content types,
  cache headers, range and conditional requests.
- Renames, and files read while they are being written: a write is one step.
- The parsers of YAML, TOML and JSON: whether front matter parses is a choice.
- Flags and request fields: no state. Key-value fields (`dot_kv.go`): no code
  constructs one.
- The default values of the configuration: constants here.
- JetStream, and the reconnection of a NATS client whose server was shut down:
  the library's.
- Databases opened by driver and connection string, which every load opens
  again and none closes: no document says who should close them.
- The cleanups of application-defined providers, which may do anything.
- Routes that conflict without being equal (module `Build`).
- The end of a subscription when its instance is replaced: the code has none.
  `StopEndsStreams` says so by leaving subscribers out.

## 7. Plan

Done: all components with their runs, and the proofs of their safety properties.
Next: the composition of `TemplateHandler` with `Build`, with INIT templates as
buffering handlers on the shared database.
