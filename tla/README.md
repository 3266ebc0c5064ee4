# Cloud-Computing-and-Linux in TLA+

The repository holds the programs of a course on virtualisation: small
hypervisors on KVM, a container manager written in bash, the counter service
that is deployed with it together with the web server it embeds, kernel modules
and demonstrations of namespaces. This directory holds TLA+ modules translated
from that code, TLC configurations that check them on small instances, and
theorems about them that TLAPS proves for all values of the constants. Paths
below are relative to `src/`; `civetweb.c`, `civetweb.h` and `handle_form.inl`
are those of `Assignment-3/task4/counter-service/libhttp-1.8`.

## 1. Inventory

| component | code | state it keeps | operations | what is hard |
|---|---|---|---|---|
| fractional hypervisor | `Assignment-2/part2/matrix.c` | next VM, quantum counters, signal mask, timer, the shared `kvm_run` pages | the loop of `kvm_run_vm`: pick, unblock, `KVM_RUN`, block, switch on the exit reason | ticks that arrive anywhere; a stale exit reason after a failed `KVM_RUN`; fair shares over many rounds |
| round-robin hypervisor | `Assignment-2/part2/matrix-b.c` | the same without counters | the same loop with another switch | starvation |
| I/O-switching hypervisor | `Assignment-2/part2/matrix-a.c`, `guest1.s`, `guest2.s` | next VM, pages, guest registers | the same without a timer | alternation under signals and failures; guests that are reset before each run |
| simple-kvm | `Assignment-2/part1b/simple-kvm.c`, `guest.c` | guest memory, exit counters | set-up in four modes, hypercalls by port I/O | the order of `in` and `out`, counters that count themselves, addresses the page tables do not map |
| conductor | `Assignment-3/task3/conductor.sh`, `config.sh` | directories of images and containers, bind mounts, processes, veth links, subnet numbers, iptables rules, `resolv.conf` | `build`, `images`, `rmi`, `run`, `ps`, `stop`, `exec`, `addnetwork`, `peer`, `usage` | no locks between invocations; `errexit` and Ctrl-C leave half-done work; cleaning up with `rm -rf` near the host's `/dev` |
| counter service | `Assignment-3/task4/counter-service/counter-service.c`, `functions.c` | a static counter, the embedded server's threads and queue | request, increment, get, reset | several threads and no lock |
| function map | `.../functions_map.c`, `functions_map.h` | an open-addressing table | init, insert, lookup | collisions, wraparound, failing allocation |
| web server: threads and queue | `civetweb.c` | `stop_flag`, running workers, the ring of sockets with its two counters, a mutex, three condition variables | `mg_start`, `mg_stop`, `master_thread`, `worker_thread`, `produce_socket`, `consume_socket` | flags set without the lock, waits and signals that cross, counters that wrap, a start that fails half-way |
| web server: connections | `civetweb.c` | the buffer of a worker, how much of it is head, body and what follows | `process_new_connection`, `getreq`, `read_request`, `mg_read`, `discard_unread_request_data` | pipelined requests cut anywhere; bodies that the handler does not read; chunks |
| web server: handlers and files | `civetweb.c` | the list of handlers, the file system | `mg_set_request_handler`, `handle_request`, GET, PUT, DELETE, MKCOL, listings, SSI, ranges, caching, authorisation | what was found out about a file is stale when it is used; several workers on one file |
| web server: CGI | `civetweb.c` | pipes, child processes, the environment buffer | `handle_cgi_request`, `prepare_cgi_environment`, `spawn_process` | descriptors inherited by other children; waits in a circle; a failure at each of a dozen steps |
| web server: passwords | `civetweb.c` | password files, the last nonce | `mg_modify_passwords_file`, `check_authorization`, `send_authorization_request` | a crash between two steps; a full disk; a reader in between; includes |
| web server: forms | `handle_form.inl` | a buffer that a field may not fit | `mg_handle_form_request` | a boundary or an escape cut by the end of the buffer; a body that breaks off; what the buffer held before |
| web server: websockets | `civetweb.c` (`USE_WEBSOCKET`) | two streams, the write lock, the reader's buffer | upgrade, `read_websocket`, `mg_websocket_write`, `mg_websocket_client_write`, closing | frames of several threads on one stream; a close that joins the reader |
| web server: TLS | `civetweb.c` | the library's user count and mutexes, certificates, the reload lock | `initialize_ssl`, `uninitialize_ssl`, `refresh_trust`, `sslize` | several contexts; a certificate that is replaced between any two of the three times it is read |
| web server: writing | `civetweb.c` | what was sent this second | `mg_write`, `push_all`, `push` | short sends in three nested loops, a throttle, a stop in between |
| web server: texts | `civetweb.c` | none | url and base64 coding, form variables, cookies, header lines, URIs, patterns, paths, lists of options, access, throttles and ports | ends of buffers, ends of strings, first or last match |
| web server: client | `civetweb.c` | a connection, a context that all clients share | `mg_connect_client`, `mg_download`, `mg_get_response`, `mg_close_connection` | what a call leaves when it fails at some step |
| orchestrator and external service | `Assignment-3/task4/service-orchestrator.sh`, `external-service/` | none of its own; background `conductor.sh run`s | a script of conductor commands | `sleep` as synchronisation |
| soldiers and control station | `Assignment-1/2_II/` | the kernel's lists of children, a pending signal, what the driver registered | the script: load, launch, kill, unload; `ioctl` to re-parent; SIGCHLD and `wait` | signals that coalesce, task lists under an RCU read lock, a handler's uninitialised flags |
| translation driver | `Assignment-1/2_I/` | a character device | load, `ioctl` to translate, `ioctl` to write, unload | a registration that fails half-way; an address that is stale when it is written to |
| namespace program | `Assignment-3/task1/namespace_prog.c` | processes, namespaces, a pipe | clone, setns, fork, wait | processes that fail or are killed while others wait |
| container program | `Assignment-3/task2/` | none | a straight line of commands | - |
| task and procfs modules, memory tests | `Assignment-1/1/`, `Assignment-1/3/`, `test/` | none | print at load or on read; touch pages | - |

How they interact: the two VMs of a hypervisor and its control thread share the
`kvm_run` pages and are separated only by `KVM_RUN` and the timer's signal.
Invocations of conductor share the host: files, mounts, processes, links, rules.
The orchestrator calls conductor; the external service calls the counter
service over the network that conductor set up. The counter service finds its
functions through the function map, which is filled before the first thread
exists; its requests come from the web server's workers. There, the master
hands sockets to workers through the queue; a worker reads a connection's
requests from one buffer, asks the list of handlers, and calls either the
application or the functions on files, scripts and passwords; those read the
body through the same buffer. Workers share the file system, the process's
descriptors, the certificate and the list of handlers. The soldiers, the driver and
the station share the kernel's task lists, and the station learns of a soldier
only through SIGCHLD.

What makes each one correct is stated in section 3; what can go wrong in each
one, at its line, is listed under `hazards` in `PROJECT.json`.

## 2. Modules

```
VmTurns                    what a two-VM hypervisor promises (abstract)
KvmTimerLoop               the loop that matrix.c and matrix-b.c share
 |- MatrixFraction         matrix.c              -> implements VmTurns
 `- MatrixQuantum          matrix-b.c            -> implements VmTurns
MatrixYield                matrix-a.c and guests -> implements VmTurns
MCMatrix                   the three, and a history of quanta, for TLC
 `- MCMatrix_proofs

ConductorHost              the host, and an invocation's begin and end
 |- ConductorLifecycle     build, rmi, run, stop
 |- ConductorNetwork       addnetwork, peer
 `- Conductor              both, with the ways of using the script
     |- Conductor_proofs
     `- MCConductor        symmetry and the uses that are checked

MethodMap                  a partial map (abstract)
CounterObject              an atomic counter (abstract)
FunctionsMap               functions_map.c       -> implements MethodMap
 `- CounterService         main, handler, functions.c -> implements CounterObject
     |- CounterService_proofs
     `- MCCounterService   registrations and hash functions

CharDriver                 init and exit of ioctl_pid.c and ioctl_mod.c
 `- Soldiers               run_dr_doom.sh, control_station.c, soldier.c, custom_ioctl
SimpleKvm                  simple-kvm.c with any guest
NamespaceProg              namespace_prog.c
PhysicalMemory             user.c and ioctl_mod.c's two requests
MCPrograms                 these four, for TLC
 `- MCPrograms_proofs

WebThreads                 mg_start, mg_stop, master, workers, queue
 `- WebThreads_proofs
WebHandlers                the list of handlers
 `- WebFiles               handle_request and the operations on files
     `- MCWebFiles         a small tree and requests
         `- MCWebRequests  with WebConnection, WebCgi, WebPasswords, for TLC
             `- MCWebRequests_proofs
WebConnection              bytes of a connection -> requests and bodies
WebCgi                     scripts
WebPasswords               password files and the check of a request
WebSocket                  both ends of a websocket
 `- WebParts               with WebForm, WebSsl, WebClient, WebWrite
     |- WebParts_proofs
     `- MCWebParts         and WebText, for TLC
WebForm                    mg_handle_form_request
WebSsl                     the TLS library, certificates, reload
WebClient                  the client's functions and their failures
WebText                    the pure functions
WebWrite                   mg_write
 `- WebWrite_proofs
```

`MCMatrix`, `MCPrograms`, `MCWebRequests` and `WebParts` put independent
components side by side so that one run checks all: a behaviour chooses one of
them in its first state, `part` or `program`, and the variables of the
others keep their initial values. Their properties begin with `part = ... =>`
where they are about one only.

### The hypervisors

`pc` names the next statement group of `kvm_run_vm`. One action is one system
call of the control thread, or the switch; what the guest and the timer do are
actions of their own (`GuestExit`, `TickInGuest`, `TickInControl`), which may
happen whenever Linux lets them. A timer has at most one signal pending; a
blocked signal waits; an unblocked one runs the empty `timer_handler` at once,
and only a thread inside `KVM_RUN` notices, by `EINTR` and `KVM_EXIT_INTR`.

`exit_reason[v]` is the field of the shared page of VM `v`. It keeps its value
when `KVM_RUN` fails, and the code switches on it before it looks at `ret`; the
model does the same, in that order. The exits without a case in the switch are
one value, `"panic"`. `yielded` is a history and influences nothing.

`MatrixFraction` adds the `KVM_EXIT_INTR` case with the two counters,
`MatrixQuantum` the one that hands over at every tick. In `MatrixYield` the
guests are modelled instruction by instruction with a register of `AX_WIDTH`
bits, because what they print is the subject; `PickVm` contains
`kvm_reset_vcpu`, which restarts the guest from a register buffer that was never
read from the vCPU.

`VmTurns` says what all three promise: one VM has the turn, only that VM runs,
and the turn moves only after `Share` quanta or by I/O. A VM that fails to run
is treated as if it had ended as the last time (the stale exit reason). The
mapping: `turn` is `cvm`, `used` the counters, `phase` follows from `pc` and the
exit reason of the current VM, `last` from both pages.

### conductor

A step of the model is one external command of the script, the granularity at
which another invocation can interfere. A failed command outside a condition
ends the invocation and undoes nothing (`errexit`), which is `Abort`. `Interrupt`
is Ctrl-C, at any step, together with the `cp` it waits for. Data is abstracted:
a root file system is absent, being copied, partial or full; a process is a
`cp` or an `unshare` with the name on its command line, because that is what the
script's `ps | grep` finds; a process id that was read and whose process has
ended since is `Dead`; a subnet number that fits no octet is `TooBig`.

`hostDev` is TRUE while the host's own `/dev` is as it was: `rm -rf` through a
bind mount and `cp -a` onto one make it FALSE.

The constant `Uses` says in which ways the script is used: whether invocations
overlap (never, on different names only, freely), which commands are given,
with which options, and which may be cut short. `images`, `ps`, `exec` and
`usage` change nothing and have no action.

### counter service and function map

`Insert` is one `DEFINE_FUNC_MAP`; `insert_item` contains the capacity test, the
probing, the copy of the URI that may fail and the count. `Send` and `Consume`
stand for the embedded server as the application sees it: a bounded queue of
connections that the worker threads take one after the other; `WebThreads` has
its detail. `Lookup` to `Reply` are `handle_request` and
the called function; `counter++` is a load and a store, `reset_counter` a store
and a later load, because the code has no lock. The hash is any function from
the constant `Hashes`.

### soldiers and control station

`CharDriver` has one action per registration of a driver's init function, with its
failure and what the code takes back; both drivers are instances, because they
name their class alike. `Soldiers` adds the processes. `soldier[s]` is where a
soldier is, `children` the station's list in the kernel. `list_add_tail` is two
steps, the read of the last entry and the writes behind it, since the read-side
lock around them excludes nobody: what was linked meanwhile is lost.
`list_del` from the shell's list is taken to be atomic. SIGCHLD is one pending
bit; `waits` counts the handler's invocations that have not returned.
`flags` is chosen once and for all at the start: the field is never written. A
soldier may end wherever it is outside the driver. `OneByOne` says that a
soldier is launched when the one before has been waited for, and that the times
the programs sleep are enough for the others to do what is due.

### simple-kvm, the namespace program, the translation driver

`SimpleKvm` has the set-up of each mode with its failures and a guest that is any
sequence of hypercalls; `run_vm` answers one exit per step. In `NamespaceProg`
each process is at one system call, which may fail; a process may be killed
between any two, and the pipe remembers who can still write to it, because that is
what ends a read. `PhysicalMemory` has frames, a page table entry of `W` bits and
a kernel that takes pages away and brings them back between the calls of
`user.c`; `get_physical_address` is translated with its masks.

### The web server

`WebThreads`: a program counter for the application's thread, the master and each
worker. Taking the mutex with the statements under it is one step; a wait is two, the
test and the release, so that what other threads do *without* the mutex (setting
`stop_flag`, the last broadcast of `mg_stop`'s master) may fall between. Wakeups
may be spurious. `squeue` is the array with `sq_head` and `sq_tail`, both brought
back by `QUEUE_SIZE` where the code does it. `accepted`, `taken` and `lost` are
history and influence nothing; `sock` says who has a socket in hand. `pfd` says whether the
master could allocate its array to poll with; without it the master ends while `mg_start`
may still be creating workers, so counting, joining and `stop_flag = 2` are three steps.

`WebConnection`: a byte knows the request it belongs to, and `getreq`, `mg_read`
and `discard_unread_request_data` move bytes from the network to the worker's
buffer as the code does, with any sizes `recv` may return. `cause` collects what
may part client and server (section 5).

`WebFiles`: one step per system call that another worker can see (`mg_stat`,
`fopen`, a `read` or `write` of a piece, `rename`, `remove`), with inodes that
live while they are open. The decision of `handle_request` is one definition in
the order of the code, `Kind`, `Auth` and `config` stand for extensions, password
files and options. SSI is at one go. `PutWrite` writes mark by mark; `ok` goes when a
write failed that nobody looks at, of the part of a body that came with the head.

`WebCgi`: pipe ends in the server's table and in each child's; `Spawn` copies the
table, and close-on-exec is set later (`Mark`), as in the code. What is in a pipe is
counted against `CAP`. `prepare_cgi_environment` computes lengths as `addenv` does, and
`top` is how far the buffer was written to, the last terminator included. `ReadHead` may turn
to `Stderr` at any byte: the header may be malformed or too big and the script still write.

`WebPasswords`: the copy, each piece that is written, `remove` and `rename`, any of which
may be the last one; a request is checked at any moment against the file there is. A full
disk ends the copy anywhere, within a line too (`Pieces`), and a line "cut" says that the last
one has no newline. `lost` is history: the call has met one of the two.

`WebForm`: the buffer is an array that keeps what was in it, at first what the stack held
(`Stacks`), with `buf_fill`, and the cases for queries, url-encoded and multipart bodies. Each
piece of a value is decoded for itself and may find no memory (`Deliver`). A negative
`buf_fill` is -1, as its amount is not looked at; then `Pair` finds a field in the old
contents (`StaleFound`), or the search leaves the array ("outside"). `flaw` is history. Of
fields that were not sent the first is told, and one piece of it kept.

`WebSocket`: two byte streams, each with its writers, a lock and a reader; bytes have
two values so that all three length formats occur in short frames. `ntohs` and `ntohl` put
the bytes of a length together as `read_websocket` does, and `Digits` takes it apart.

`WebSsl`, `WebClient`: the calls with each failure and what they release. `ssl_use_pem_file`
reads the file three times, for the certificate, the key, which is checked then, and the chain,
at the start of a context (`set_ssl_option`) as in a reload (`UseCertificate`, `UseKey`,
`UseChain`), and the file may be replaced before each. `Certified` is what the library does
with a certificate: a key that does not belong to it is dropped. `late` is history: the file
was a new one when the chain was read.

`WebText`: a call is one step from a sample to its answer; strings are sequences of codes.
It has RECURSIVE operators and no theorem.

`WebWrite`: `mg_write` at the granularity of `send`, with a clock; `got` is what the
client has received of the present call, `burst` what the request got this second.

## 3. Runs

Passing:

| run | question | bounds |
|---|---|---|
| `Matrix` | without I/O a VM leaves no part of a share (`NoLeftover`) and seven of any ten successive quanta are vm1's (`SevenOfTen`); the turns are those of `VmTurns` (`ImplementsTurns`, and `OthersImplementTurns` for matrix-b.c and matrix-a.c); both VMs get to run again and again, in matrix-a.c to print (`EachVmRuns`) | the default fractions 7 and 3; one exit of each case of the switch; every set-up call and `KVM_RUN` may fail; registers of 2 bits, which wrap around soon. Nothing else is bounded |
| `Conductor` | without two invocations on one name the host's `/dev` is safe (`HostDevSafePerName`), `stop` leaves nothing and, if no `stop` is cut short, the rules go with the last container (`StopLeavesNothing`), a network stays until its container is stopped (`NetworkIsKept`); with one invocation at a time subnet numbers are distinct and the next is free (`NumbersInTurn`) | two names, one disturbed and one that disturbs; two shells; two processes, so that a container runs beside a copy; octets up to 2, so that the numbers run out |
| `Conductor_race` | two shells on one name, `run` cut short anywhere: `stop`, given again and again, gets rid of the name (`StopWorksInTheEnd`) | one name, two shells, three processes |
| `CounterService` | the table has a prime capacity and counts its cells (`ServiceIsSound`); a URI is found with its function if and only if it was registered and copied (`ImplementsMap`); with one worker the service is an atomic counter (`ImplementsCounter`); each request is answered | two clients, one worker as in `run.sh`, the four kinds of URI, increments up to 4; tables of 11 and 23 cells (23 is that of the program); the real djb2 hash and two with collisions |
| `Programs` | soldiers one after the other: no zombie while the station is idle, neither a process nor a driver is left, a driver whose init failed leaves nothing that is reachable (`NothingLeftBehind`), and every soldier is reported (`StationHears`), unless `sa_flags` happens to hold SA_NOCLDWAIT or SA_RESETHAND. `simple-kvm` tells its guest the exits it made and returns 42 only for a guest that asked for it (`GuestIsToldTheTruth`). `namespace_prog` ends, its children in the namespaces it promises (`NamespacesJoined`). The translation driver writes to the byte that was meant while the page stays (`WritesItsOwnByte`) | two soldiers and both drivers; four values of `sa_flags`; one leaked number region per driver; four modes of simple-kvm and up to four exits; entries of 6 bits, pages of 4 bytes, two frames |
| `WebThreads` | sockets reach workers in the order they were accepted, each once (`FirstInFirstOut`), are in one pair of hands and closed after use (`SocketsAccountedFor`); the context is freed after the last thread has gone (`FreedAfterUse`, where the master had its poll array); each connection is answered while the server runs (`EachConnectionServed`); `mg_stop` returns, but for three named holes (`StopReturns`) | at most two workers, a queue of two, three connections: the queue fills, its counters wrap, and the master waits for room |
| `WebRequests` | files: a refused request has changed nothing and only those who may have changed something (`RefusedChangesNothing`), an answered success has been done, but for writes of a PUT whose failure the code does not look at (`SuccessMeansDone`), bodies are as long as announced and 304 is true (`AnswersAreTrue`). connections: server and client agree where requests begin, handlers get their own body (`RequestsInStep`). CGI: nobody waits for ever but for two reasons, a pipe that is full and not read at the time and ends that scripts have inherited from one another (`StuckOnlyForAReason`), no process or pipe is left and the environment stays in its buffer but for its last terminator (`ScriptsCleanedUp`). passwords: a change cut short anywhere loses no other record, but for a full disk or a last line without newline (`PasswordsSurvive`) and the verdict is that of the first record (`VerdictByRecord`) | two workers, one request each of every kind (three of those that a copy and its date are about), bodies of up to two pieces, six configurations, 11 inodes, two times, SSI two deep; two requests per connection or two connections, in a buffer of 7 bytes, reads of 1 and 3; pipes of one unit, scripts of up to three steps; two users, two domains, two changes. Each bound is the least at which the buffers overflow, the pipe fills or the includes are cut |
| `WebParts` | forms arrive as sent and are stored whole or removed, but for escapes cut between two pieces, pieces without memory, and what a stale buffer adds behind an url encoded body (`FieldsArrive`), and reading them ends, but for a multipart body that breaks off and such a buffer (`FormEnds`); websocket messages arrive as written, whatever threads write (`MessagesAsSent`), and a client's close returns (`CloseReturns`); a context that runs has the TLS library, and handshakes are made with a certificate and a key that belong together, or without a key when the file was replaced between the check and the third read (`TlsIsSound`); a client call that returns NULL keeps nothing (`NullKeepsNothing`); `mg_write` sends everything once and in order, says so truly and keeps near the throttle (`WritesAreWhole`); the pure functions agree with reference definitions (`TextIsRight`) | a form buffer of 7 characters, four contents of it at first; four writers, payloads below and above the two lengths that change the frame, one short send; two contexts, two rotations of the certificate; three clients; writes of 1 and 4 bytes with throttles 0, 1, 2 in four seconds; all strings up to 3 to 5 characters over those that matter to each function, addresses of 3 bits |

Violated by what the code does (each has an entry under `findings`):

| run | property | what happens |
|---|---|---|
| `Conductor_dev` | `HostDevSafe` | `run` and `stop` of one name at once: `/dev` is mounted between `umount` and `rm -rf` |
| `Soldiers_many` | `NoZombieLeft` | two soldiers end before the handler runs: one signal, one `wait`, one zombie |
| `WebForm_partial` | `NoPartialContent` | an upload breaks off before its boundary: the part that came stays on the disk (civetweb.h:804 says it is removed) |
| `WebSsl_reload` | `LockedWhileReloading` | a new certificate that cannot be used leaves the reload lock set: every later handshake waits for ever |

Every property of a passing run is also run against a slip, a version of one
definition as a plausible bug would have it; these are the operators with a
comment "Slip" beside the definitions they replace.

### Fairness

* Hypervisors: the control thread is scheduled (weak fairness of its steps). The
  timer's period is a second and the control code between two `KVM_RUN` takes
  microseconds, so of the ticks of a guest that never exits not all can fall
  outside `KVM_RUN`: strong fairness of `TickInGuest`. `KVM_RUN` does not fail
  for one VM for ever: strong fairness of entering each guest. In `MatrixYield`
  signals from outside are rare, so a guest that is entered again and again gets
  to its next instruction. `EachVmRuns` allows the hypervisor to stop, which the
  code does on some exits and failures.
* Conductor: an invocation is not suspended for good (weak fairness of its
  steps), and the user keeps giving `stop` for the name (strong fairness, as
  the other shell may be in the way). No fairness of `run`, exits or Ctrl-C.
* Counter service: each worker is scheduled and a client reads its answer.
* Soldiers: the script, the station, a soldier that has been launched and an init
  function that has been called are scheduled. Nobody needs launch a soldier,
  kill one, or use the other driver.
* Namespace program: the processes are scheduled; nobody need be killed.
* Web server: the application's thread, the master and each worker get on whenever
  they can again and again (strong fairness: the mutex may be held by others in
  between, and pthread mutexes do not starve a waiter for ever under Linux). Clients
  need not connect, and wakeups need not be spurious.
* Forms: the worker is scheduled. Websockets: the server's thread, the client's reader
  once it has something, and the writers are scheduled, and a close that has begun
  goes on; the peer need not send anything.

## 4. Proofs

`MCMatrix_proofs` proves of `MatrixFraction`, for all `FRAC_A`, `FRAC_B` (positive), all exits
and with or without failures, assuming only the named ASSUMEs of
`KvmTimerLoop` and `MatrixFraction`:

* `TypeCorrect`: `Spec => []TypeOK`, which bounds each counter by its fraction;
* `ChargeCorrect`: `Spec => []ChargedVmIsNext`;
* `ShareCorrect`: `Spec => []NoLeftover`;
* `ImplementsVmTurns`: `Spec => ImplementsTurns`.

The inductive invariant `IInv` is the conjunction of the first three. Neither
`NoLeftover` nor `TypeOK` is inductive alone: a quantum keeps `NoLeftover` only
because the counters are below their fractions (else one would be passed without
a reset) and because the VM charged, `current_vm`, is `cvm`, which
`ChargedVmIsNext` gives. `LoopKeepsIInv` goes through the common steps,
`QuantumKeepsIInv` through the two counters. For the refinement each step is
mapped: picking, masks and ticks in the control thread stutter, entering the
guest is `Run` or `Fail`, an exit is `Leave`, the cases of the switch are
`Charge`, `Yield`, `Resume` and `Stop`. That a failed `KVM_RUN` is `Fail` needs
`ChargedVmIsNext` again: the stale reason is that of the VM with the turn.

It goes on from there with the modules that `MCMatrix` puts together:

* `ShareOfTen`: `MCSpec => []SevenOfTen`, for every history, of which `window` keeps the
  last `FRAC_A + FRAC_B` quanta. `WindowInv` gives each of them its place in a round, counted
  back from `Position`, where the counters say the present round is: those below
  `FRAC_A` are vm1's. It needs `IInv`, by which a round begins with both counters 0. A full
  window has each place once (`WindowCounts`).
* `OthersImplementVmTurns`: `MCSpec => OthersImplementTurns`, that `MatrixQuantum`
  and `MatrixYield` implement `VmTurns`. Types, and that the VM that runs is the next one, are
  enough (`BInv`, `AInv`); each action is mapped as for `MatrixFraction`.

`Conductor_proofs` proves, for every number of names, shells, processes and octets
and for all ways of using the script that `UseAssumption` admits, what the runs
check on two names. `HostAssumption` asks that the special names are not among
the processes and kinds, as on the host they are not. The invariant is built in layers,
because each needs only those below it:

* `LocalInv`: types, and what the arguments and the number of an invocation are at each label;
* `ProcInv`: a `cp` belongs to the `run` that waits for it, and a link leads to a process of its
  container;
* `ExclInv`: with discipline no two invocations are under way, or none for the same container;
* `SafeInv`: what a command has reached on the container it names, which nobody else
  disturbs: where a `cp` or `rm` is to go no `/dev` is bound, when `stop` goes on after `kill`
  no process is left, and so on (`SlotOK`); it implies `HostDevSafePerName`;
* `TurnInv`: with one invocation after the other the numbers in use are distinct and at most
  `highest`, and the one that `addnetwork` is about to use is above them;
* `RuleInv`: without a container there are no rules, but between the last `rm -rf` and the flush.

From them follow `InvariantHolds`, `HostDevIsSafe` (`HostDevSafePerName`),
`StopIsThorough` (`StopLeavesNothing`), `NumbersAreDistinct` (`NumbersInTurn`) and, as an action
property, `NetworksStay` (`NetworkIsKept`). `NetworkIsKept` claims nothing where two
invocations on a name overlap, and the rules go with the containers only if `stop` is not
cut short: without these two conditions neither is true for all uses of the script.

`CounterService_proofs` proves, for any registrations, hash functions, capacities, clients and
workers, from `MapAssumption`, `ServiceAssumption` and `BertrandAssumption` (a fact of
arithmetic, Bertrand's postulate, without which the search for a prime might not end):

* `TableIsSized`: `Spec => [](CapacityIsPrime /\ SizeIsUse)`. `SizedInv` counts the cells in
  use; `insert_item` finds a free one because it first compares this number with the capacity;
* `ImplementsMethodMap`: `Spec => ImplementsMap`, under the hypothesis `RoomAtTheEnd`;
* `ServiceCorrect`: `Spec => []ServiceIsSound`, under the same hypothesis;
* `ImplementsCounterObject`: `Spec => ImplementsCounter`, with one worker besides.

`RoomAtTheEnd` says that the registrations, the hash and the capacity leave the last cell free. It
is about constants only, and is needed: `insert_item` wraps around at the end of the table and the
lookup (functions_map.c:117) does not, so that without it what was registered may not be found.
TLC evaluates it for djb2 and the three URIs of the program as `LastCellsFree` in
`MCCounterService`. The argument: `ProbeInv`, that from a URI's key to its cell all cells are in
use, is not inductive by itself, since an insertion that wraps breaks it. `CountInv` excludes
that: from each cell on, no more cells are in use than URIs have been given that hash there, and by
`RoomAtTheEnd` these are fewer than the cells. `LookupFinds` says what the lookup then returns;
`CheckPrime` that what `check_prime` accepts is prime.
For the service, `LinkInv` says where each request is, `CallInv` what a worker knows of it at each
place, and `BoundInv` that the counter and the increments still to come stay within the bound; for
one worker, `FreshInv` says that what it loaded is still the counter. A request takes
effect when its function writes the counter, or else with the answer.

`MCPrograms_proofs` has the four programs of `MCPrograms`, from `SoldierAssumption`,
`DriverAssumption`, `KvmAssumption` and `MemoryAssumption` (a page has the size of a power of two):

* `NothingIsLeft`: `MCSpec => []NothingLeftBehind`, and `StationIsStaying`:
  `MCSpec => StationStays`, for any number of soldiers, one after the other (`OneByOne`);
* `DriversCleanUp`: `MCSpec => [](TypeOK /\ NothingLeft)`, the drivers' part also when soldiers
  come at once. `Registered` says what the kernel knows of a driver at each stage of its
  init and exit;
* `GuestIsTold`: `MCSpec => []GuestIsToldTheTruth`, for any sequence of hypercalls;
* `OwnByte`: `MCSpec => []WritesItsOwnByte`, for every width of entries and size of pages;
* `Joined`: `MCSpec => []N!JoinedAndCleanedUp`.

`NothingIsLeft` goes from `SafeInv` (the drivers, and a use count that is the number
of soldiers that hold the device, `Cardinality(Holding)`, so that `rmmod` removes nothing that is in
use) to `FamilyInv`, which adds where the script is (`ScriptInv`), that the station's list is the
one soldier that has called the driver and was not waited for (`ListInv`), and that a zombie has
either a pending SIGCHLD or a handler on its way to `wait` (`SignalInv`). The last is false for two
soldiers at once, as `Soldiers_many` shows. `KvmInv` distinguishes when the hypervisor
has counted all calls of the guest (`Settled`) from when one is under way (`Asked`). In
`NamespaceInv` what the second child joins hangs on the pipe: `PipeInv` keeps the
first child alive, its namespaces made, from the byte on until the parent kills it. `MemoryInv`
needs `Translation`: the masks of `get_physical_address` take a page entry and an offset apart
and put them together without carry (`Split`, `NxBitGoes`).

`WebThreads_proofs` proves, for every number of workers and connections and every
size of the queue, assuming only `ThreadsAssumption`:

* `FreedCorrect`: `Spec => []FreedAfterUse`. The invariant is `Places`: where each
  thread may be (`PcType`), and how far everybody is for each value of `stop_flag`
  (`StopInv`): it becomes 2 only when the master and the workers have gone, and
  `mg_stop` frees nothing before. Both the property and `StopInv` except a master that
  could not allocate its poll array, for which it is false (section 5).
* `OrderCorrect`: `Spec => []FirstInFirstOut`. `RingInv` bounds the two counters, the
  tail by the queue's size and the head by one size more, and has a socket in each
  cell between them. The lemmas `Place`, `PlacesDiffer` and `PlaceWraps` say what `%`
  makes of counters within twice the size; `PutAppends` and `TakeIsTail` that
  `produce_socket` and `consume_socket` work on the two ends of a sequence, also
  where both counters are moved back.
* `SocketsCorrect`: `Spec => []SocketsAccountedFor`. `OwnInv` says whose each socket is
  and what state it is in: in the queue it is open and in nobody's hands, and one that
  was taken is closed or in the hands of a worker. `InOrder` says that workers are
  started in order, so that the next one has never run; `CountInv` that
  `running_worker_threads` is the number of those alive. With these and the two
  others, what is left open at the end was never served.

`WebWrite_proofs` proves, for every set of lengths and of throttles (natural numbers),
without bounds on calls and time:

* `OrderCorrect`: `Spec => []BytesInOrder`;
* `ReturnCorrect`: `Spec => []ReturnIsTrue`;
* `WritesCorrect`: `Spec => []WritesAreWhole`, those two and `RateIsBounded`.

The first two follow from `WriteInv`, whose parts need one another. `Progress` says at each
place how far the buffer (`off`), the totals and what the client got have come:
`BytesInOrder` needs it because the next `send` must begin where the last ended, and
`ReturnIsTrue` because a later `push_all` that ends short is not counted. `Allowance` says
that what is left of a second is never negative unless a throttle was lowered below
what was used, so that a `push_all` without failure writes all it was given. The
lemmas `Set...` say what a record of a call is after some of its fields are set,
`AppendInOrder` that bytes that follow in order are appended in order. `RateIsBounded`
needs `RateInv`, in which `Paced` says at each place how much of this second's bytes
(`burst`) `mg_write` has counted (`Counted`) and how much is the present piece's (`Sent`):
a piece is counted before the next begins, and after a piece beyond the first it sleeps into the
next second. The three throttles are a second's worth, the piece that is sent without
a sleep, and one begun in the second before.

`WebParts_proofs` has parts of the server as `WebParts` puts them together, from
`PartsAssumption` and, for websockets, `SocketAssumption`. The lemmas `...Alone` say that each part behaves as its own
module says, whatever the others do.

* `WritesArrive`: `PartsSpec => []WritesAreWhole`, from `WritesCorrect` of `WebWrite_proofs`;
* `NullIsClean`: `PartsSpec => []NullKeepsNothing`, for any number of threads;
* `LibraryStays`: `S!LibraryWhileUsed` for any number of contexts. `LibraryInv` says whom the
  reference counter counts: contexts that run or stop, and those whose start failed;
* `TlsCorrect`: `PartsSpec => []TlsIsSound` with one worker, any number of contexts, handshakes and
  replaced files. With two workers it is false (section 5). A pair that was `Checked` belongs
  together; one that is `Matched` is such a pair, or has lost its key because the file was replaced
  before the chain was read (`late`). `LockInv` says that while the lock is free every context
  that has been started is `Settled` on a matched pair, that while a worker reads the file again
  only its own context may not be, and that it is checked before the chain is read; `StartInv`
  says the latter of contexts that are being started; `BusyInv`, that no other step replaces the
  pair of that context meanwhile. What the library itself does, `Certified`, is taken as OpenSSL
  does it;
* `MessagesArrive`: `PartsSpec => []MessagesAsSent`, for any number of threads that write, any
  messages, keys and sizes of what `recv` returns, and any size of the queue.

`MessagesArrive` is about a stream of bytes: what an end has been sent and has not read is its
queue, what is on the net behind the server's answer, and the data of a frame of which only the
header is written, since `mg_websocket_write_exec` writes the two separately (`Coming`).
`StreamInv` says that this stream is the frames of the messages still to come, one behind the other
(`Framed`), and while `read_websocket` is pulling a message into its own memory, first the rest of
that one (`PartlyRead`). It needs `HoldersInv`: who is between header and data holds the lock of its
end, so that nothing comes between them; and `OpeningInv`: the client's queue is empty and
nothing is on the net before the server's answer. `HeaderIsParsed` says that from a header and
anything behind it `read_websocket` reads the opcode, the length and the key, in each of the three
formats of a length (`DigitsSayIt` for two and eight bytes in network order); `Unmasked`,
that masking twice with a key does nothing, also where the parts of a message begin at any place of
the key. Each action is then one that reads nothing new (`ReadKeeps`, `MoveKeeps`), takes a
frame or a part of one (`TakeKeeps`, `PullDataKeeps`, `CallbackKeeps`) or sends (`SendKeeps`).
`SocketAssumption` says of which kind requests, messages and keys are. Bytes have two values in the
model, so that its bound on a message's length, 2^8, stands for the 64 bits the longest format has.
The provers know sequences only by their sizes and elements: `Bytes`, `Cat`, `First`
and `Rest` are named so that the first lemmas are the only ones that look inside.

`MCWebRequests_proofs` has the parts that `MCWebRequests` puts together, from
`ScriptsAssumption`, `PasswordsAssumption` and `WorldsAssumption`, which say of which kind requests,
scripts and files are: any number of workers, users and lines, any sizes, any tree of files.

* `PasswordsSurviveHolds`: `MCSpec => []PasswordsSurvive`. `PwInv` says at each step of
  `mg_modify_passwords_file` what the file and the temporary one hold. That the copy is as asked for
  (`CopyUpdates`) goes line by line: after each line the copy and the lines read `Agree` about every
  user, the one that is changed by the new password and the others by the first record there was.
  Where records are lost, `CopyLoses` and `PieceIsLess` say that a line spoilt at the end of the copy,
  or a file that ends within a line, has at most fewer passwords and never another one.
* `VerdictByRecordHolds`: `MCSpec => []VerdictByRecord`, as the loop of `read_auth_file` ends at the
  record that `Lookup` finds (`LoopIs`).
* `ScriptsCleanedUpHolds`: `MCSpec => []ScriptsCleanedUp`. `AddenvInBounds` shows that the buffer
  is grown enough whatever the size of a variable, and `PreparedInBounds` carries that through
  the variables; the last terminator is one byte behind them, and so behind the buffer only
  when they fill it exactly.

`StepByStep` and `Recursion` stand for the induction that these need: a set that holds the beginning
and is closed under a step has all, by its least counterexample; and the recursive functions of the
modules exist and have the values their equations say.

The other three are about the files, with any number of workers on them, any handlers and any
requests:

* `RefusedChangesNothingHolds`: `MCSpec => []RefusedChangesNothing`. `JobsInv` is what each request
  knows by itself (`Local`) whatever the others do: what each field may be at each step
  (`Typed`, `Begun`, `Opened`), that a step that changes a file is reached only by one that was let
  in (`Working`), and that from the first change on the only errors left are 204, 411, 417 and 500
  (`Changed`). The part about `Authorized` needs that a handler that authorizes is never
  removed (`HandlersStay`), which `WorldsAssumption` asks of the application: without it a file
  would have been changed under a handler that is there no longer.
* `SuccessMeansDoneHolds`: `MCSpec => []SuccessMeansDone`.
* `AnswersAreTrueHolds`: `MCSpec => []AnswersAreTrue`.

The last two need `FilesInv`, what is known of the files as well. `Undisturbed` says, of a
request on whose path nobody else has worked: what `mg_stat` found is still there (`Looked`); what
was sent is a prefix of the part that was asked for, of one version of the file, and what is left is
the rest of what was announced (`Sent`); the file of a PUT holds what was written so far,
followed by what is still in the stream's buffer and on the wire, unless a write failed
unnoticed (`Written`); what was removed is gone
(`Removed`). None of these survives the steps of others by itself. `Named` (a file has
one name, and a time not later than now) and `OpenInodes` (an inode that is open has the name by
which it was opened, or none) say that a change under another name is a change of another
file (`ChangedApart`, `KnownApart`); and a change under the same name disturbs the request
(`OthersTouched`). So each action that changes files is shown to be one `Changes`, of which
`AfterChange` says what everybody else still knows, and its own worker's part
is left (`AfterPutWrite`, `AfterRemoveFile` and so on). Actions that neither change nor open a
file are `Calms`. `Copies` says that a client's copy of a file whose time is before
the copy's date is what the file holds, and is why 304 is true.

Only model-checked: everything about liveness (fairness and ENABLED are outside
the prover: `EachVmRuns`, `StopWorksInTheEnd`, `EachConnectionServed`, `StopReturns`,
`FormEnds`, `CloseReturns`, `StationHears` but for `StationStays`, `NamespacesJoined` but for
`JoinedAndCleanedUp`, requests answered); what recursive operators return, and with them `WebText`;
`StuckOnlyForAReason`, which is about ENABLED; and `RequestsInStep` and `FieldsArrive`, which are
about how text is taken apart that was put together elsewhere, requests on a connection and the
fields of a form, and for which the invariant would say at each step what is in a buffer that is
searched, moved and filled.

## 5. Observations that no run states

Hypervisors, drivers, conductor:

* `sigprocmask` unblocks the timer's signal in the control thread itself
  (matrix.c:318, 380), where `assignment2.html:201` asks for it to be blocked: a
  tick there runs the empty handler and ends no quantum. `TickInControl` and
  `LetSignalsIn` are those ticks; the passing runs hold with them.
* matrix.c closes `dev_fd` twice, and does not look at the NULL that
  `kvm_init_vcpu` returns when an ioctl or mmap fails (431).
* matrix-a.c resets the vCPU before each run (275), so each VM prints 0 for ever, where
  the sample output of `assignment2.html:201` counts.
* `ImplementsCounter` needs the one worker of `run.sh`. With two, `counter++`
  (functions.c:16) may lose an increment.
* `get_method_function` (functions_map.c:117) goes on without wraparound where
  `insert_item` (72) wraps. With the three URIs of today the last cell stays
  free (`RoomAtTheEnd`); `OutOfBounds` is in the model for a table in which it is not.
* `curr_size` does not count a cell whose `strdup` failed; the cell stays free for
  the next registration, so nothing is lost but that one.
* A driver whose `cdev_add` fails (ioctl_pid.c:92) keeps its number region.
* `rmmod` at the end of `run_dr_doom.sh` fails if a soldier is still in the driver;
  the soldier's `ioctl` error is not looked at, and a soldier without a parent
  sleeps and ends as a child of the shell.
* `lkm3.c` walks page tables without `mmap_lock`, `lkm4.c` may sleep under the RCU lock,
  `get_pgfaults` does not free what it allocates.
* Two `addnetwork` at once read the same number (conductor.sh:44), where 282 says that
  each container gets its own subnet. The DNAT rule of a stopped container stays in
  front of the one for its successor (355, 417).
* `conductor.sh ps` (151, 396: "currently running") lists directories; a container
  whose init command has returned is still listed. A second `addnetwork -i` overwrites
  `resolv.conf.old` with the first one's nameserver (344). `addnetwork` for a
  container that is not running makes the link and fails at 299; every later one for
  the name fails at 298 until `stop`.

Web server, threads and requests:

* `mg_stop` closes no socket that is still in the queue; the master's broadcast is sent
  without the mutex (civetweb.c:12663) and may come between a worker's test and its wait,
  after which `mg_stop` waits for ever: `lost` in `StopReturns`. Without a single worker a
  full queue keeps the master, and `mg_stop`, waiting. A master whose `pollfd` array cannot
  be allocated (12635-12637) leaves its loop at once, closes the ports and makes its only
  broadcast with `stop_flag` still 0; the workers it then waits for, or the 2 that `mg_stop`
  overwrites with 1 (12811), never come, and `mg_stop` does not return. If it counts no
  worker yet, it can end before the workers do, and the context be freed under them: `~pfd`
  in `StopReturns` and `FreedAfterUse`. A start that fails after the ports were opened leaves
  them open.
* `cause` in `WebConnection` lists what parts client and server: a second request sent
  before the first is answered, when the handler did not read its body or
  `reset_per_request_attributes` drops the buffer; a body that could not be discarded
  in time; `content_len` of an earlier request met by a chunked one.
* `uri_len` is that of the URI before it was decoded; a handler that declines lets the
  request be authorised a second time; a websocket handler without `USE_WEBSOCKET` answers
  nothing.
* PUT empties the file before it answers 411 or 417, and for a Content-Range;
  `forward_body_data` overwrites 201 by 200. It does not look at the result of writing the part of a
  body that came with the head (7137), and the file is closed after the answer: on a full disk a PUT
  is answered with success and the file has a gap or nothing, against the comment at 7158 that each
  error must be sent (`ok` in `SuccessMeansDone`). For the same reason a CGI script may get a body
  whose beginning is missing. A chunked PUT whose `content_len` is 0 stores nothing and succeeds; with Expect the status that is logged is "100
  Continue"; otherwise as many bytes are stored as an earlier request's `content_len` says. DELETE of a directory that is not empty
  answers 500 though its files are gone, and 204 when the removal failed (7956, 7959).
  MKCOL answers 415 when anything is in the buffer.
* A range whose end is beyond the file is one byte too long, one with r1 > r2 negative. `mg_fopen`
  clears what `mg_stat` found, so ETag and Last-Modified lose the time. Error pages
  are sent with status 200. A GET beside a PUT may give a cut copy that 304 confirms later.
* `prepare_cgi_environment` ends the list with a NUL (7428) for which nobody has ensured room: when
  the strings fill the buffer exactly it is the byte behind it (`EnvironmentInBounds`). A variable's
  pointer is kept across `realloc`. Pipe ends are inherited by a child forked between `pipe` and
  `set_close_on_exec`; a script that overfills stderr while the server reads its output, or its output
  while the server forwards the body, waits for ever, and so does the server. A header that is malformed
  or over 16384 bytes sends the server to stderr (7594-7599) while the script still runs; one that
  goes on writing its output then is a third such case. All three are `Overfills`; `fderr[1]`
  stays open when the fork fails. `StuckOnlyForAReason` and
  `NothingLeftBehind` except these cases.
* Passwords: a crash between `remove` and `rename` leaves only the temporary file; comments and
  includes are dropped by a change; two callers share one temporary file; a later include
  overwrites the verdict of an earlier one; 1 is returned also when `rename` failed. Neither
  `fprintf` nor `fclose` is looked at (5765-5780): when the disk is full, a copy that ends anywhere
  replaces the file, other users' records are gone, and 1 is returned. A last line without newline
  swallows the new record that is written behind it (5775), whose user and whose own can then not
  log in. Both are `lost` in `PasswordsSurvive`.
* Forms: `url_encoded_field_get` decodes each piece by itself (105-108), so that an escape cut by the
  end of the buffer reaches the callback as it was sent; it decodes the values of multipart forms,
  which nobody has encoded, too; and when there is no memory it drops the piece and returns ABORT
  (103), which none of its callers look at (419, 675, 731). A last value without "&" makes
  `buf_fill` negative (489-491): nothing more is read, and the next "=" is looked for in what the
  buffer held before (360), at first what the stack held. A field may be told that was never sent,
  the loop for its value need not end, and a search may leave the array. These are `flaw` and
  "outside" in `FieldsAsSent` and `FormEnds`. A multipart body that breaks off within
  a part is read for ever when `mg_read` returns 0, which `FormEnds` excepts; `mg_store_body`
  always returns 0; `if (!truncated)` in `mg_upload_field_found` is inverted.
* Websockets: the result of writing the header is not looked at, so that after a timeout data may
  follow without one; a failed `pull` leaks the frame's data; a request that nearly fills the
  buffer leaves no room for a frame's header; the client frees its connection without closing the
  socket when the reply is not 101; the callback gets NULL for `user_data`; only the server's close
  wakes the client's reader.
* TLS: `ssl_use_pem_file` reads the certificate file a third time, for the chain, after certificate
  and key were checked (11031, 11039). When the file is replaced between the two, the certificate of
  the new one is used, the library drops the key, 1 is returned, and handshakes go on without a key
  (`late` in `MatchingPair`). `reload_lock` and `data_check` are static and not synchronised between threads, so that with
  more than one worker of `WebSsl` mixed pairs are possible; a change is forgotten when verify
  locations fail; a failed start keeps its count of the library, and the next one uses mutexes
  that were never allocated.
* Client: `fake_ctx` is shared by all threads, which mix their client certificates; a bad
  `client_cert` dereferences a NULL connection; `mg_close_connection` of a connection without
  websocket frees nothing.
* Writing: with a throttle a request may get three times its rate in one second: what a
  second's first call has left, and a second's worth sent without a sleep, and what was begun before
  (`RateIsBounded`). The part that a failing second `push_all` wrote is not in the number
  returned, which civetweb.h:498 says is that of bytes written; `push` returns -1 for bytes it has
  sent when `stop_flag` is set meanwhile. `last_throttle_bytes` is kept from one request of a
  connection to the next: under a lower throttle the allowance is negative and `mg_write` returns 0
  with nothing sent (`bad` in `ReturnIsTrue`).
* Texts: `mg_get_cookie` finds a name within another name, `header_has_option` accepts a
  prefix. `get_uri_type` (11697) refuses an absolute URI with a colon in its path, which
  `get_rel_url_at_current_server` (11750) accepts; the latter compares domains with `memcmp`, under a
  comment that they are case insensitive (11729). `parse_net` keeps the host's bits, so that
  "+192.168.1.5/24" never matches. `is_valid_port` accepts 0 and refuses 65535, and a port that
  cannot be parsed is accepted as 0 when the text begins with s or r (10285).
  `set_ports_option` frees the table of sockets when its second `realloc` fails and uses it
  afterwards (`freed`). `get_mime_type` looks before the path when an extension is longer than it.

## 6. Not modelled

* Set-up without choices: opening `/dev/kvm`, mapping memory, loading guest images; what the
  guests of `matrix.c` and `matrix-b.c` compute; the wording of output.
* iptables beyond the order of the rules for one port; `images`, `ps`, `exec` and `usage` of
  conductor, which change nothing.
* The orchestrator and the external service: commands of conductor with sleeps between, and a
  stateless forwarder. Which delays suffice is a question of real time.
* Of the web server: scripts in Lua and Duktape, timers, MD5 and SHA-1, files in
  memory, what a listing or the answers to PROPFIND and OPTIONS contain, IPv6, Windows, the
  standalone program `main.c`, `CivetServer` and the examples, none of which the counter service
  uses or which compute without keeping state; OpenSSL, pthreads and the file system are taken as
  documented. Websockets and base64 are compiled only with `USE_WEBSOCKET` and are modelled as
  if it were defined.
* The container program, the modules that print task lists, the procfs modules and the memory
  tests, which keep no state.
* Weak memory: a step of a module is atomic, and threads see each other's writes at once.

`PROJECT.json` lists all components with their status.

## 7. Next

In this order: a theorem for `RequestsInStep`, which needs what the bytes in a connection's buffer
are at each step; one for `FieldsArrive`; pipelined requests with handlers that do not read; ports with
IPv6.
