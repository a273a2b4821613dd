# Verification of jungle-week-04-06

This directory holds TLA+ models of the three programs of the repository, the
TLC configurations that check them on small instances, and TLAPS proofs of what
holds for every size. Paths below are relative to `src/`, and `mm.c:240` means
line 240.

To run one model: `tlc -config allocators.cfg MCAllocators.tla`; the table of
runs (section 3) names the module of each configuration. To check the proofs of one
module: `tlapm ProxyProofs.tla`, and the same for `AllocatorProofs`, `CheckerProofs`,
`Week5Proofs`, `Week4Proofs`, `Week6Proofs`, `RbTreeProofs` and `SequenceFacts`.

## 1. The system

The repository is the work of three weeks of a course; the weeks share nothing.

### Week 6: a concurrent caching web proxy (`week06-webproxy`)

| part | state | operations | interacts with |
| --- | --- | --- | --- |
| accept loop, `proxy.c` `main` | listening socket, the cell the next descriptor is stored in | malloc a cell, accept, create a detached thread | threads, through the cell; kernel |
| request thread, `proxy.c` `thread`, `trans` | descriptor, request, buffers, pointer to a cached node | take the descriptor, read the request, look it up, answer from the cache or fetch, insert and answer, close | shared list, origin, client |
| cache, `cache.c` | the global list `dll`: dummy node, `size` | `newDll`, `search`, `moveFront`, `pushFront`, `popBack`, `printDll` (`deleteList` is never called) | every thread, with no lock |
| wrappers and Rio, `csapp.c` | read buffer of one descriptor | `Accept`, `Open_clientfd`, `Rio_*`, `unix_error` | kernel; on an error most wrappers exit the process |
| `open_clientfd`, `open_listenfd`, `csapp.c` | one descriptor, a list of addresses | try the addresses in turn | kernel |
| origin, `tiny/tiny.c` | one connection; `method` and `uri` keep what the last request left | read a request, send a file or run a CGI program | the proxy or any client; files that others change; a child process |
| CGI program, `adder.c` | its environment | print a page | the connection of the request |
| `echoserver.c`, `echoclient.c`, `echo.c` | one connection, one line | send a line, send it back | each other |
| test programs `test/`, `sharing.c`, scripts `driver.sh`, `nop-server.py` | - | - | - |

What is hard here: the threads share the list and the descriptor table with no
lock; a node one thread found can be evicted and freed by another before its
body is copied; the body of a miss belongs to the cache before it is written to
the client; an origin may be silent or down; a client may be gone; descriptors
run out. Below them `read` and `write` cut the stream of bytes where they like,
and the programs read it by lines and by counts; the iterative servers wait for
one client while others queue, and must return to `accept` with nothing left open
however a request ends. What makes it correct: every client gets the page it asked for, whole
and from the host it named; one connection is served by one thread; the list is
an LRU cache of bounded size; no freed or uninitialised memory is used; every
request to a live origin is answered; every byte arrives once and in order.

### Week 5: dynamic storage allocators (`week05-malloclab`)

| part | state | operations | interacts with |
| --- | --- | --- | --- |
| simulated heap, `memlib.c` | the bytes, `mem_brk` | `mem_init`, `mem_reset_brk`, `mem_sbrk` and queries | the allocators |
| `mm.c` (= `lab3-segregated.c` but for one shift) | headers and footers, class heads in the prologue, links in free blocks | `mm_init`, `mm_malloc`, `mm_free`, `mm_realloc` | heap |
| `lab2-explicit.c` | headers and footers, one list | the same | heap |
| `lab1-implicit.c` | headers and footers | the same | heap |
| `lab0-original.c` | `brk` | the same; `mm_free` does nothing | heap |
| `mdriver.c` | table of the payloads of a trace, ranges seen, sums, results | for each trace: check alignment, extent, overlap and contents; measure utilisation; measure speed | allocators, `fcyc` |
| `clock.c`, `fcyc.c` | counter at the start, user time at the start; the K shortest samples, settings, block to clear the cache with | start and read the counter; measure a function | processor, timer interrupt |
| `fsecs.c`, `ftimer.c`, traces | - | - | `mdriver.c` |

What is hard here: histories. A tag, a link or a size left wrong by one of the
four cases of `coalesce` or by a split shows up many calls later, in another
operation; sizes sit at the border of classes, of the smallest block and of
`size_t`; `mm_realloc` allocates, copies and frees in an order that must never
touch data; the heap runs out; the heap is reset over old words. The driver must
refuse a bad allocator and never a good one, whatever the trace before left in its
tables, and the counter it measures with wraps around. What makes it
correct: payloads are aligned, inside the heap and disjoint; nobody writes into
them; the blocks tile the heap with no two free neighbours; the free lists hold
exactly the free blocks; a request is refused only when it cannot be met.

### Week 4: red-black tree and lists (`week04-rbtree`)

| part | state | operations |
| --- | --- | --- |
| `src/rbtree.c` | root, sentinel `nil` (its `parent` is scratch), nodes with parent links | `new_rbtree`, `rbtree_insert`, `rbtree_erase`, `rbtree_find`, `rbtree_min`, `rbtree_max`, `rbtree_to_array`, `delete_rbtree` |
| `test/test-rbtree.c`, `src/driver.c` | - | tests |
| `linked_list/singlyLinkedList.c` | `head`, `size`, nodes with `next` | pushes and pops at both ends, `removeIdx`, `search`, `deleteList` |
| `linked_list/doublyLinkedList.c` | dummy node, `size`, nodes with `next` and `prev` | the same |
| `linked_list/binarySearchTree.c` | root, nodes with parent links | `bst_insert`, `bst_find`, `bst_delete`, `delete_tree` |

What is hard here: the cases of insertion and deletion, mirrored left and right,
recurse to the root; duplicates are allowed and rotations move equal keys to
either side; erasing a node with two children moves a key and frees another
node; the lists have cases for empty, one node and the end, and the search tree
for a successor that is or is not the right child. What makes them correct: search order, colours, equal black heights, the
multiset of keys; a list is the sequence its calls describe; no use of a freed
node and none lost.

## 2. The modules

| module | models | kind |
| --- | --- | --- |
| `CacheSteps` | `cache.c`, statement by statement | actions of one thread on the list |
| `Proxy` | `proxy.c`, the kernel's descriptor table, clients, origins | composes `CacheSteps`; specification and properties |
| `LruCache` | what the cache promises | abstract specification |
| `ProxyLru` | refinement mapping from `Proxy` to `LruCache` | |
| `MCProxy` | instances of `Proxy` for TLC | |
| `ProxyInvariants` | the inductive invariants of `Proxy`: the list as a sequence of nodes, statement by statement | definitions |
| `ProxyProofs` | type correctness and ownership of connections; for one client at a time, the list, the pages and the refinement of `LruCache`; for any number of threads that all miss, the walk along `next` | proofs |
| `HeapWords` | `memlib.c`, the header macros, size arithmetic | operators on a heap |
| `Implicit` | `coalesce`, `best_fit`, `place` and `mm_init` of `lab1-implicit.c` | operators |
| `FreeLists` | the same of `mm.c`, `lab3-segregated.c` and `lab2-explicit.c`, which keep free blocks on lists | operators |
| `MmCalls` | `extend_heap`, `mm_init`, `mm_malloc`, `mm_free`, `mm_realloc`, which the allocators write alike, for each allocator | operators |
| `Mdriver` | a program on an allocator, after `eval_mm_valid` | specification and properties |
| `MCAllocators` | the free lists of `Mdriver`'s allocator, and the refinement to `BlockHeap` | properties |
| `AllocatorProofs` | all that `Mdriver` and `MCAllocators` state | proofs |
| `BlockHeap` | what all the allocators do to the blocks | abstract specification |
| `RbTree` | `rbtree.c` | specification and properties |
| `RbTreeProofs` | links, order, colours and queries of the tree, and the multiset it implements | proofs |
| `KeyBag` | what the tree promises: a multiset of keys | abstract specification |
| `SinglyLinkedList`, `DoublyLinkedList` | the lists of `linked_list/`, on the operators of `ListNodes` | specifications and properties |
| `Deque` | what the lists promise: a sequence changed at both ends | abstract specification |
| `BinarySearchTree` | `binarySearchTree.c`, against `KeyBag` | specification and properties |
| `MCWeek4` | the four data structures of week 4, each behaviour using one, with the view `Week4Shape` | instance |
| `Week4Proofs` | the linked lists are what `Deque` says | proofs |
| `Checker` | the whole of `mdriver.c`'s evaluations, on any allocator | specification and properties |
| `Fcyc` | `clock.c` and `fcyc.c` | specification and properties |
| `CheckerProofs` | the driver's list of ranges, its verdicts and its utilisation | proofs |
| `MCWeek5` | `BlockHeap`, `Checker` and `Fcyc`, each behaviour of one | instance |
| `Week5Proofs` | `BlockHeap`: blocks tile the heap, free blocks are apart; `Fcyc`: the best measurements; what `CheckerProofs` proves, for `MCWeek5` | proofs |
| `Rio` | the Rio package of `csapp.c`, one system call a step | specification |
| `ByteStream` | what Rio promises a program | abstract specification |
| `Sockets` | `open_clientfd` and `open_listenfd` | specification and property |
| `Echo` | the echo server and its clients, on connections that keep the promise of `ByteStream` | specification and properties |
| `Tiny` | `tiny.c` and `adder.c`, and the clients | specification and properties |
| `SequenceFacts` | what cutting and joining does to sequences, what is computed from one number to the next | lemmas |
| `MCWeek6` | `Rio`, which it extends, `Echo`, `Tiny` and `Sockets`, each behaviour of one | instance |
| `Week6Proofs` | `Rio` implements `ByteStream`; the echo programs lose no byte; tiny and the socket functions leave no descriptor open, and tiny answers what it is asked | proofs |

`PROJECT.json` gives the lines each definition stands for.

### How `Proxy` corresponds to the code

`pc[t]` is the statement thread `t` executes next: `push16` is `cache.c:16`, in
`pushFront`; labels without a function of `cache.c` are lines of `proxy.c`. One
action is one statement on shared state, except `size++` and `size--`, which
load in one step and store in the next. Statements that touch only locals are
joined to a neighbour. The build is `gcc -g -Wall` with no `-O`, so program
order is kept; statements of different threads interleave.

`mem` maps each heap block to its fields and `live` is the set of allocated
blocks. A block stands for a node with its body and its path, which `popBack`
frees together. `free` takes the block out of `live` and leaves its contents;
`malloc` may return any block that is not live. A statement that dereferences a
block outside `live`, or copies a body that `buf` does not hold, records that in
`ub` and either kills the process (`Crash`) or goes on with what it found.

`fdt` is the descriptor table: `accept` and `socket` return the lowest free
entry. `unix_error` and a failing `Open_clientfd` stop the process (`Exit`); a
write to a peer that has gone may raise `SIGPIPE` (`BrokenPipe`), which the proxy does not
ignore, and so the process dies (`Crash`) or the peer's reset is noticed first and
`Rio_writen` goes on. `proxyfd` is never closed (`proxy.c:108`), and `Miss108` keeps its
descriptor for ever. How often clients come is therefore bounded by `Fds`: the
process ends when the table is full, as the real one does.

A client in `Slow` connects first and sends its request line, and then its headers,
when it likes (`SendOn`); one in `Impatient` may close its side at any point
(`GiveUp`). `conn` says what the proxy can read: nothing yet, the request line, all of it,
or the end of the file after that much. `T65` waits for the line. At the end of the file
`Rio_readlineb` returns 0 and `trans` parses whatever is in `buf`: `T65Gone` takes any
uri. After a reset `Rio_readlineb` exits (`ReadError`). The same goes for an origin in
`Fickle`, which may break off its answer: line 137 then ends the process, or goes on with a
header or a body that is not all there (`Miss137Short`), which is sent and cached. Such a
body is `Null`, a piece of a page, and `reply` does not count it as an answer.

Abstractions: a request line arrives in one piece; the byte behind a body is zero
(`data` has no room for a terminator, `proxy.c:151`); a uri is a host and a path; the method is always GET; the origin
sends its length as `tiny.c` does (`Content-length`); a body is named by the uri
it was served for, is a text (no zero byte), and has a length, which is compared
with two limits, scaled to `MaxBuf` 2 and `MaxObject` 3; header texts and
printing are left out, but `printDll`'s walk, which can run for ever, is not.

### How the allocators correspond to the code

The programs are sequential, so one call is one step: `mm_malloc(a, h, size)` is the
heap and the pointer that `mm_malloc` of the allocator `a` leaves. A heap is its words,
`brk`, and the variable `free_listp` of lab2. An
address is a distance from `mem_start_brk`; word 0 is padding no pointer refers
to, and serves as `NULL`. A word is an integer: headers and footers are the sum
of size and bit, links are addresses. Arithmetic on `size_t` is modulo `SizeMod`
(2^32 in the 32-bit build, scaled to 512), so rounding can wrap around, and the
argument of `mem_sbrk` is read as a signed number. Line 62 of
`memlib.c` compares addresses: `Base` is where the heap lies in the address space, and
`SbrkFails` adds to it modulo `SizeMod`. `IdsAssumption` leaves out the
requests whose rounding wraps around, which break the allocators (see the
findings), and those positive as an `int` that would carry `mem_brk` beyond the
address space, which `mem_sbrk` would grant (`NoWrap`). `extend_heap`, `coalesce`, `place` and `best_fit` are there in full;
`first_fit`, which nothing calls, is not. `AllocatorsAssumption` says that the first
chunk fits into the heap, so that `mm_init` never fails: 4 kB of 20 MB do.

`mm.c` and `lab3-segregated.c` differ in one shift, `Shift`; `lab2-explicit.c` differs from
them in that it has one list, whose head is a variable (`FreeListp`) and whose end is the
prologue (`Ends`). `FreeLists` writes the three once, with the allocator `a` as an
argument; `Implicit` is `lab1-implicit.c`, without lists; `MmCalls` calls the one or the other.
`Mdriver` is linked with one allocator of the set `Allocators`, chosen in `Init`.

`Mdriver` keeps a table of payloads as `mdriver.c` does, fills each with its
index, and may allocate, reallocate, free or start over at any moment: every
trace over its sizes is a behaviour. A payload is filled word by word with one
value for the index. After each call `Forget` sets the words that no block, link
or payload owns to `Junk`: two heaps do not differ by what was once there, and
an allocator that read such a word would find neither a size nor an address.

### How `RbTree` corresponds to the code

`tree` holds the fields of every node and of the sentinel `nil`, `live` the
allocated nodes. The code writes each case of rotation, insertion and removal
twice with `left` and `right` exchanged; here a side is a value, and `SideOf` is
the code's test `parent->left == x`. A call is one step, except that each
activation of `rbtree_insert_check` and `rbtree_delete_check` is a step of its
own, with `check` the node it is called with: so the properties also say what
holds in the middle of an operation. `tree.parent[Nil]` is written as the code
writes it, because `rbtree_delete_check` reads it. A removal takes any node of
the tree. The contents of a freed node are forgotten, as in `Forget`.

### How the lists and the binary search tree correspond to the code

They are sequential and need no recursion that changes anything, so one call is
one step. The doubly linked list writes its two ends separately, with `next` and
`prev` exchanged: the link is an argument of `Push` and `Pop`. The search tree has
a side as an argument, as `RbTree`. `search` and the printing functions only
read; `bst_find` is an operator, because `bst_delete` uses it. Positions count
from 0, as `idx` does.

`removeIdx` of the singly linked list is three actions. `RemoveIdx` is a removal
behind the first node. `RemoveFirst` is `removeIdx(i)` for an index that is 0 or
negative, which the guard of line 131 lets pass, on an empty list too if it is negative:
it sets `head` to null and so forgets every other node (`singlyLinkedList.c:145`). None of them changes
`size`, so that a later index may pass the guard of line 131 and the end of the
list, where the program dereferences null: `RemovePastEnd`. As `size` only grows
then, pushes keep it to `MaxSize`, one more than there are nodes.

### How `Checker` and `Fcyc` correspond to the code

`Checker` is `main`'s loops over the traces and, for each request of a trace, one
step of `eval_mm_valid`, `eval_mm_util`, `eval_mm_speed` or, for the option `-l`,
of the evaluations of libc. `AddRange` and `RemoveRange` are those of
`mdriver.c`, on a list with the latest range first; memory is bytes, a payload is
filled byte by byte and read back through a signed `char`. The allocator is not
one of those modelled elsewhere but any: `sound` in `Init` decides whether its
answers keep the contract (aligned, in the heap, apart from what it has given
out, contents moved by `realloc`) or are arbitrary. Where the heap ends is the
allocator's choice, too. A trace file whose header does not fit its requests
fails the assertions of `read_trace`. `mm_init` may fail when the allocator is
not sound.

`Fcyc` keeps the counter as the two words the processor gives, each modulo
`Word`, and reads and subtracts them as `clock.c` does, with the borrow. A timer
interrupt may come between any two readings of a measurement, takes `TickCost`
cycles, and adds one to the user time that `start_comp_counter` and
`get_comp_counter` read. `AddSample` keeps the K shortest values in order,
`HasConverged` is the test with `epsilon` as a fraction, and `Loop` returns the
shortest. `run`, `samples` and `runs` remember what happened, for the property;
the code does not have them.

### How `Rio`, `Sockets`, `Echo` and `Tiny` correspond to the code

A step of `Rio` is a `read` or `write` that returns any number of bytes it may,
or a byte taken from `rio_buf`. `rio_cnt` is the length of `unread`. Calls to read
a line, to read a count through the buffer, and to write may follow each other in
any order; whether the program uses the buffer is fixed for a connection, as is
which of the two versions of `Rio_writen` it has: those of the proxy and of tiny
return after a reset (`csapp.c:908`), that of the echo programs exits. Through
the refinement mapping the buffer and the data under way are part of what
`ByteStream` has pending.

`Sockets` is the loop over the list of `getaddrinfo`, each system call succeeding
or not. `close` releases the descriptor also when it fails, as Linux does.

`Echo` and `Tiny` name an action by the line that runs: `Read10` is
`echo.c:10`. The queue of the listening socket has no order. What the kernel does
at the end of a connection is modelled where the programs can tell: a peer that
has closed answers data with a reset; a socket that is closed with unread bytes
is reset. `Tiny` reads a request in two pieces, the request line and the headers;
`read` may return both. `sscanf` leaves `method` and `uri` as they were when the
line is missing (`Readline72`). The page `Page` changes under the server, so that
`stat`, `open` and `read` see different files. The child of `serve_dynamic` is a
second process, and may die in `adder.c` or fail to be executed; then `exit`
flushes what the parent had printed into the connection.

## 3. The runs

| run | module | checks |
| --- | --- | --- |
| `proxy_sequential` | `MCProxy` | One client at a time, three pages, a cache of two: the list stays a coherent ring (`ListCoherent`), is an LRU cache (`CacheIsLru`), no freed block is touched (`NoUndefinedBehaviour`), the page is the one asked for (`RightPage`) and it comes (`Answered`). |
| `proxy_misses` | `MCProxy` | Two of three clients at once, each with a page of its own, and room for all: however the unlocked statements interleave, `next` leads back to the dummy node through initialised nodes, and nothing freed is touched. |
| `proxy_rude` | `MCProxy` | The concurrency test of `driver.sh`, and worse. One client sends its request in pieces or not at all and may leave at any point; its origin never answers, or breaks off, or resets the connection. The other client asks another origin for a page the cache does not admit. Each connection belongs to one thread until it is closed (`ConnectionOwned`), and the other client is answered while the process lives (`Answered`), through every exit and crash. |
| `allocators` | `MCAllocators` | All four allocators, word by word: alignment, extent and overlap of payloads (`PayloadsValid`), their contents (`DataIntact`), `NoLeak`, `FootersMatch`, `FreeListsExact`, `DeniedOnlyWhenFull`, and that each implements `BlockHeap`. |
| `week5` | `MCWeek5` | The block heap: `Tiled` and `Coalesced`, which are also proved. The driver: an allocator that keeps its contract is never reported (`NoFalseAlarm`), its books are those of the blocks (`BooksKept`): the list of ranges (`RangesKept`) and the totals the utilisation is computed from (`UtilCounts`). The timer: the shortest of exact measurements (`MeasuresBest`). |
| `week6` | `MCWeek6` | Rio keeps the promise of a byte stream (`IsByteStream`). No byte is lost between the echo programs (`EchoExact`) and every client ends (`EchoServes`). Tiny's answer is about the request, in one piece (`TinyAnswers`), it serves on (`TinyServes`), and neither it nor the socket functions leave a descriptor open (`NoDescriptorLeft`). |
| `week4` | `MCWeek4` | Every red-black tree of up to ten nodes: links, order, colours, black heights, the multiset, the queries, and that the descents of the calls end where a node can be linked or unlinked (`DescentsEnd` in `Queries`), what becomes of the pointers a program holds (`PointersKept` in `IsMultiset`), and what `rbtree_to_array` does to an array that is too short (`ShortArray`). Every list of up to three nodes: the chain is sound and each call is that of a deque. Every binary search tree of up to six: links, no node lost, the multiset. |
| `proxy_same_path`, `proxy_hit_race`, `proxy_bound`, `proxy_hang`, `proxy_sigpipe` | `MCProxy` | findings, below |

What is checked of the red-black tree holds in the middle of an operation too, where
`ColorConstraint` says exactly what may be wrong: one red node under a red one
at `check`, or `check` counting for two blacks.

### Bounds

- *Proxy.* Two threads at once are enough for every race between two threads,
  and the only actors beside them, `main` and the clients, are in every run.
  Three pages over a cache of two reach hits at every position, evictions and
  reuse of a freed block; two threads, a client that leaves at any point and an
  origin that breaks off reach every end of a file, every reset and every way to exit
  or die but the table of descriptors (`proxy_rude`, which has five, enough for two
  requests, so that nothing but the process's end excuses `Answered`). Its pages are
  all too large for the cache, because two concurrent pushes hang (`proxy_hang`). The leak of `proxy.c:108` fills the
  table in `proxy_sequential`. `Cells` has as many blocks as there
  can be connections at a time, or one more. Threads, nodes and cells are
  interchangeable: `SYMMETRY` is used only in the run without temporal properties.
- *Allocators.* `CHUNKSIZE` is scaled to 48 bytes and the heap to 128, so that a
  first heap, one extension by a chunk or by a request larger than a chunk, and
  a refusal all happen, and an extension ends exactly at the limit. Three
  payloads give a free block every combination of used and free neighbours. The
  requests are 0; 8, the smallest block; 32 and 48, whose blocks leave a
  remainder too small to split, or are larger than a chunk; and 496, whose
  block is negative as an `int`. The heap lies in the middle of the address space
  (`Base` 256 of `SizeMod` 512). Two classes put sizes on both sides of the
  border, for `mm.c` at 32 and for `lab3-segregated.c` at 64.
- *Red-black tree.* Ten nodes give black height 3, so that both recursions climb
  more than once; three keys give duplicates. `Shape`, the state without the names of
  the nodes, is a sound view: `calloc` may return any node that is not
  live, and neither the actions nor the properties tell nodes apart. It holds,
  beside keys and colours, whether each parent link leads back, whether each node
  reached is allocated, and how many are, so that a broken link or a lost node is
  a different state.
- *Driver and timer.* Two traces in a row leave something behind for the second,
  also when the first ends in an error. There are four trace files: a balanced one with a
  `realloc`, one that is not balanced and whose last payload can enclose an older
  one, one that reallocates an index whose byte is negative (with `Half` 2, the
  index 2), and one whose header lies. `Alignment` is 2 and the heap ends at 0, 4
  or 6, so that payloads overlap in part, enclose each other, are misaligned and
  lie outside. The counter has words of 3 values, a run of 1 or 4 cycles and an
  interrupt of 2: the low word wraps around once, twice or not, the high one too. Up
  to three samples for a K of 1 or 2 let a sample be dropped and let the limit end the
  loop.
- *Network programs.* Rio holds up to four bytes, of two kinds, in a buffer of
  two; lines are cut at one byte or at three, counts are 1 and 3: a line and a count
  span refills, end inside one, and end with the file. Two echo clients, of which
  one may be killed, have inputs with an empty line, a line cut by `MAXLINE`, and a
  last line without a newline. Two clients of tiny, of which one may stall, leave or
  reset its connection, ask for eight things: the page that changes, a directory, a
  program with and without an ampersand, one that cannot be executed, a missing
  file, no uri at all, and a `POST`. Up to three addresses in `Sockets`.
- *Lists and search tree.* Three nodes give a first, a middle and a last one. Six
  let the successor lie below the right child and have a right child of its own,
  with its parent at the root or below it. `BstShape` is built as `Shape`.

### Fairness and deadlock

`FairSpec` has weak fairness for `Main` and for each `Thread(t)`: they are
threads of the operating system's scheduler, and a thread that can run does. A
client need not connect (`accept` may wait for ever), an origin in `Silent` need
not answer, no client need give up, and `free` memory may be any. A client in `Slow` need
not send the rest of its request, and a thread that reads an error (`ReadError`) or dies
(`Crash`) is not fair either: these end the process and help nobody. `Answered` is about
clients that have sent their request, and
conditional on the process running, which `unix_error` may end: it says nothing of a proxy
that runs out of descriptors (`proxy.c:108`) or exits for a peer's sake.

In `MCWeek6` the echo server, each echo client, tiny and its child are processes,
with weak fairness each. A client of tiny sends the rest of its request unless it
stalls, which `Stall` allows `Slow` clients at any time. Nobody need connect to
tiny, hang up, change a file or be killed. `EchoServes` leaves out behaviours in
which a client waits for the echo of an unterminated last line, and `TinyServes`
those in which the server reads from a client that has stalled, or has exited.

The other programs are sequential, and their specifications claim no progress. Deadlock is not
checked: the proxy really stops when it exits, crashes, or waits in `accept`
with no client left, and the bounded inputs of the sequential programs run out.

### Findings

| run | property | what happens |
| --- | --- | --- |
| `proxy_same_path` | `RightOrigin` | The key of a cache entry is method and path (`proxy.c:80`): a page of one host is answered to a request to another host. |
| `proxy_hit_race` | `HitKept` | One thread has found its page in the cache; before it copies it (`proxy.c:102`), the miss of another thread evicts and frees the node. |
| `proxy_bound` | `CacheBounded` | Two concurrent `size++` (`cache.c:21`) count one: the list of a cache of one page keeps two, and `popBack` is not called. |
| `proxy_hang` | `Answered` | Two concurrent `pushFront`: one node is lost from the `next` chain but stays `head->prev`, and `printDll` (`cache.c:102`) waits for it for ever. |
| `proxy_sigpipe` | `SurvivesResets` | A client gives up before its answer: the write to its connection (`csapp.c:912`) raises `SIGPIPE`, and the process is dead before it can print the warning of line 915. |

Other defects that the models show, for which there is no run; each is listed as a
hazard with its line. An object larger than `MAX_OBJECT_SIZE` is freed at `proxy.c:171` and
sent at `proxy.c:174` (give `proxy_sequential` the lengths `LargeBody`: one request violates
`NoUndefinedBehaviour`). `popBack` frees the node of another thread's miss as it does that
of a hit (`NoUndefinedBehaviour` in `proxy_hit_race`). A cached body longer than `MAXBUF` overruns `buf` on a hit
(`proxy.c:102`; give a page length 3 in `proxy_sequential`). An origin that breaks
off gets a piece of its page, or memory nobody has written, sent and cached, and a client
that sends nothing and leaves is answered for the request that the stack holds
(`Miss137Short` and `T65Gone`, in `proxy_rude`; `ub` records both). A request near `SIZE_MAX`
wraps around in
`mm_malloc` (`mm.c:240`; with 505 in `Requests` of `allocators.cfg`, `PayloadsValid`
is violated by the first call, once `IdsAssumption` admits it), and in the labs alike. These
are outside the models: `strlen` cuts a cached binary file (`proxy.c:104`), and reads
behind a body that is followed by no zero byte (`proxy.c:155`, `:162`); `removeIdx` of the doubly
linked list frees the dummy node for a negative index on an empty list
(`doublyLinkedList.c:113`). `removeIdx`
of the singly linked list forgets the list for an index of 0 or less and never corrects `size`
(`singlyLinkedList.c:131`, `:145`): both are actions of the model, and nothing in
the repository says otherwise of them.

In the red-black tree: `inorder_arr` compares its index with `n` only on entry
(`rbtree.c:388`), so that it writes past an array of `n` keys after a left subtree, against
`week04-rbtree/README.md:25`; `ShortArray` says by how much. The removal of a node with two
children copies its successor's key into it and frees the successor's node
(`rbtree.c:274`), against `week04-rbtree/README.md:19`, which says that the node given is
freed; `Erase` models this, and `PointersKept` says what it means for the pointers a
program holds.

In the driver and the timer: the checker compares a signed `char` with `index &
0xFF` (`mdriver.c:656`), so that a correct allocator is reported for a `realloc` of
the index 128 or more (`NoFalseAlarm` without `ReallocsHigh` fails); `add_range`
looks for an end of the new payload in an old one, so that a payload that encloses
another passes (`mdriver.c:409`; the last disjunct of `RangesKept`); an interrupt
between the two readings at the start or the end of a measurement makes a
compensated one too short (`clock.c:252-278`).

In the network programs: when the last line of a client's input has no newline,
client and server wait for each other, and everybody else for them
(`echo.c:10`; `Stuck`). When the server is gone, the client prints the line it has
just sent as if it were the echo (`echoclient.c:28`; `Read28Lost`). A client that is
killed while the server writes takes the server down (`Die`). In tiny, a client
that hangs up before its request line gets the server to answer the request of the
client before (`Readline72`); a file removed between `stat` and `open` ends
the server (`tiny.c:206`, `Open206Error`), and one that was cut is padded with
memory that was never written (`Write211`); an error answer to a `POST` may be lost
by a reset, because the headers were not read (`tiny.c:80`); when `execve` fails the
child's `exit` sends the parent's unflushed messages to the client
(`Execve255Error`), if stdout is not a terminal; a query without an ampersand
crashes `adder.c` and the client gets half a header.

Outside the models: `sprintf` writes the buffer it reads in `clienterror` and
`serve_static` (`tiny.c:120`, `:198`), which appends in most builds and loses the
beginning in a fortified one, although the comment at `tiny.c:7` calls it fixed; a trace
with more requests than its header says overruns `ops` before the assertion that
compares the two (`mdriver.c:525`, `:552`).

## 4. The proofs

`ProxyProofs` proves, for any sets of threads, clients, descriptors, cells and uris,
any heap and any limits, from `FdsAssumption`, `ClientsAssumption`, `SizesAssumption`
and the assumptions of `CacheSteps` (a finite heap, a null that is neither a block nor
a uri nor a path, room for at least one page):

- `ProxyTypeCorrect`: `Spec => []TypeOK`;
- `ProxyOwnsConnections`: `Spec => []ConnectionOwned`;
- if the clients come one at a time (`MaxActive = 1`), for pages of any size:
  `ProxyListCoherent`, `ProxyForwardChain` and `ProxyRightPage`, `Spec => []P` for
  `ListCoherent`, `ForwardChain` and `RightPage`, and `ProxyCacheIsLru`,
  `Spec => CacheIsLru`, the refinement of `LruCache`, whatever clients and origins leave
  out; and if moreover the world is orderly (`Orderly`: the cache admits
  every page and `buf` holds it, clients send their request when they connect, and an
  origin that answers sends the whole page), `ProxyNoUndefinedBehaviour`:
  `Spec => []NoUndefinedBehaviour`;
- if every request is for a page of its own, the cache has room for all of them, and
  the world is orderly (`OwnPages`, `Roomy`, `Orderly`), for any number of threads at the same
  time: `ProxyMissesKeepTheChain`, `ProxyMissesLegal` and `ProxyMissesRightPage`,
  `Spec => []P` for `ForwardChain`, `NoUndefinedBehaviour` and `RightPage`.

The code needs these hypotheses: two threads that miss at the same time already break
`ListCoherent`, by losing a node or an update of `size`; once there is no room for all
pages, one thread's `popBack` frees the node another is using (`proxy_hit_race`); and
with a page the cache does not admit, line 174 reads a freed block. A
request or a page that is not all there leaves `trans` with memory nobody has
written; for pages of its own, a thread that parses another's request (`T65Gone`)
would moreover hit.

Of the first two, the races on the list do not appear in the argument: no statement of
`cache.c` touches a descriptor (`CacheStepIInv`). The inductive invariant `IInv` adds to
these two: `CellsOwned`, a cell belongs to `main` or to one thread until that
thread frees it, without which two threads could read one descriptor;
`PrintReturns`, `printDll` returns into `trans`, without which a thread could
end with its connection open; and `RequestKnown`, a connected client has asked
for a uri and a thread past line 65 knows it, without which what `t65` and
`miss159` store would have no type. There is a lemma for each action of `main`
and for each statement of `thread` and `trans` that touches a descriptor, and
one for all the others.

For one client at a time the invariant is `OneByOne`. `ListCoherent` says something only
between updates, by a walk over the memory; `OneByOne` says at every statement that there
is a sequence `s` of nodes which `next` follows from the dummy node and back (`Forward`),
in the middle of an update too, and for the statement the thread executes next where
`prev` is one write behind (`Backwards`), how far `size` is from the length (`Counted`),
which block is out of the list (`Allocated`), and what the thread's locals have to do
with `s` (`Known`, `Printed`, `Chosen`, `Holds`). A statement then either leaves
`s` alone, takes a node out of it (`LinkOut`, `CutLast`) or puts one at its front (`LinkIn`). That
no path is twice in it (`Keyed`) needs that `search` has passed all the nodes that do not
have the path (`Reached`) when it gives up. The list is finite because no node is twice in it (`Fits`), which
is why the bounded walk `Walk` of the properties comes back (`WalkCells`). For the refinement, the entries
of `LruCache` are those of `s`, with the node that `moveFront` has unlinked put at the front:
line 83 is the moment of a hit and line 18 that of an insertion, which takes the place of
the least recently used entry, so that `popBack` changes nothing of the abstract cache.

For threads that all miss, `s` does not exist: two threads that execute
`cache.c:16-18` at the same time lose a node from the list, and `size++` an update.
`OnlyMisses` says what is left. `next` leads from newer nodes to older ones (`Chain`: `rank`
goes down along it), and the dummy node only ever points at nodes that are filled in
(`Onward`), because `pushFront` writes `next` of the new node first. So the walk meets no
node twice and, the heap being finite, comes back (`Wanders`, `ComesBack`). A search finds
nothing (`NeverFound`) because a node keeps a page that somebody else asked for
(`Pages`, `NotYet`), and nothing is evicted because `size` counts at most the threads that have stored a
page (`Tally`); these two keep `free` out of the picture. All of it needs that a thread looks up
what its own client asked for (`Served`), which is where `Orderly` comes in.

`AllocatorProofs` proves of `mm.c` and of the allocators of labs 1 to 3 all that the run
`allocators` checks, for any heap, chunk, number of classes, indices and requests, from
`HeapWordsAssumption` (a chunk holds a block, and sizes are aligned),
`ClassSizeAssumption` (an even number of classes, or the prologue would not be aligned),
`AllocatorsAssumption` and `IdsAssumption`:

- `Types`, `Payloads`, `Data`, `Leaks`, `Footers`, `Denied` and `FreeListsAreExact`:
  `Spec => []P` for `TypeOK`, `PayloadsValid`, `DataIntact`, `NoLeak`, `FootersMatch`,
  `DeniedOnlyWhenFull` and `FreeListsExact`;
- `IsBlockHeap`: `Spec => ImplementsBlockHeap`, the refinement of `BlockHeap`.

None of these is inductive, because what they say of the heap they say by walks, from header
to header or along a list. The invariant `IInv` names the witness of the walks, a set
`bs` of blocks, and `Good` says four things of it. `Sound`: the words of the heap are
those of a row of these blocks (`Row`: they tile it, each has its header and its
footer, and the prologue and the epilogue stand around them), and the lists hold the
free blocks of their class (`Lists`). `Parted`: no two free blocks are neighbours.
`Named`: the used blocks are those the program holds. `Intact`: they hold what was
filled in. A list is a set of places on which each block's two links
are each other's inverse and lead nearer to the end (`ListOf`); so a
block is taken from the middle of a list, and another put at its head, by looking at its
neighbours only (`ListLoses`, `ListGains`), and the links never touch a tag or a payload
(`LinksOnly`). That both walks end, and meet every block, is `WalkIs` and `ListIs`: there is
no room for more blocks than the walks of the model have steps.

The argument follows the code. The two tags beside a block and its own say which neighbours
are free (`Neighbours`), so that each of the four cases of `coalesce` leaves the row with
the merged block in it (`RowMelts`, `ListsCoalesceIs`, `ImplicitCoalesceIs`), which is `Merge`
of `BlockHeap` (`MeltedIsMerge`). `place` writes the tags of two blocks, and its `coalesce` of
the rest finds no free neighbour (`MeltedAlone`), which is where `Parted` is needed.
`best_fit` may stop at the first class with a fit because classes rise with sizes
(`ClassIs`). `extend_heap` writes the header of the new block over the old epilogue
(`RowGrows`). `mm_init` reads none of the words the last trace left (`StartIs`).
Every one of them spares the payloads in use (`Spared`), and `Forget` only words that
nobody owns (`IsCore`). `NextKeeps` puts this together: a step keeps `IInv`
and is a step of `BlockHeap` on `bs`, or leaves `bs` as it is.

`Week5Proofs` proves, for any start, limit, chunk and sizes that meet
`BlockHeapAssumption` (alignment, and blocks of at least 16 bytes):

- `BlocksTile`: `Spec => []Tiled`;
- `FreeBlocksApart`: `Spec => []Coalesced`.

The invariant is `Sound(blocks, top) /\ top <= Limit`, where `Sound` is tiling
and separation together: merging keeps the tiling because a block has at most
one free neighbour on each side (`OneNeighbour`, from disjointness), and keeps
free blocks apart because the neighbours of the merged block are used, which
needs separation before. `MergeSound`, `PlaceSound` and `GrownSound` carry it
through each piece of an operation, so that each action is a few lines.

`CheckerProofs` proves of the driver of the malloc lab, for any trace files, any
number of traces, any heap and any answers of the allocator, from `CheckerAssumption`:

- `CheckerRangesKept`: `Spec => []RangesKept`;
- `CheckerUtilCounts`: `Spec => []UtilCounts`;
- `CheckerNoFalseAlarm`: `Spec => NoFalseAlarm`.

`Week5Proofs` carries them to the specification the run checks (`Week5RangesKept`,
`Week5UtilCounts`, together `Week5BooksKept`; `Week5NoFalseAlarm`): the driver of
`MCWeek5` is that of `CheckerProofs` (`SameChecker`), and a step of another part leaves it
alone.
`CheckerAssumption` says of a trace what the generators see to: an index is allocated
exactly when the trace does not hold it, and sizes are positive. It says nothing of
the header of a trace, of its balance, or of the allocator.

The invariant `CheckInv` relates three accounts of the same blocks. `Holds` is the
allocator's against the trace's: the live indices are those the requests so far leave
allocated (`Owned`), with the sizes the driver remembers, and a sound
allocator has them apart and inside the heap. `Checked` is the driver's against the
allocator's, while the trace is checked: the list of ranges has one entry for each
live index, in any order and no two at one address (`Lists`); any two entries are apart, or
the later one encloses the older one, which `add_range` does not notice
(`Spaced`); and a sound allocator has kept the bytes. `Measured` is the same for the
utilisation, whose total is the number of bytes held and never more than the
mark. `Counted` adds up the verdicts. Without `Lists`, `remove_range` could take the
range of another block out of the list; without `Holds`, a request of the trace
could address an index the driver has no block for. That the list has exactly one entry
for each index is what keeps it so after a range is removed from the middle
(`RemoveTakes`, `RemoveKeeps`), and that a total is a number of bytes is what makes it change by the size of
a block that is apart from the others. `NoFalseAlarm` is about
steps, and follows from the invariant: each test of `eval_mm_valid` passes for a sound
allocator, but the one for a `realloc` of an index with a negative byte.

Of the timer it proves, for any samples, durations and cost of a tick's handler, from
`FcycAssumption`:

- `Week5MeasuresBest`: `Week5Spec => []MeasuresBest`.

`TimerInv` says how far the counter has advanced since `start_counter` read it: by
the cycles the function has run and by the delay that ticks have added (`Advanced`,
`Delay`). That `get_counter`, which subtracts the two words separately and borrows,
gives this number is `DoubleWord`; it needs that no measurement takes a full round of
the 64 bit counter, which at 1 GHz takes 584 years. The list of the `K` best
is the shortest of the samples so far by an injection that picks a sample for
each entry (`KBest`): a new sample takes the last place of a sorted list and is
sunk to its own (`Sinks`), and the picked samples are again no longer than the others
(`Joins`, `Adds`).

`Week6Proofs` proves of each program of week 6 alone, and then of the specification
`Week6Spec` of the run, which is any one of them. Of the echo programs, for any clients,
inputs, `MAXLINE` and mortal clients, from `EchoAssumption`:

- `EchoLosesNothing` and `Week6EchoExact`: `[]EchoExact`.

`EchoExact` is not inductive: it does not say that at most one line of a client is
under way, and with two the server could answer in pieces. `InLockstep` does: a
client either rests, with nothing in either direction, or waits, with exactly one
whole copy of `line`, on the way there, in the server or on the way back.
That what the server reads is one line needs that a line's end is the least of
its possible ends (`FirstIsLeast`, by well-foundedness).

Of tiny, for any clients, requests and files:

- `TinyClosesAll`: `[]NoDescriptorLeft`, and `Week6NoDescriptorLeft`, which adds the
  socket functions, for any number of addresses;
- `TinyAnswersRight` and `Week6TinyAnswers`: `[]TinyAnswers`, from `TinyAssumption`.

Each line of `tiny.c` has the descriptors it runs with (`FdsAt`), and a child exists
only while the server waits in line 257. For the answers, `Follows(c)` says for each
client how far its request and its answer are: while it is in the queue, nothing is
read and nothing written; while it is served, each line says how many pieces of the
request have been read, that `method` and `uri` are those of the request and not of
the one before, and which part of the answer is out (`AtLine`); once it is closed
the whole answer is. A well formed request is what makes `sscanf` replace both
variables; a client that has gone, or asked for nothing, is exempt (`Waits`).

Of the Rio package, for any bytes, sizes of lines and counts, and size of the
buffer, from `RioAssumption`:

- `RioKeepsTheStream` and `Week6IsByteStream`: `IsByteStream`, the refinement of
  `ByteStream`.

Each step of `Rio` is a step of `ByteStream`, when it is the one a call returns with,
or leaves what `ByteStream` sees alone, when bytes move from the kernel to the
buffer or from the buffer to the caller. The invariant says that a call under way
has not yet what it wants: a line in the making has no newline and is shorter than
`maxlen`, a count is not full. Without it a return could not be shown to be the whole
first line. `Continues` is the step that only moves bytes, `ReturnIsLine` and
`ReturnIsCount` the ones that end a call. For the socket functions, each next system
call says what the descriptor is (`FdBefore`).

`RbTreeProofs` proves, for a tree of any size, any keys and any sequence of calls, from
`NodesAssumption` (`calloc` returns blocks of a finite set, none of them null or `nil`)
and `KeysAssumption` (keys are integers), all that the run `week4` checks of the tree
but `ShortArray`:

- `TypesHold`, `LinksHold`, `NothingLeaks`, `OrderHolds`, `ColorsHold`, `QueriesHold`:
  `Spec => []P` for `TypeOK`, `Linked`, `NoLeak`, `SearchOrder`, `ColorConstraint` and
  `Queries`;
- `TreeIsMultiset`: `Spec => IsMultiset`, the refinement of `KeyBag`;
- `ChecksKeepLinks`: `CheckInv /\ [][Activation]_vars => []Linked`: the checks keep
  the links whatever the colours and wherever they are started.

None of these properties is inductive. `TreeInv` adds to each of its parts a witness that
an activation can be shown to carry along.

- Links: a node could be linked correctly to nodes that lead back to it. `IsTree`
  adds that nodes have depths (`Acyclic`). A rotation gives its two nodes new depths
  between those above and below (`RotateKeepsTree`; every depth is doubled to make
  room). Depths make the four nodes of a rotation different (`Neighbours`), which is
  what the code relies on when it sets six links one after the other.
- Order: that each node is between its children says nothing of its grandchildren.
  `InOrder` gives each node the set of the nodes at and below it, which the node and its
  two sides divide (`Spans`), and compares the node with all of a side (`Ordered`). A
  rotation changes the sets of its two nodes only (`RotateSpans`), an insertion adds
  the node to the sets on its way down, and an erasure removes the node that is freed.
- Colours: an activation sees a few nodes, and black heights are about all paths.
  `Coloured` gives each node a weight, the number of black nodes on every path down
  from it, and says at which one link the two sides differ by one while an erasure is
  under way. A rotation with its two recolourings passes weights on
  (`RotateColors`, `SwapRotates`, `LastRotation`). The weights are why the brother of
  a double black node, and the grandparent in `rbtree_insert_check`, is a node and not `nil`.

What the code does by recursion or in a loop is a recursive function in the model, and
before anything is proved of its value it has to be proved to have one:
each link leads to a smaller subtree, so the descents (`Descends`), the walks
over a subtree (`UnderIsSpan`), the height (`HeightIsWeight`) and the array
(`SubtreeWritten`) are defined (`Iterates` of `SequenceFacts`, `BottomUp`, by well-foundedness of the numbers).
Then `LastFits` says that the descent of `rbtree_insert` ends beside a free place in the
order, `OutermostIsExtreme` that the descent of `rbtree_erase`, `rbtree_min` and
`rbtree_max` ends at the end of a subtree, `FindFinds` that a search cannot pass a key
by, and `ArrayFilled` that the walk of `rbtree_to_array` writes the subtrees next to each
other, so that the whole is sorted and holds each key as often as the tree does.
`Week4IsRbTree` (in `Week4Proofs`) says that the specification of the run is the tree's
together with the lists, so that all of this holds of it.

`Week4Proofs` proves of the linked lists, for any keys and any finite number of nodes, from
`ListAssumption` (`calloc` returns blocks of a finite set, none of them null) and
`RingAssumption` (the dummy node is none of them):

- `SllKeepsItsPromise`: `Week4Spec => SllIsDeque`;
- `DllKeepsItsPromise`: `Week4Spec => DllIsDeque`.

The invariants name the sequence `s` of the nodes of a list. `SllAt(s)` says that `head`
and `next` lead along `s`, `DllAt(s)` that `next` and `prev` are a ring through `s` and the
dummy node; nodes do not repeat in it, since a write to one must leave the others alone.
Two things are there because the code relies on them without a test: a free node has no successor
(`pushBack` does not set `next` of a new node, `calloc` has), and `size` is at least the number of
nodes of a singly linked list, exactly that of a ring (`removeIdx` goes by it and
follows links that far). A call cuts one node out of `s` or puts one in (`SllCuts`, `DllCuts`,
`DllJoins`), `ChainIs` says that the walk of the model returns `s`, and `SllDoes` and
`DllDoes` that the keys change as those of `Deque`.

Only model-checked: liveness (`Answered`, `EchoServes`, `TinyServes`), the refinement
by the search tree of week 4 (`BstIsMultiset`), and `ShortArray`. Liveness and `ENABLED` are out of the prover's reach.
`BstIsMultiset` rests on walks down a tree, which need what the red-black tree needed: a
witness that stands for the walk, and a proof that it has an end.

## 5. What is not modelled

`PROJECT.json` lists every part. Left out for good:

- in `mdriver.c` the command line, the printed tables and the performance index; in
  `clock.c` `mhz` and `callibrate`, which sleep or wait for interrupts and
  divide floating point numbers; `ftimer.c` and `fsecs.c`, which call
  `gettimeofday` or `fcyc`;
- the traces: every trace over the sizes is a behaviour of `Mdriver`;
- `lab0-original.c`, which keeps nothing but `brk`;
- `sharing.c`, `test/`, the scripts, and the copies under `.proxy/`, which nothing
  builds; `deleteList`, which is never called;
- the wrappers of `csapp.c` that no program calls;
- header texts, content types and everything printed, except where printing may
  not return (`printDll`) or reaches a client (`Execve255Error`).

Outside the models, though a program meets them: bodies with a zero byte, or followed by
none; an origin that sends its whole answer without a `Content-length`; a request line that is cut off
in the middle; the bytes the cache holds, which its limit does
not count (`cache.c:24`); and `removeIdx` of the doubly linked list with a negative index.

## 6. Plan

The order was: the proxy and its races, then the allocators, then the red-black
tree, the lists and the search tree, then the driver and the timer, then the network
programs, then their proofs, those of the red-black tree, of the proxy's cache and of the
allocators. What is left:

1. proofs for the search tree of week 4, with the witness that `RbTreeProofs` uses:
   the subtree as a set;
2. the bytes of a cached body in `Proxy`, for the hazards at `proxy.c:104`,
   `proxy.c:141` and `proxy.c:155`.
