# Verification of StdFuncs

StdFuncs ("The Framework") is a C++ library that gives desktop programs one API
over Amiga OS, Qt and Windows: windows and gadgets, files and directories,
inter-process rendezvous, child processes, file watching, and transparent access
to the files of another machine through a RADRunner server. Much of it is thin
calls of the operating system. What is modelled here is the part with state of
its own, and above all the part that shares state with something that runs at
the same time: another process, a server at the end of a connection, the file
system, the user; and the algorithms that take texts, dates and paths apart.

Every definition is translated from the code; the comments in the modules say
which member functions they stand for, and `PROJECT.json` gives the lines.

## The system and its parts

| Part | State | Operations | Meets | Hard because of |
|---|---|---|---|---|
| Remote session: `RRemoteFactory`, `RSocket`, `CHandler` | one socket, shared by all remote objects | `openRemote`, `close`, `checkConnection`, every `sendRequest`/`readResponse` | a RADRunner server, by a byte stream | lost and reset connections, version check, replies without identification |
| Remote file: `RRemoteFile` | buffer, offset, name, dirty flag, reused for every file | `create`, `replace`, `open`, `read`, `seek`, `write`, `close` | the session | failure between two steps, state left over from an earlier use |
| File transfer: `CHandler::sendFile`, `readFile`, `readFromRemote` | sizes and counters | the two loops | each other, through the socket | partial receives, files that change, failing writes, empty files |
| Rendezvous, Amiga: `RRendezvous` + `RApplication::Main` | a public message port | `open`, `close`, `Rendezvous`, the service in the main loop | other processes | races on a name, one signal for many messages |
| Rendezvous, Qt: `RRendezvous` + `RLocalSocket` | a listening socket and its file name | `open`, `close`, `Rendezvous`, `Connected` | other processes | races on a name, crashes, a timed wait |
| File watcher: `RFileWatcher` on Qt, Windows and Amiga OS | state, snapshot or request, what is watched | `start`, `stop`, `pause`, `resume`, `changed` | other programs, through the file system | changes between any two steps, requests that complete while they are cancelled |
| Main loop: `RApplication` | lists of windows, executers, watchers; modifier keys and last click | `Main`, `Add…`, `Remove…` | all sources of events on Amiga OS | lists changed from callbacks, merged signals, events split over windows |
| Command execution: `RStdExecuter`, `RQtExecuter` | pipes, callback, child | `launchCommand`, `readComplete`, exit | a child process and the main loop | output and exit in either order, a request while busy |
| Menus: `CWindow`, `CAmiMenus` | native menus, menu numbers, accelerator tables | add, remove, update, check and enable an item, shortcuts | three window systems | two records of the same menu that must agree |
| `StdList`, `RStdPool` | links, counts, free nodes | list and pool operations | their clients | nodes on the wrong list, double release |
| Memory debugging: `MungWall` | list of blocks between guard words | `new`, `delete`, `malloc`, `free`, the checks | any code | a client that writes where it should not |
| Files: `RFile`, `RFileUtils` | handles and locks | `create`, `replace`, `open`, `close`, delete, rename, directories | other programs | several requests to the system in one call |
| Directories: `RDir`, `RRemoteDir` | entries, handle, pattern | `open`, `read`, sorting, `close` | other programs | a directory that changes while it is read |
| Clipboard: `RClipboard` | the text written and the text read | `SetData…`, `GetData…` | other programs | a text that is replaced while it is read |
| `RConfigFile`, `RTextFile`, `CStdStringList`, `RArgs`, `TLex`, `RWildcard` | buffers and trees | parsing | — | boundaries, two readers of one text, modes that combine |
| `Utils`, `TDateTime`, `RCRC` | none | paths, dates, checksums | — | boundaries of pure algorithms |
| Gadgets, dialogs, fonts, images | handles of the window system | calls of it | the user | mostly outside the code |

What makes those that are modelled correct, in a sentence each:

* the session: every reply is read by the request it belongs to, no command
  reaches a server of another version, no connection is leaked, calls return and
  a dead connection is replaced;
* the remote file: it behaves as an open file of the server does, whatever fails
  below it, and a call that could not do so says it;
* the transfer: success means the whole file, the buffer is never overrun, and
  the stream is left where the next command starts;
* the rendezvous: one process of a name is the server, its messages stay valid
  until they are answered, and every sender is answered or its message delivered;
* the watchers: each addition and deletion in a watched directory is reported
  once, none is missed, and stopping ends and leaves nothing behind (the code keeps
  this with exceptions: "Where the code departs from its comments");
* the main loop: it never waits over an event it was told of;
* the executer: a client gets the output of its own command, whole and in order,
  and one end;
* the menus: both records of them agree with what the client has asked for;
* the list: links and count amount to the nodes its callers put there, at every
  step of a sort too, which is stable and ends;
* the pool and MungWall: a piece of memory is free or handed out, once, and the
  lists of it are whole;
* files: what `create()` has made is new, what is locked is alone, an error is true;
* directories: a listing has what was there all the time, once;
* the parsers: what they give is what the text says.

## The modules

| Module | Models | State and actions |
|---|---|---|
| `RemoteSession` | `RRemoteFactory`, `RSocket`, the client half of the protocol, and of the server what this repository holds of it | `cur` is `RSocket::m_socket`; `pc` is the `recv()` the single-threaded client is blocked in; `c2s`, `s2c` are the two byte streams of each connection as sequences of units, one per `write()` that the other side acts upon; `link` is what the client's kernel knows of a connection. One action per `read()`, one per way `write()` and `checkConnection()` can go |
| `FileHandle` | the promise of `RFileObject`, as an abstract specification | a handle's name, contents, position; `store`, what stands under each name, and `due`, what is on its way there. `Close` sends the contents or fails, and then some of it may be on its way all the same; `Deliver` is all that changes a file |
| `RemoteFile` | `RRemoteFile` on top of `RemoteSession` (EXTENDS) | the members of the class under their names, `user` for what the caller believes, `lastClose` for what `close()` told. Implements `FileHandle` with the server's disk as `store` and the sends in the streams as `due` |
| `FileTransfer` | `sendFile()` against `readFile()` or `readFromRemote()` | bytes counted, the loop variables under their names; one action for the head and one for the foot of the loop, and one for each `recv()` |
| `PortRendezvous` | `RRendezvous` on Amiga OS and the service of its port in `RApplication::Main` | one `pc` per process, the public ports, the queue and the signal of each port |
| `LocalSocket` | `RRendezvous` on Qt, `RLocalSocket` | the name in the file system, pending connections, the connection in `Connected()` |
| `FileWatcher` | `RFileWatcher` and `RQtFileWatcher` | `m_state`, `m_files`, the watched paths, the signals due; other programs as `FileChanges` |
| `WindowsWatcher` | `RFileWatcher` on Windows | the handle, the event, each `ReadDirectoryChangesW()` with its status; the completion routine as an action of every alertable wait, with what the callback does then |
| `AmigaWatcher` | `RFileWatcher` and `RAmiFileWatcher` | the notify requests, the messages at the port, the snapshot |
| `Executer` | `RStdExecuter` on three systems, `RQtExecuter` | `field` is the members of the object, `opened` what the system has given; pipe, child, signals; a request while another runs, and from the callback of an end |
| `MainLoop` | the loops of `RApplication::Main` on Amiga OS | the collections in their order, with the slots behind a vector's end; the iterators `at` and `limit`, `served` for the pointer a loop holds while it takes the messages of one watcher or window, signals as Wait() has returned them; callbacks that add and remove members |
| `Input` | the events of a window in `Main` | Intuition's queues per window, `m_bShiftPressed` and the like, the click remembered for a double click |
| `AmiMenus` | `CAmiMenus` | the array of `NewMenu` and the one of mappings, the native menus Intuition makes of them |
| `WindowMenus` | `CWindow` and its menus on Windows and Qt | the native menu bar, the accelerator table |
| `StdList` | `StdList` | `link` holds `m_poNext` and `m_poPrev` of every node and of the head and tail each list has inside it, `count` is `m_iCount`; `items` is the sequence of nodes the callers have made of each list, `off` the nodes that were taken off with an operation that clears their links. One operator per member function, which assigns the links in the code's way |
| `ListSort` | `StdList::Sort()` on top of `StdList` | its local variables; an action per turn of each of its loops, which uses the operators of `StdList` |
| `StdPool` | `RStdPool` on top of `StdList` | the list of blocks and the list of free items, the blocks that are allocated, the items handed out; an action per node of each loop |
| `MungWall` | `MungWall` | the arenas with their links and walls, the profile; blocks allocated before the constructor empties the list (`Early`); a client that may also misuse it |
| `LocalFile` | `RFile`, `RFileUtils`, the directory functions of `Utils`, `MapLastFileError` | the names and files on the disk; each request of a call to the system is an action, with those of other programs in between |
| `Directory` | `RDir` on Unix, Windows, Amiga OS 3 and 4, `RRemoteDir`, `Utils::GetFileInfo`, the sorting of entries | the entries, the handle, how far it is read; other programs as `Change` |
| `PathNames` | the path functions of `Utils` | the buffer a path is put together in |
| `Clipboard` | `RClipboard` on Amiga OS 3 and 4, Qt and Windows | the text of the system, the buffer that is filled, the text that is read and how far |
| `Lex` | `TLex`, `Utils::CountTokens` | the memory of the string and the position in it |
| `Args` | `RArgs::readArgs` and the command line made for `ReadArgs()` | what is left of `argv`, the options, the list of the magic option; an action per option |
| `ConfigFile` | `RConfigFile`, `CConfigNode` | the tree as each line's parent, the nodes that the parser is in; an action per line. The searches and `GetString()` are operators |
| `TextFile` | `RTextFile`, `Utils::LoadFile` | the buffer with its marks, the position; another program that writes |
| `StringList` | `CStdStringList` | the array and the new one, the copies that are allocated |
| `Wildcard` | `RWildcard::Match` | the two pointers; an action per turn of the loop |
| `Calendar` | `TDateTime`, `TTime` | a date and the time of day; the conversions are operators |
| `Checksum` | `RCRC` | the checksum so far; the table and a step of it are operators |
| `RemoteProofs` (session, file and transfer), `PortRendezvousProofs`, `LocalSocketProofs`, `WatchersProofs`, `DeskProofs` (commands and events), `MenuProofs`, `ListSortProofs`, `FilesProofs` | the theorems | — |
| `MCRemoteSession`, `MCRemoteFile`, `MCListSort` | instances for TLC | small sets of contents, nodes, keys |
| `MCLocalSocket` | instance for TLC with a record of usage | `usage`, `overlapped` and `abandoned` remember what a promise depends on, and restrict nothing (`PortRendezvous` has its own `usage`, and is run as it is) |
| `MCWatchers`, `MCDesk`, `MCText`, `MCFiles` | instances for TLC of several modules each, which do not interact | `part` says which of them runs, the variables of the others are 0; a property says of each part what its module defines |

### Abstractions

* A command and its payload are one unit: nothing happens between them on either
  side. The size and the contents of a file are units of their own, because the
  receiver acts on each. Inside one file, bytes are the business of
  `FileTransfer`, which `RemoteSession` takes as a whole.
* A file that was partly received by the server when the connection broke has any
  part of the contents in `RemoteSession` (`CutFile`), and a write that breaks down has
  sent any part of its units (`WriteCut`); the cut itself is explored byte by byte in
  `FileTransfer`.
* RADRunner's dispatch loop, the network, QFileSystemWatcher, QLocalSocket,
  QProcess, Intuition, the exec message system and the file systems are not in this
  repository. They are modelled from how the code uses them and are marked
  external. Connection loss keeps any prefix of what was under way.
* What differs between platforms and matters is a constant or a variable that is
  chosen at the beginning (`platform`): `StickyReset` (Winsock reports a reset at
  every `recv()`, other systems once and then the end of the stream), which is FALSE
  in the runs; the proofs of the session hold for both values. Whether a `recv()` of 0
  bytes returns or waits is left open at each (`ReadNothing`), and no fairness is
  assumed of it.
* A descriptor that openRemote() has overwritten is "left" in `RemoteSession` while it
  is open on the client's side, and "spent" when the other side has ended it; neither
  comes back.
* Usage that a caller may expect to work but that the code gets wrong is a
  constant where it would break everything after it (`EditOpened`, `LeaveEmpty`,
  `ReuseFailed`, `CreateMayFail`), and a record of what has happened where it
  would not (`usage`, `overlapped`, `abandoned`, `raced`, `StartedOnce`, `crowd`,
  `displaced`, `misread`, `lost`, `shrunk`, `gone`, `early`): then the behaviour is
  explored too, and the property says what holds until it comes to that.
* Where the code reads memory it should not, the module ends in "undefined" or
  reads `Garbage`; the property says from which usage it can happen.
* Texts are sequences over few characters, one of each kind that the code tells
  apart. Lines of a configuration file are records of what the parser sees in them.
* A number in `Checksum` is the set of its bits; days in `Calendar` have 12 units,
  on which the arithmetic is that of hours, minutes and seconds.
* A node of a list that is handed to a caller has no links any more: in `StdPool`
  the caller may write anything over them (`Scribble`).

## The runs

| Passing run | Properties | States |
|---|---|---|
| `session` | `ReplyAnswersRequest`, `ServerInStep`, `OnlyCompatibleCommands`, `NoLeakedLink`; `AnswersAreCurrent`, `CallsReturn`, `DeadLinkIsReplaced` | 605,000 |
| `file` | `OffsetInBuffer`; `KeepsContract`: the refinement of `FileHandle`, and that what was sent arrives unless something breaks (`PutsArrive`) | 1,338,000 |
| `transfer` | `LeavesStreamInStep`, `SuccessIsComplete`, `StaysInBuffer`; `ReceiverReturns` | 22,000 |
| `port` | `MessageForWake`, `MessageAlive`, `OneServerApart`; `SenderReturnsAlone` | 8,000 |
| `socket` | `MessageIsKept`, `ServerIsFound`, `OpenRecovers`; `Delivered` | 186,000 |
| `list` | `Linked`, `IsOnListTells`, `ReadsAgree`; `SortsStably`, `SortReturns` | 801,000 |
| `watchers` | `WatchIsRight` (three systems); `NewsIsNew`, `EveryChangeIsReported`, `StopReturns` | 829,000 |
| `desk` | `CommandsAreKeptApart`, `EventsAreServed`, `MenusAreAsAsked`; `EndIsReported` | 3,067,000 |
| `text` | `ParsersAreRight`, `NothingIsLost`; `MatchingEnds` | 2,756,000 |
| `files` | `FilesAreTheirs`, `ListingIsRight`, `MemoryIsKept` | 2,065,000 |

The properties of the last four runs are conjunctions, one part for each module
that the run instantiates, and each part is stated beside its module:

| Property | Says |
|---|---|
| `WatchIsRight` | Qt: nothing was lost between listing and watching, but within `resumeWatching()` (`CaughtUp`). Windows: while watching there is a request, on the right directory, also after a pause, and the open handles are the last one and those a pause or a failure has left; while there are none of these, nothing is open after stopping (`WatchesAndStops`). Amiga OS: one notify request, and none after stopping, unless that came in a pause (`OneWatch`). Where the system has refused to go on (`deaf`), each says what is left |
| `CommandsAreKeptApart` | output goes to the client of its own command, whole, in order and with one end, which on Amiga OS can be that of an earlier command (`StreamsToItsClient`, `OfAnother`); what the system gave is given back (`NothingLeaks`) |
| `EventsAreServed` | no event is waited over (`NothingForgotten`); no modifier key is stuck, unless its release could not be read (`ModifiersAreHeld`); three clicks are not two double clicks (`PairsAreApart`) |
| `MenusAreAsAsked` | array, numbers and native menus agree, and each item is as it was last set, which an update does too on Windows (`ItemsAreAsAsked`, on Amiga OS and elsewhere; `Agree` for a window without its strip); shortcuts run items that are there (`ShortcutRunsItsItem`, `ShortcutsAreOfItems`) |
| `ParsersAreRight` | tokens are those of a lexer told character by character (`TokensAreTheReference`), inside the string (`StaysInString`), and there is room for them (`RoomForArguments`, `CountIsRight`); arguments are used once (`UsedOnce`), required ones are there (`OneRequiredIsGiven`) and lists fit (`BuffersHold`); the tree is the file (`TreeIsTheFile`), `GetString()` agrees with it (`ReadersAgree`), and enumeration is complete (`EveryKeyIsFound`); a match is one (`MatchesAreRight`) |
| `NothingIsLost` | lines are those of the file (`LinesAreTheFile`, `StaysInBuffer`) or the clipboard (`LinesAreTheText`), where what is copied is (`CopyIsThere`); dates come back (`DatesSurvive`); the checksum is the remainder by the code's own polynomial (`ChecksumIsTheRemainder`), and not zlib's, for any of the run's texts (`NeverZlibs`); lists of strings survive a failed allocation (`ListIsKept`) |
| `FilesAreTheirs` | parts of paths come back (`PartComesBack`); `CreatedIsNew`, `ExclusiveIsAlone`, `ErrorsAreTrue` |
| `ListingIsRight` | the listing is complete, right and sorted, and no handle is lost (`HandlesAreKept`) |
| `MemoryIsKept` | `EveryItemOnce` and `NoFreedLink` of the pool; `ListIsWhole` and `NewsAreCounted` of MungWall |

The type invariant of a module is a conjunct of one of the properties of its run,
or of an inductive invariant that is proved (`RemoteSession`, `FileTransfer`,
`PortRendezvous`, `LocalSocket`, `StdList`).

Each cfg names its bounds. The ones that matter:

* `session`: 2 names, contents of 0 or 1 byte, 2 descriptors (reuse needs a free
  one while the other is still in the server's queue), 2 versions, a window of 3
  units (one request of three units). A second name is needed for rename and for
  a reply of one file taken for that of another; a third adds nothing that the
  protocol could confuse.
* `file`: 2 names with contents of up to 1 byte, so that a name can leak from one
  use into the next, and a write beyond the end leaves a zero byte. `file_edit`
  has contents up to 2 bytes.
* `transfer`: pieces of 2 bytes, files of 1 to 5 bytes (less than, equal to, and
  more than a piece, exact and inexact multiples), a window of 3 so that a piece
  can be cut. All sizes are below `Modulus`: the wrap of the 32-bit counter in
  `readFromRemote()` (2^32 bytes, RemoteFile.cpp:235) is defined but out of range.
  So are empty files (see below; `session` has them). The source may be shortened,
  removed or made impossible to open after its size was sent.
* `port`: 4 processes, two of which can be servers by a race while the others
  send to either. `socket`: 3 processes, 2 connections waiting.
* `list`: two lists and the local one of `Sort()`, four nodes, two of them with
  the same key: two passes, with a pass of an odd number of merges and a Q that
  is cut by the end of the list.
* `watchers`: one directory on Qt and Amiga OS, two on Windows (where a restart
  names another one), two files, two timestamps, two starts, two changes.
* `desk`: two requests of two pieces of output; three executers, two watchers and
  two windows (an erased member with one behind it, a watcher stopped by the
  callback of another, and a second window that is signalled), three events; four keys of which one is a shortcut, over two windows,
  four inputs; two menus, one with a submenu, and four changes of them.
* `text`: strings and files of up to 4 characters of 5 to 7 kinds, four words for
  options of three kinds, files of up to five lines, names and patterns of up to
  4 letters, 800 days from the ends of a year, a century and four centuries,
  three bytes.
* `files`: two programs with two calls and two files; a directory with a file, a
  link and a directory, one change while it is read, two opens, buffers of two
  entries, sizes 0, 1 and 5 of which one difference is cut (`Wide` is 5: a TInt
  holds the numbers from -5 to 4); pool memory for two blocks of two items, one of one item and one of
  none; three blocks of MungWall, and one of before its constructor.

`CHECK_DEADLOCK` is off in `transfer`, where a finished transfer stops, and in the
four runs of several parts, most of which come to their bounds.

### Fairness

* `RemoteSession`: weak fairness of the client's reads and of the server's steps: a
  runnable process runs. Nothing is assumed of the network or of the user, except
  in `AskingSpec`, where the client goes on calling `checkConnection()` (strong
  fairness, as requests may keep it busy in between): programs call it before
  they use a remote object, which is the premise of self-healing.
* `FileTransfer`: weak fairness of the two loops together; losing the connection
  and changing the file are never forced.
* `PortRendezvous`, `LocalSocket`: weak fairness of a process that is inside a call
  or has been signalled. Opening, sending, closing and crashing are never forced,
  nor is the 30 second timeout.
* `FileWatcher`, `AmigaWatcher`: weak fairness of the event loop and of calls that
  have begun. `WindowsWatcher`: of completion routines, which the system runs in
  an alertable wait, and of the end of a wait whose event is set.
* `Executer`: weak fairness of the system's reads and of the loop that serves their
  signals. A command is never forced to write or to exit.
* `ListSort`, `Wildcard`: weak fairness of the running call.

## Where the code departs from its comments

Two runs expect a violation, each of one comment of the source, quoted in
`PROJECT.json`:

* `session_create`: if the server cannot create a file, `readFile()` returns with
  its contents still on the socket, and they are read as commands;
* `file_edit`: `open()` does not set `m_fileName`, so that a file that was opened
  and written to is sent under the name of an earlier one.

The models contain others for which no run is kept; the properties are stated so
that they hold until it comes to these.

The session and transfers:

* an existing empty file on the server is reported as not found: the do-while loop
  asks for 0 bytes and takes the answer for a closed socket (RemoteFile.cpp:243),
  a transfer of an empty file throws in both receivers, and an empty
  `create()`d file that is closed without a `write()` (`LeaveEmpty`) is never sent.
  Where a `recv()` of 0 bytes waits for the next byte, the call never returns
  (`AsksForNothing` in `CallsReturn`);
* `openRemote()` over an open connection forgets it: nothing closes that descriptor,
  and a server that serves one connection at a time waits on it for ever, with the new
  one in its backlog (StdSocket.cpp:171; `ServerHeld` in `CallsReturn`);
* `sendFile()` announces the size before it opens the file. If `open()` fails then, for
  whatever reason, or the file is shorter by then, the receiver waits for contents
  that never come (Handler.cpp:258-262; `EndsShort` in `ReceiverReturns`);
* a `close()` that fails may have changed the file of the server by then, in whole or
  in part, and one that succeeds has handed the contents to the system, not to the
  server (RemoteFile.cpp:335-347, Handler.cpp:106-137): the contract says so;
* a failed `open()` leaves the buffer of the use before (`ReuseFailed`);
* `checkConnection()` keeps a connection that was reset when it is asked the first
  time, and on Winsock for ever (`StickyReset`).

The rendezvous:

* on Amiga OS one signal stands for two messages, and `Main()` takes one
  (StdApplication.cpp:212); a port closed with messages on it leaves their senders
  waiting;
* two processes that are in `RLocalSocket::open()` at the same time both become
  servers, as `OpenSocket()` removes the name whoever it belongs to
  (QtLocalSocket.cpp:190; QtLocalSocket.h:33-35 says that the first one will be
  the server); the same race is between `FindPort()` and `AddPort()`;
* `Connected()` deletes a connection whose client has not written for 30 seconds,
  and the message that comes after is lost although `write()` told success.

The watchers:

* on Qt, after a second `startWatching()`, files of the first directory are reported
  and every change twice: `m_connection` is never assigned, and `m_files` is kept
  (QtFileWatcher.cpp:167). A modification is reported again with each later
  signal, since the snapshot does not take it in. A watcher of a single file that is
  paused goes on being signalled. A file that changes between the two halves of
  `resumeWatching()` is reported only with the next change of the directory;
* when the system refuses to watch again in `resumeWatching()`, nobody is told, and
  nothing is watched (`deaf`): `addPath()` (QtFileWatcher.cpp:103) and `StartNotify()`
  (AmiFileWatcher.cpp:168) are not followed up, nor is a `readFileList()` that fails there
  (:164) and leaves a snapshot without the files it did not come to. A `changed()` that
  cannot read the directory (:29-31) has taken the message, and the change is not
  reported before the next one (`raced`);
* pausing on Windows cancels the request and keeps the handle, and resuming opens
  another over it; stopping while paused leaves the handle open, and on Amiga OS the
  request (`left`, `abandoned`). What changed while it was paused is not found on Amiga
  OS either, if the file is still there;
* on Windows, what `startWatching()` finds in stopping the watch before is reported
  under the name of the new directory; and a cancelled request that was not
  pending is waited for, for ever (`StopReturns` speaks of one that was).

The application:

* the first window that is signalled is served and the others are passed over, and
  so is the member behind one that a callback has erased from a collection of
  three or more (`Excused`; StdApplication.cpp:182, :225);
* an activation that comes when no window is known as active leaves the modifier
  keys of another window as they were (StdApplication.cpp:271);
* a command that is requested while another runs takes over its callback on Qt, and
  is not refused at all on Windows (`Disturbed`); the rest of the pipe of a command
  that has exited is dropped on Amiga OS (StdExecuter.cpp:308);
* on Amiga OS the executer is closed when the output of a command ends, which can be
  before the command exits. `ExitFunction()` then signals through what `m_exitData` of the
  object holds by that time (StdExecuter.cpp:53, :369): if it is another command's, that
  one is ended in the place of the first (`OfAnother`). After `close()` the task is NULL,
  and the model takes `Signal()` of it to have no effect. The result of `AllocSignal()` is
  not checked: without a signal, the exit is never seen;
* a modifier key stays set if `GetAttr()` does not give the InputEvent of its release
  (StdApplication.cpp:417), until the next key of that modifier or the next change of
  the window (`unheard`);
* the accelerator of the last menu item with one is never removed, as a table of 0
  entries cannot be made (StdWindow.cpp:2915, with an assertion at :3017); if the new
  table cannot be made when one is added, the old one is lost too (StdWindow.cpp:799);
  a new hot key is not entered for an item that had none; `UpdateMenuItem()` enables the
  item and takes its tick away on Windows, as `ModifyMenu()` is called with flags that say
  so (StdWindow.cpp:3300); `CheckMenuItem()` ticks items there that are no check items,
  where its comment says that nothing will be done (StdWindow.cpp:1162-1164); on Qt items of submenus
  are not found for removal, and the action of a submenu is cast to an item's;
* on Amiga OS, menu numbers are wrong behind a removed item, in menus that were
  created with submenus, and behind them (`Numbered`); the first item of the first
  menu, whose number is 0, can be neither checked nor disabled; a shortcut whose
  item is disabled says that it ran (AmiMenus.cpp:774); `ClearMenuStrip()` comes
  before `SetMenuStrip()`, and if this fails the window has no menus until the next
  change (AmiMenus.cpp:451-453, :1161-1172); what is enabled or disabled meanwhile is so in the
  array only (`missed`).

Files and memory:

* on Amiga OS `create()` takes a file that another program has made after it has
  looked, and a lock on Unix is one among those that ask for it only (File.h:17-18
  says exclusive access);
* entries are sorted by size by the difference cut to 32 bits (Dir.cpp:417), where
  Dir.h:24 says by size;
* a directory with "/*" on Unix is the current one, a file that vanishes ends the
  reading, entries of an object that is opened twice come twice and its first
  handle is lost, and on Amiga OS 3 a link to a file in use costs the rest of its
  buffer (Dir.cpp:1294);
* a buffer that is filled by `addPart()` to its end has no room for the terminator
  (Utils.cpp:372); a file that becomes shorter while `LoadFile()` reads it leaves no
  buffer, and `RTextFile` looks for lines in it;
* `Create()` of a pool that runs out of memory leaves `m_iSize` set, so that the
  pool cannot be created again before it is closed (StdPool.cpp:26-42);
* `moveList()` of an empty list leaves the destination as it is, where its comment
  says that the destination's contents will be discarded (StdList.h:228);
* a failed append to a `CStdStringList` frees pointers that were never set, unless
  it was for the last string (StdStringList.cpp:90); the class has no constructor;
* on Windows, `SetDataStart()` frees the text that the same program is reading from
  the clipboard, and what is less than the size it was told is followed by garbage;
  the pointer to the text is not cleared by `SetDataEnd()` (StdClipboard.cpp:332-351), so that
  the assertion of `AppendData()` lets a call through that comes after it;
* a block allocated before the constructor of `MungWall` is not on its list, which the
  constructor empties (MungWall.cpp:45-61), and freeing it is reported as an error, or does nothing while the list is empty:
  it stays allocated.

Texts:

* a line of a configuration file that no newline ends is not parsed, and the value
  of an indented key is cut by its indentation (`Readable`, `FindsValue`);
* with several required options behind the one that takes many, only one gets an
  argument back (`OneRequiredIsGiven`; T_Args.cpp:267, Args.cpp:978);
* empty quotes end the extraction of tokens, a backslash before the end within
  quotes leads behind the string, and destructive extraction overwrites the first
  character of a token that follows without whitespace (`NoEmptyQuotes`, `Separated`);
* a wildcard's '*' is bound to the first place where its next character is found,
  and a '*' at the end does not stand for nothing (`Committed`);
* the checksum is not that of zlib's `crc32()`, which StdCRC.cpp:53-54 and StdCRC.h:10
  say it is: another polynomial (0xd8 shifted to the top), the highest bit first, and
  nothing inverted (`NeverZlibs`);
* 29 February becomes another date when it is converted, as years have 365 days
  (StdTime.cpp:50).

## The proofs

`tlapm` checks all of them. They hold for every value of the constants that the
named assumptions of the modules allow, which say what the code takes for granted
and no more: special values are none of the ordinary ones (`ConstantsAssumption`,
`PortAssumption`, `SocketAssumption`, `WatcherAssumption`, `ListAssumption`,
`InputAssumption`), sizes and bounds are numbers (`TransferAssumption`,
`BoundsAssumption`, `CommandsAssumption`), a link takes one buffer or one handshake
(`StreamWindow` in `TransferAssumption`, `Window` in `ConstantsAssumption`), the empty contents and
the client's version are among those considered (`ConstantsAssumption`), the objects of
an application are finitely many and of one class each (`LoopAssumption`), the commands of
menu items are positive and the keys that are added include the one the first menus use
(`MenuAssumption`), keys of a list can be compared (`SortAssumption`), contents are sequences of bytes of a
bounded length (`UsageAssumption`), the blocks of a pool do not overlap and have a
first item, which keeps track of the block (`PoolAssumption`), and there are finitely
many addresses, of which NULL is none, and the sizes of the files that are on the disk
in the beginning among the sizes (`FileAssumption`). `FilesProofs` uses what is proved
of the list in `ListSortProofs`, and so inherits `SortAssumption`, on which nothing
about files depends. The instances of its run are those of the theorems: the first
contents of the disk and the patterns are the ones of `MCFiles`; the lengths, numbers
of objects, sizes, widths, blocks, addresses and calls are arbitrary. In the same way the
menus a program begins with are those of `MCDesk`; what it adds to them, under which
commands and keys, what fails and how many calls there are is arbitrary.

| Theorem | Property | Rests on |
|---|---|---|
| `RepliesMatch`, `NoLinkLeaks`, `InSync`, `ProbeTakesNothing` | `ReplyAnswersRequest`, `NoLeakedLink` | `IInv` |
| `OldServersAreSpared` | `OnlyCompatibleCommands` | `IInv`, `VersionKnown` |
| `AnswersAreTrue` | `AnswersAreCurrent` | `IInv`, `NewestLast`, `ReplyIsCurrent` |
| `ServerKeepsInStep` | `ServerInStep` | `IInv`, `StreamsInOrder`; `~CreateMayFail` |
| `OffsetStaysInBuffer` | `OffsetInBuffer` | `MembersMatchView`; `~EditOpened` |
| `ImplementsFileHandle` | `KeepsContract` | the same, `BufferStartsEmpty`, `StreamsInOrder` and `AnswersAreTrue`; `~CreateMayFail`, and usage, see below |
| `StreamLeftInStep`, `SuccessMeansComplete` | `LeavesStreamInStep`, `SuccessIsComplete` | `SentFirst`, `CountsToSize`, `WritesCounted` |
| `BufferIsEnough` | `StaysInBuffer` | the same; sizes below 2^32 |
| `WakesHaveMessages`, `MessagesStayAlive`, `OneServer` | `MessageForWake`, `MessageAlive`, `OneServerApart` | `SignalsCounted` |
| `SentIsKept`, `OneServerIsFound`, `OpenWorksAfterCrash` | `MessageIsKept`, `ServerIsFound`, `OpenRecovers` | `OneOpens`, `ConnectionIsKept` |
| `WatchesWhatWasAsked`, `ReportsAreNews` | `WatchIsRight`, `NewsIsNew` | `Follows` of each system |
| `CommandsStayApart` | `CommandsAreKeptApart` | `OneCommand`, `InOrder`, `OutputFlows` |
| `EventsDoArrive` | `EventsAreServed` | `Follows` of `MainLoop` and of `Input` |
| `MenusStayAsAsked` | `MenusAreAsAsked` | `InOrder` of `WindowMenus` and of `AmiMenus` |
| `LinksHold`, `OnListIsTold`, `SortKeepsLinked` | `Linked`, `IsOnListTells` | `ListInv`, `SortInv` |
| `SortReadsAgree`, `SortPointersInPlace`, `SortLosesNoNode` | `ReadsAgree` | `ListInv`, `SortInv` |
| `FilesStayTheirs` | `FilesAreTheirs` | `InOrder` of `LocalFile`; a lemma on paths |
| `ListingsAreRight` | `ListingIsRight` | `InOrder` of `Directory` |
| `MemoryStaysKept` | `MemoryIsKept` | `PoolInOrder`, `ListInv`; `WallInOrder` |

Each proof has one lemma per action, or per kind of action, after the lemmas about
sequences, vectors and links that it rests on. What the strengthenings add, and why
the properties are not inductive without them:

**The session.** That nothing is under way when the client is idle needs to know
that the server has nothing left to answer, hence

* `LinksInOrder`: every descriptor is in one place (current, overwritten, in the
  backlog, being served, or free), and a signature is only at the head of a stream;
* `OneReplyDue`: of the units on their way to the server on a live connection, at
  most the last will be answered, and only if the client waits for it and
  nothing is on its way back (sends are never answered, which is why a request
  can follow one at once);
* `RestOfReply`: what is on its way back is a suffix of one reply, in its order,
  and begins with the unit the client is waiting for;
* `WaitsForRequest`: a blocked client has a connection and a request.

Beyond `IInv`, that no command reaches an old server rests on `VersionKnown`: past
the handshake of a live connection the server has the client's version, and every
answer to a version request that is under way there carries the server's. That a
KErrNone is true rests on `NewestLast` (the connection of the client is the last the server will come to,
so that nothing sent before can change the files after the answer) and on
`ReplyIsCurrent` (a reply that is under way agrees with the disk). That the server
takes contents for contents rests on `StreamsInOrder`: each stream is a sequence of
whole requests, the first of them less what is read. It needs `~CreateMayFail`: the
run `session_create` shows that the code does not keep in step without it.

**The remote file.** `MembersMatchView` relates each member of `RRemoteFile` to what
the caller has done with the handle, and `BufferStartsEmpty` says that the buffer of a
closed object is empty. The refinement maps the handle of `FileHandle` to the caller's
view, `store` to the server's disk, and `due` to the sends that are in a stream or being
received. Each step is one of `FileHandle` or a stutter: a step of the server that
changes a file is `Deliver`, and has to be of a send that is under way, which is
`StreamsInOrder`; one that cuts a stream is `GoAstray`. That `open()` hands over the
server's file is `AnswersAreTrue` of the session below. `PutsInOrder` adds that the
units of one send follow each other, and that the server remembers the one it is
receiving and no other. `PutsArrive` says of every step that
takes a send off the stream with nothing breaking that the file stands in its place.
The hypotheses are the usages in which the code does not keep the contract, each with
its line above: a server that cannot create the file (`CreateMayFail`), writing to an opened file (`EditOpened`), closing a created file
without a write (`LeaveEmpty`, and `<<>> \notin Writes`), and using an object again
after an `open()` that failed (`ReuseFailed`).

**The transfer.** `SentFirst`: the sender does not go beyond the size it has announced,
and what the receiver has counted, the system holds and is in flight has been sent.
`CountsToSize`: the receiver asks for no more than is left of it, and ends at the end.
`WritesCounted`: until a write fails, all that was counted was written. The counts of
32 bits wrap in the model; the first two theorems hold for all sizes nevertheless.

**The rendezvous.** On Amiga OS `SignalsCounted`: a signal that is still set stands for a
message no wake has been spent on, so that a server that is awake while its signal
is set again has two messages. `OneServer` follows the history of which processes were
in `open()` together. On Qt the invariants say which of the processes is inside
`open()`, and that the socket the name leads to is that of the last one that has
come out of it as the server; a message that was sent is in the connection that its
server has pending or is reading.

**The watchers.** On Qt the snapshot is what the client knows, and it differs from the
directory only while a signal is due or being handled (`OnDirectory`), but for what
changed within `resumeWatching()`. On Windows the names, the handle and the request
that stands are those asked for (`AsAsked`), whatever a pause has left behind; and as
long as nothing was, there is at most one request, of the handle that is open, which
was aborted only if the watch was paused or somebody waits for it (`OneRequest`). On Amiga OS the requests
before the last are over, and the last is for what the names say (`OnlyTheLast`).

**The executer.** `OneCommand`: the object has one command, whose callback and handles it
has, or none. `OutputFlows`: what a client was told and what is in the pipes of its
command are together what the command has written, each channel in its order, and
nothing comes after an end. On Amiga OS a command whose object was closed before it
exited is of no object, and its exit ends whatever command the object has by then: what is
told is of its own command, or such an end (`OwnThings`). All of this ends with `Disturbed`, a request that the code
lets in while another command runs.

**The main loop.** An event that has come, whose signal is not set and which is not
excused, is `Ahead`: Wait() has returned its signal, and its source is a member that a loop
has not come to, or the one that is being served. That an erased member does not move
another one behind the iterator needs to know that there are no more than two
(`LoopsInBounds` counts into `crowd` what there were more of), and that the slots up to
the end that a loop began with are still there (`IsVector`). A watcher that its own
callback stops, and a vector that grows under its iterator, are where the code is
undefined, and end the behaviour. Stating the invariant has shown that a watcher is
served until its port is empty by a pointer that the loop holds: the vector may change
under it, and with two watchers a model that looked the watcher up again for each
message forgot the other one.

**Input.** A modifier that is set, or that an event in some queue is to set, is held in
the active window, or an event behind it clears it: a release, or the deactivation
of the window, which is queued when another one is activated (`PressesEnd`,
`PressedEnds`); or its release was lost (`unheard`). A click that may become half of a pair has not been counted as half of
one (`ClicksCounted`).

**The menus of `CWindow`.** The property counts the places of a menu bar at which a
command is, and adding or removing an item moves the others: lemmas on the places of a
bar (`MePlaces`, `MeAt`) say for each change which places there are after it and where
each was before. The table of accelerators has one entry of each item that has a key, and
at most one besides (`TableFits`), which cannot be seen from the property: it counts the
entries that are left over, and says nothing of two of the same item.

**The menus of `CAmiMenus`.** That array, numbers and native menus agree rests on
`Paired` (array and numbers go together, and each command is there once), `Regular` (the array
ends where its end is, submenus follow an item), `Shown` (Intuition has the menus that
would be made of the array: the same commands in the same places) and `Kept` (an item whose
number is its own is as it was asked for, and so is Intuition's, unless it was changed
while the window was without its strip). A number is computed by counting the titles, items and subitems before a place: the
proofs follow how these counts change when an entry is put in, taken out or given
another state. `Counted`, `Constructed` and `Scanned` are one step each of a loop, so
that a recursive function need only be unfolded once per element.

**The list.** The links represent `items` (`Represents`: every node of a sequence is between
its neighbours, by its links and by theirs, and no node is on two lists or twice on
one), `m_iCount` is the length, and nodes in `off` have no links. Each operation comes
down to one of a few changes of the links — insert between two neighbours, bypass,
splice, move, reset — with a lemma each that says what the change does to the
represented sequences. `SortInv` adds that P is the first node left, that Q is `psize`
further on, and that the two lists together have the nodes the call found: without the
first two nothing says that the node the merge moves is on the list it takes it off.
What a walk reads is an induction over the position in the list, which is done with
the least position at which it would fail (`Least`).

**Names and files.** That a part which is taken from a path and added again makes the
path needs where its last separator is; the lemmas say so for paths of any length. Of
files, `CreatedIsNew` and `ExclusiveIsAlone` speak of calls that are over, and a call has
its file before: `MakersAreKnown` and `LocksAreAlone` say the same of the time in
between, when a file that was made is still to be locked and another object may open
it. `ErrorsAreTrue` needs that the name whose directory is looked for was seen to be missing
before (`MissingWasSeen`), and that every file on the disk has been made (`FilesAreMade`),
without which the next one would not be new.

**Directories.** That everything is listed when `read()` has succeeded is about its end,
and reading takes many steps: `SeenIsListed` says of every moment that what the handle
has returned is on the list or still in the buffer of `ExAll()`, never in both, unless
the list was cut short. `OpensInOrder` keeps the entries of an earlier `open()` out.
Sorting must neither lose nor repeat an entry: `Sortings` builds the places
of the outcome one by one, each of them another; that there are as many as entries,
and so all of them, is shown with a least counterexample and a count of what is
left. For `SmallerFirst` every two neighbours in order give the order of all, which
is where no difference may be cut (`DifferencesFit`).

**The pool.** It is two lists, of blocks and of free items, of which `ListInv` holds by the
lemmas of the list. `CallsAreInOrder` says what the loops of `Create()`, `GetNode()` and
`close()` have still to do: no item twice, and items before blocks, since the block is
linked by memory of its own that is freed with it. A caller may write over the links
of what it holds (`Scribble`), which is why `Represents` speaks only of nodes on a list.

**MungWall.** `ListIsWhole` follows the links, and what is linked to what cannot be
concluded from blocks that a walk has not met. `Closed` is a set of blocks that no link
leaves, linked both ways within; every operation makes one from the set before, and the
walk stays in it. The walk, a recursive function, is handled by the first step at which
it would leave.

What the proofs have shown of the models: an implication without parentheses in the
type invariants of `LocalFile` and `Clipboard` had taken in the conjuncts behind it, which
were checked of fewer states than meant; and the promise on the order of sizes was
false in general. It excused only two entries whose own difference is cut. But with
cut differences the comparison is not transitive: an entry in between can put two others
the wrong way round. Nor is the outcome of a merge sort then that of an insertion, which
the model had; `Sortings` has every outcome whose neighbours compare in their order, and the
promise is for directories of which no difference is cut. `UNION S \ T` and `SUBSET S \ T`
are read as `(UNION S) \ T` by TLC, and by `tlapm` the other way; where `AmiMenus`,
`Executer` and `MainLoop` had them without parentheses, what was proved and what was
checked were not the same.

Of the theorems' properties the runs check those that the table names; the inductive
invariants were checked in the same way, and are left to the proofs.

Only model-checked: the liveness properties (fairness is out of the prover's reach);
that the sort sorts, stably (`SortsStably`); and two invariants. `ParsersAreRight` and
`NothingIsLost` compare what `Lex`, `Args`, `ConfigFile`, `Wildcard`, `Checksum` and
`Calendar` compute with a reference, and most of both are recursive functions or folds over
the text: that two of them agree for every input is an induction over data, which the
prover has no rule for. Where one recursive function was to be bounded or followed, as in
the list, the directory, MungWall and the menus, the least counterexample has served
instead.

## Not modelled

* Drawing, fonts, images, themes, gadgets and their layout, dialogs, requesters:
  calls of three window systems, and arithmetic on sizes that these return.
* The main loops of Qt and Windows, which are the systems'; what `Main` calls for
  commands, menus and gadgets is the client's.
* `RRendezvous` on Windows (one `SendMessage()`), the remote file watcher (stubs),
  the Amiga OS compatibility layer, number conversions and `StdCharConverter`.
* A local read that fails while `sendFile()` sends: its error becomes a length, and
  what `write()` does with that is up to the system.
* `getFileInformation()` and `setFileInformation()` of the protocol.

## The plan

Done: the remote session, file and transfer; both rendezvous; the file watchers of
the three systems; the list, its sort and the pool; the main loop with executers,
watchers, windows and input; menus on all systems; files, directories, paths and
the clipboard; the parsers, dates and the checksum; MungWall.

Left:

1. Proofs: `UsedOnce` of `Args`; `ListIsKept` of `CStdStringList`.
2. Composition: `MainLoop` with `Executer` and `AmigaWatcher` as the sources it serves.
3. The layout of gadgets, number conversions, and file information over the session.
