# TLA+ models of system-config

This directory holds TLA+ models of the programs in this repository that have
state, concurrency or a protocol of their own, the TLC configurations that check
them on small instances, and proofs of the most important properties for every
instance. Most of the repository is declarative Nix; the programs are a handful
of tools under `packages/`, `pkgs/` and `modules/`. Modelled are `silakka54-sync`,
which keeps a split keyboard's firmware and live state in step with the system
generation, the `keymap-editor` that writes its configuration, the
`keyboard-layer-viewer` overlay, and `minecraft-auth`.

## 1. Inventory

| Component | State it keeps | Operations | What is hard |
|---|---|---|---|
| `silakka54-sync` (`packages/silakka54/sync/src/main.rs`) | none in memory between runs; the keyboard's dynamic storage; the notification state file; in the watch daemon the paths last seen | `status`, `config`, `snapshot-live`, `sync-keymap`, `hotplug`, `watch`, `flash`, `layer` | several processes share one HID device whose answers are broadcast and name no asker; lost and repeated reports; deadlines against retries; keyboards replaced in between; crashes between two effects; other operations failing |
| Silakka54 firmware (`packages/silakka54/generate-keymap.py`, generated `via_command_kb`) | dynamic keymap, layout options, macro buffer, layer state | status pages, layer move, bootloader jump; VIA gets and sets are QMK's | jump to the bootloader 100 ms after the acknowledgement; layer moves are not idempotent for a user who moves on |
| Service (`modules/home-manager/corncheese-silakka54/default.nix`) | - | runs `silakka54-sync watch`, restarts it | crash and restart of the daemon |
| `keyboard-layer-viewer` (`pkgs/keyboard-layer-viewer/source/src/main.rs`) | overlay visibility, layer per profile, held keys, hide deadline, submap suppression; a set of device paths being read | events from reader threads, control socket, compositor | reader threads that come and go, events in one channel, stale layers, dropped input events |
| `icloud-mail-mcp-gateway` (`pkgs/icloud-mail-mcp-gateway/gateway.py`) | times of the last hour's sends | `send_email` with attachments | the limit under concurrent sends; deliveries whose outcome is not known |
| `pydp100` (`pkgs/pydp100/dp100.py`) | 8-bit sequence number, a lock file; the supply's settings | `read`, `on`, `off` | answers one request late, retries that must not resend a mutation, read-modify-write |
| `codex-deepseek-refresh` (`modules/home-manager/corncheese-development/codex-deepseek-refresh.py`) | catalog cache, refresh state, a lock file | `refresh` | many starts at once, crash between catalog and state |
| `minecraft-auth` (`pkgs/minecraft-auth/src/main.rs`) | stored identity and token per account | `ensure`, `show`, `logout` | token rotated long before it is saved; two runs share one temporary file; a user who answers late or never |
| `keymap-editor` (`pkgs/keymap-editor/main.rs`) | layers, selected key, entries and settings of a window; `configuration.json` | key and label entry, tap-hold editor, layer change, reload, validate, save, live apply | edits not yet collected when the user moves on; a file others write too; texts translated into legends and back, and by another program into keycodes |
| `bunnings-powerpass-invoices`, `shrimpus-dashboard`, `silakka54-sound`, Hyprland plugin, `sketchybar-toggle`, ags desktop, ssd16xx driver, `personalize-sd-image` | mostly none, or user interface | - | little that a state model would tell; see section 8 |
| Hosts, modules, overlays, flake | - | evaluated, not run | not a subject for TLA+ |

How the Silakka54 parts interact: the user, the activation script and the watch
daemon all run the same apply (`sync_keymap_command_with_config`), possibly at
once. Each run opens the keyboard's hidraw device several times and talks to it
in transactions (`raw_transaction`): write a 32-byte report, read reports until
one matches, write again every 10 ms, give up after one second. The kernel copies
every report of the keyboard to every open descriptor. The daemon polls the
enumeration once a second; when a path is new it runs the hotplug command:
collect statuses, apply if something drifted, and notify the user once of firmware
that does not match. What it has notified of is kept in a file. `flash` deals with
one half at a time, each a board with firmware of its own: it asks the board to jump
to its bootloader and then writes to a volume, without anything that ties the one to
the other. `keymap-editor` and `snapshot-live` both replace the configuration that the
apply reads, the one from a window, the other from the keyboard.

The layer viewer talks to nobody of these: its threads read input and raw HID devices
and the compositor's socket, and send what they read through one channel to the GTK
thread. `minecraft-auth` is run by a launcher before each start of the game, possibly
twice at once, and keeps one state file per account.

What makes each part correct:

- transactions: an answer that is accepted is true when it is accepted, or the
  difference does no harm; every wait ends; lost reports are made up for;
- the apply: success means the keyboard is as configured, and stays so; nothing is
  written to firmware with another ABI; runs one after another do not disturb
  each other through what they left in flight;
- the daemon and the hotplug command: every compatible keyboard gets its
  configured state; every mismatch is notified of, and once;
- flash: a half gets only its own firmware, and a board reported as verified is the
  one that was asked;
- the layer viewer: no key is stuck or forgotten, the layer shown is the keyboard's,
  and the overlay is up only while used and never on top of a game;
- the editor and `snapshot-live`: no input is lost, the keyboard does what the window
  shows after a live apply, a snapshot describes what the keyboard holds;
- minecraft-auth: the state file stays whole, its parts belong together, its token
  works, and the user is asked only when that cannot be avoided.

Everything in this code that is hard to test, with its line and the property that
would catch it going wrong, or the reason why none does, is listed under `hazards` in
`PROJECT.json`.

## 2. Modules

| Module | Models | Kind |
|---|---|---|
| `HidTransaction` | the keyboard, the kernel's queues and the steps of `raw_transaction` | component |
| `KeymapSync` | `sync_keymap_command_with_config`, any number of runs; EXTENDS `HidTransaction` | component, composed |
| `ApplyPromise` | what an apply promises | abstract specification |
| `FirmwareNotice` | `watch_command`, `hotplug_command`, `notify_once` | component |
| `FlashFirmware` | `flash_firmware_command` and the boards, volumes and firmware it works on | component |
| `Overlay` | the UI state of the layer viewer and its handlers, as functions | algorithm |
| `LayerViewer` | keyboards, the kernel's buffers, reader threads, the channel and the GTK thread; EXTENDS `Overlay` | component, composed |
| `MinecraftAuth` | `ensure` and `logout` of one account, the servers and the user | component |
| `Keycodes` | `resolve_keycode`, `describe_keycode` and the macro buffer, both ways | algorithm |
| `KeyLabels` | the editor's legends, labels and tap-hold entries; EXTENDS `Keycodes` | algorithm |
| `KeymapEditor` | the editor's window, `snapshot-live`, the file and the keyboard; EXTENDS `KeyLabels` | component, composed |
| `MCKeymapSync`, `MCFirmwareNotice`, `MCFlashFirmware`, `MCLayerViewer`, `MCMinecraftAuth`, `MCKeymapEditor` | constants for TLC | model checking |
| `KeymapSyncProofs`, `FirmwareNoticeProofs`, `FlashFirmwareProofs`, `LayerViewerProofs`, `MinecraftAuthProofs` | theorems about the module of that name | proofs |
| `KeymapTurnsProofs` | theorems about runs of `KeymapSync` that come in turn; EXTENDS `KeymapSyncProofs` | proofs |
| `KeyLabelProofs`, `KeymapEditorProofs` | lemmas about `Keycodes` and `KeyLabels`, theorems about `KeymapEditor` | proofs |

### HidTransaction and KeymapSync

A report is a record `[op, at, val]`: the command, the page or storage cell it
names, and the value it carries. Cells stand for keys (layer, row, column), layout
options, and 28-byte chunks of the macro buffer; values are opaque. `toDevice` is
the FIFO of requests on their way, `queue[p]` the kernel's buffer of the
descriptor of process `p`. `Handle` is the keyboard taking a request: it changes
`reg` and broadcasts the answer to every open descriptor with room, or the answer
is lost. `Matches` is `response_matches_request`; a macro write is recognised by
offset and size only, as in the code.

A run goes through four stages, one open descriptor each:

| Stage | Code | Steps |
|---|---|---|
| `probe` | `via_devices` -> `via_protocol` | one query; a run whose probe fails ends as `skipped`, the command has nothing to do and succeeds |
| `compat` | `firmware_status` at line 1236 | the status pages; another ABI ends the run as `failed` |
| `keymap` | `sync_keymap_for_device` | the status pages again, on the descriptor used for writing; then, per key: read, compare, write |
| `via` | `sync_via_state_for_device` | layout options, then the macro buffer: read a group, compare it, write it, read it back |

`run[p]` holds the stage, the step, the position and whether a difference was
seen; `Ask`, `Retry`, `Skip`, `Accept` and `TimeOut` are the turns of the loop in
`raw_transaction`; `AfterPage`, `AfterRead`, `AfterWrite`, `AfterVerify` say where
an answer takes the run. `Replace` swaps the keyboard for another at the same
path. `replaced` and `solo` are history variables that only properties read:
which runs a replacement concerns, and whether runs have come one after another.

Abstracted: the macro count and buffer size queries that precede the macro buffer
(constants of a firmware), the error of `desired_macro_buffer` when the configuration's
macros do not fit them (`main.rs:1897-1916`; here every configuration fits, and one that
does not ends the run at that step as a time-out would), the packing of values into
bytes, and messages. One keyboard is modelled; `sync_keymap_command_with_config` treats several one after
another over separate descriptors.

### ApplyPromise

The storage only ever moves towards the configuration, and an apply that reports
success finds all of it there. `KeymapSync!Promise` instantiates it with the
storage restricted to the cells the configuration governs and with the outcome of
each run; everything in flight is hidden.

### FirmwareNotice

`Poll` is a turn of the loop in `watch_command`, `Command` a hotplug command run by
hand. Both go through `Enumerate`, `Probe` (one `device_status` at a time, keyboards
coming and going in between), `Recollect`, `Conclude`, `Sync`, and then `Report`
(the duplicate check of `notify_once`), `Rename`, `Notify`, or `Clear`. `Sync` is the
apply of `KeymapSync` taken as one step with the outcomes that module allows.
`Crash` ends a process anywhere; the service manager restarts the daemon, which
then has seen no keyboard yet. `told` is a history variable: the user was notified
of what the file now says. `troubles` records which of the following happened, so
that each property can say under what circumstances it holds:

| Trouble | Meaning |
|---|---|
| `crash` | a process died |
| `fail` | an enumeration, a status or an apply failed, or replacing or removing the state file |
| `unread` | the state file was there and could not be read, which counts as not reported |
| `undelivered` | the notification was not shown: `notify-send` or `osascript` failed or could not be started, and the message only went to standard error, or the platform has no notifications |
| `swap` | a keyboard was plugged in at a path the daemon still believed taken |
| `refused` | the apply failed because an incompatible keyboard was connected |
| `overlap` | two processes reconciled at once |

A firmware version stands for the pair of ABI and runtime hashes; `Compatible` are
those with the packaged ABI. The expected hashes in the notification key are
constants of a build and left out.

### FlashFirmware

A board (one half of a keyboard) is away, a HID device, jumping, in its bootloader,
or starting. `mount[b]` is the path where its volume is seen: `Volumes` is what
`bootloader_mounts` returns, a set of paths that say nothing of boards. `firmware[b]`
is the half the firmware was built for and whether it is the packaged one; a board
reports the half of its firmware, not the half it is. `Side[b]` is the latter, and
only properties read it.

| Step | Code |
|---|---|
| `Start` | half chosen, flash confirmed, `mounts_before` taken |
| `List`, `Probe`, `Decide` | `request_silakka54_bootloader_jump`: one enumeration, one status per board, exactly one candidate |
| `Jump` | `silakka54_bootloader_jump`: carried out and acknowledged, carried out and not acknowledged, or failed |
| `TakeNew`, `FallBack` | `wait_for_new_bootloader_mount` |
| `TakeAny`, `GiveUp` | `wait_for_bootloader_mount` |
| `Copy` | `fs::copy` and `sync_firmware_copy`; the file may reach the board and the copy still fail, or reach none and succeed |
| `Verify`, `VerifyTimeOut` | the loop over `collect_statuses` |
| `Boot` | the firmware jumps 100 ms after its answer |
| `Mount`, `Restart`, `Plug`, `Unplug` | automounter, bootloader and user, outside the code |

`Jump` takes the transaction of `HidTransaction` as one step with all its outcomes.
Descriptors are kept open between `Probe` and `Jump`, as in the code, so a board that
leaves and comes back cannot be asked on the old one (`held`). A volume mounted
under another name than `RPI-RP2`, as automounters do with a second one of the same
label, is not seen (`is_bootloader_mount`), which is a `Mount` that does not happen.
`troubles` is history again:

| Trouble | Meaning |
|---|---|
| `overlap` | a run was started while another was under way |
| `stray` | a volume appeared that some run had not asked for |
| `pulled` | a board was pulled during a run |
| `late` | a wait ended while a board was still on its way |
| `blind` | a run wrote to a volume it had fallen back on |
| `fault` | an operation failed, or a board did not answer |

### Overlay and LayerViewer

`Overlay` has the state `UiState` and, for each kind of event, the function that
`handle_event` applies to it: `PressKey` and `Touch` (`key_profile`, `touch_profile`),
`ReleaseKey`, `DropDevice`, `SetLayer`, `Activity`, `Hide`, `Announced`. Handlers that
bring up the overlay first poll the compositor; what it answers is a parameter, and
`NoAnswer` stands for a failing `hyprctl`. A deadline is none, ahead or passed.

In `LayerViewer` a keyboard is a profile plugged in at a node; `input[d]` and
`reports[d]` are what the kernel holds for the reader of node `d`, `down[d]` and `hw[d]`
what is true of the keyboard. A reader is `none`, `open`, or `dead`: its keyboard is
gone and it has not noticed. Then its node may already belong to another keyboard.

| Step | Code |
|---|---|
| `Watch` | a turn of `watch_input_devices` or `watch_layer_devices` that starts a thread: the node is put in the active set, a layer reader first asks for the layer |
| `ReadKey`, `ReadReport` | the loops of the readers |
| `Quit` | a reader's read fails: an input reader sends the disconnection, a layer reader just ends, and the node leaves the active set |
| `Hear` | `watch_hyprland_monitors`, as far as submaps go |
| `Control` | another viewer started with `--activity` or `--hide` |
| `Handle` | the GTK thread takes an event from the channel |
| `Pass`, `Expire` | the auto-hide deadline passes; it is looked at when the channel is empty |
| `Plug`, `Unplug`, `Press`, `Release`, `Shift`, `Switch` | user, keyboards and compositor, outside the code |

A full input buffer keeps the newest event (evdev), a full report buffer drops it
(hidraw). `read`, `missed`, `unheard` and `reused` are history: the keys whose press the
reader could see, the buffers that overflowed, whether the submap was never heard of,
and the nodes given to another keyboard before the reader of the first had noticed.

Abstracted: the connection to Hyprland is taken as made from the start, and
`query_current_layer` as answered, although a failing write of the query is ignored
(`main.rs:1301`). Scan, open and query are one step of `Watch`: a keyboard that goes away
in between makes the open fail (`main.rs:1281`, `1403`), which gives back the node as if it
had not been scanned yet; that one of another profile takes its place within a scan, and is
then read for the first one's profile, is not among the states. The overlay may be visible at the start although it
is suppressed (`build_ui` shows it unless `--hidden`): only what input brings up
(`autoHide`) is what the properties are about.

### MinecraftAuth

A run of `ensure` is numbered; the token the server issues to it, the identity it makes
up and the inode it creates carry that number, so that the origin of everything saved
can be told.

| Step | Code |
|---|---|
| `Start`, `Load` | `load_state`, `ensure_device_identity`: an unreadable state ends the run |
| `Refresh` | `refresh_live_token`: any error falls back on a login |
| `RequestCode`, `Poll`, `GiveUp` | `device_code_login`; `Answer` and `Late` are the user and the clock |
| `Exchange` | the requests from the device token to the profile |
| `Create`, `Fill`, `Rename` | `save_state`: open and truncate, write, rename |
| `Logout` | removes the state file |
| `Crash`, `Revoke` | a process dies; the server stops accepting tokens |

The server may keep the old token on a refresh or revoke it; it may issue a token and
the answer be lost. `tmp` and `file` name inodes, so that two runs writing the same
temporary file behave as on disk: one truncates what the other has open, and renames
what carries the name. `Fill` includes `set_permissions`
(`main.rs:283-289`), which does not touch the contents; its failure ends the run after
the write, as a failing rename does. Such overlaps do leave a torn state file (`StateLoads`
is about runs one at a time), which ends the next run with a parse error. A logout that meets a
run is undone by the run's save.

### Keycodes, KeyLabels and KeymapEditor

A key text is a record of function, first arguments and tap, see `Keycodes`; a text's
spelling is left out, what it is translated to is not. `Resolve` and `Describe` compute
with 16-bit codes; where the code has `|`, `WithBit` and `Mask` set a bit that may be set
already, so a layer number may spill into bits of another range as it does there.
`EncodeMacros` and `DecodeMacros` are the macro buffer in bytes, between a configuration's
macros and the buffer of the keyboard. A macro is its bytes; the textual form of a macro's
actions is not modelled. `Split` is the `split` of `decode_macro_buffer`: the i-th piece is
what lies between one NUL and the next (`NulAt`), the ends of the buffer counting as NULs.
`KeyLabels` holds the editor's
three tables and what it makes of them; the labels of one backquote, comma, semicolon,
quotation mark, brace or underscore are spelled out (`grave`, `comma`, ...).

The catalog of QMK (`Code`, `Rank`), the texts that are numbers or identifiers, and the
editor's names of letters (`Alnum`) are constants, so that what is proved holds for any
catalog. Their assumptions say what the tables need: codes have 16 bits, QMK knows
`KC_TRNS` and every keycode the editor writes, and no keycode goes by one of the editor's
labels; that the macro capacity is a byte, as it is read from the keyboard, and the buffer
not empty. `Accepts` is what `validate_configuration` demands of layers, keys, terms and
macros, which have to be ASCII without NUL and no more than the capacity.
Names of layers hold no parenthesis.

`KeymapEditor` has the file, its temporary file, the keyboard, the window and
`snapshot-live`. A GTK handler is one action up to its first file operation, since the
main loop runs one at a time:

| Step | Code |
|---|---|
| `Type`, `TypeTerm` | entries of the window, not yet looked at |
| `Assign` | `on_key_press`, `on_quick_label` |
| `Select`, `Shift`, `Validate`, `Apply` | handlers that collect the entry first |
| `ApplyTapHold` | `on_apply_tap_hold`, which collects nothing |
| `Reload` | `on_reload` |
| `Save`, `ReadBack`, `Open`, `Write`, `Rename` | `persist_state`, `save_configuration` |
| `ApplyDone`, `ApplyFails` | the `silakka54-sync apply` the editor waits for: the promise of `KeymapSync` in one step, or any part of the keys and of the macro buffer its start |
| `Snapshot` | `snapshot_live_command` up to its file operations; it reads the keyboard in one step |
| `EditByHand` | an editor of text |

`fs::write` opens and truncates the file (`Open`), then writes (`Write`); `target[p]` is
where the file that `p` has open is by then. It is the temporary file until one process
renames that: the other then writes to `configuration.json` itself, in place, or to nothing
once that has been replaced as well. What is written goes over what the file holds
(`Over`): a torn one is made whole, while over a whole one a shorter version leaves the rest
of the longer, a torn file again.

Folded: `Reload` reads the file twice (`load_layers`, `load_qmk_settings`, `main.rs:952-954`)
and gives up when the names of the settings have changed (`961-975`); here the names are
fixed and it reads once. `snapshot_live_command` reads the configuration twice and the
keyboard key by key; `Snapshot` does both in one step. A window or a snapshot mixed from
before and after a change of the file or the keyboard in that moment is therefore not
among the states.

Every layer has the keys of one instance; combos and all settings but QUICK_TAP_TERM
and TAPPING_TERM are left out, and only the first is edited.

## 3. Runs

All passing runs are exhaustive within their bounds.

| Run | Instance | Shows |
|---|---|---|
| `same` | 2 runs, 1 key, 1 layout option, queues of 2, 1 report in flight, fair scheduling | `TypeOK`; `ConvergedOnSuccess`: success means converged, for good; `KeepsPromise`: the runs implement `ApplyPromise`; `EveryRunEnds` |
| `turns` | 3 runs of different configurations, 1 key, 2 macro chunks, queues of 4, runs in turn | `LastRunWins`: leftovers of earlier runs, timed-out ones included, do no harm |
| `replug` | 2 runs, 2 ABIs, the keyboard replaced at any moment | `KeymapWritesCompatible`, and the strengthenings the proofs use, `CompatibilityInv` and `ConvergenceInv` |
| `retry` | 1 run without deadline, 1 key, 2 macro chunks, queues of 3 | `RetryMasksLoss` |
| `viareplug` | 1 run, 2 ABIs | violates `ViaWritesCompatible`, see section 6 |
| `notice` | 1 daemon, 1 hotplug command, 2 ports, 2 firmwares, 2 plugs, 1 crash or failure (reading and notifying included), 2 attempts, fair scheduling | `TypeOK`, `NeverToldTwice`, `SuppressedWasTold`, `NoticeInv`; `Reconciled`, `MismatchIsReported` |
| `notice_beside` | the daemon, fair scheduling | violates `MismatchIsReportedBesideDrift`, see section 6 |
| `flash` | 1 user flashing twice, the two halves, 2 paths, 2 boards plugged in or pulled, every combination of initial firmware | `TypeOK`, `OwnHalf`, `VerifiedIsFlashed`, `FlashInv`; under fair scheduling `FlashSucceeds` |
| `flash_blind` | 1 flash, the two halves, nothing pulled | violates `ConnectedIsFlashed`, see section 6 |
| `viewer` | 2 keyboards sharing 1 node, 1 key, 2 layers, buffers and channel of 1, fair scheduling | `TypeOK`, `OverlayHidesWhenUnused`, `OverlayShownOnPurpose`, `HeldIsDown`, `SubmapAgrees`; `GoesAway`, `StaysAway`, `LayerIsShown` |
| `editor` | every label of the editor and every kind of keycode, 1 key, 2 layers, 2 macros in 3 bytes, 1 input, 1 snapshot | `TypeOK`, `TapHoldUntouched`, `EditsSurvive`, `AppliedIsShown`, `SnapshotIsFaithful` |
| `mcauth` | 2 processes, 1 user, 3 runs, 1 crash or failure, fair scheduling | `TypeOK`, `StateLoads`, `SavedTogether`, `SavedTokenWorks`, `LoginOnlyWhenNeeded`, `DeviceKept`; `EveryEnsureEnds` |

Runs of `KeymapSync`, `FlashFirmware`, `MinecraftAuth` and `KeymapEditor` switch
deadlock checking off because every run ends and nothing need happen afterwards. Runs of
`FirmwareNotice` and `LayerViewer` keep it on: the daemon can always poll, and the
viewer has something to read, to handle, or to wait for.

Why the bounds are enough. Two runs are what it takes to mistake an answer for
one's own; a third adds a predecessor's predecessor, which is what `turns` is
about. One key and one layout option exercise both kinds of cell (written blind;
written and read back) and the change of stage; two macro chunks make a group
whose comparison spans several transactions. Two values tell the configuration
from anything else. Queues of 2 to 4 hold a request, its duplicate and an older
leftover. `QueueDepth` is a real limit as well: hidraw drops reports when a
descriptor's buffer is full, and a smaller one only drops sooner. `MaxInFlight`
throttles the writer; losing a request (`LoseRequest`) covers what a longer queue
would have lost. `turns` leaves out states in which runs overlap
(`CONSTRAINT OneAtATime`), about which `LastRunWins` says nothing; its four requests in
flight are the most for which `LastRunWins` holds with its one status page (section 5). In
`FirmwareNotice` two ports give a keyboard beside another, and two versions the
packaged firmware and one that does not match;
two plugs and one fault are enough for a second notification to follow a first
one, and 2 attempts for one retry (the code has 4). In `FlashFirmware` the second flash
finds what the first one left (a board in its bootloader, a volume, a board without
packaged firmware), two paths give a leftover volume beside a new one, and two moves
a board pulled and another one plugged in, or one pulled and back. Runs that overlap
are left to the proofs, which hold for any number of them. In `LayerViewer` one node is
what two keyboards need to come one after the other; buffers of one overflow at the
second event; a channel of one puts an announcement before, after or between any two
events of the readers, since `AgreesWith` and `WillBeHeld` look at all that is under way.
One of the two keyboards has a base layer only, for which the overlay is off. In
`MinecraftAuth` two of three runs can overlap and a third finds what they have left; one
fault hits any step. In `KeymapEditor` a state has one key, so that all labels can be
tried one by one: the properties compare what a key is with what becomes of it, key by
key. The layers are named as in the repository, and crossed: one layer's id is another
one's identifier, or another one's name. The keycodes cover every range and
edge of `describe_keycode`. Three bytes hold macros at the capacity of two, below it,
empty ones, and one that is not terminated. The theorems of section 5
do not depend on any of these bounds.

## 4. Fairness

- `FairSpec` of `KeymapSync`: the keyboard keeps handling requests, and a run keeps
  executing. `raw_transaction` is a loop over a monotonic deadline with bounded
  waits, so a run that is scheduled reaches the deadline: `WF(TimeOut)` is the
  clock. It does not assume that any answer arrives.
- `RetrySpec`, for `RetryMasksLoss` only: no deadline, and of the repetitions of one
  request not all are lost (`SF(Deliver)`). Without that assumption no protocol over
  this line could succeed; with it, the property says that the retry is enough.
- `FairSpec` of `FirmwareNotice`: a process that runs keeps running. Nothing obliges a
  keyboard to come or go, a user to run a command, or an operation to fail.
- `FairSpec` of `FlashFirmware`: a run that is under way keeps running (all its waits
  have deadlines), and a board that has acknowledged jumps (`wait_ms(100)`,
  `bootloader_jump()`). Nothing is assumed of automounters and users; where they are
  too slow for a deadline, that is the trouble `late`.
- `FairSpec` of `LayerViewer`: every reader thread, the GTK main loop and the clock run
  on. The channel of the code is unbounded; with the model's bound the thread that hears
  the compositor would compete for its only place, hence `SF(Hear)`. Nothing obliges
  users and keyboards. `GoesAway` and `LayerIsShown` therefore say what holds once they
  come to rest (`AtRest`); `StaysAway` does without.
- `FairSpec` of `MinecraftAuth`: a run goes on and time passes. That the servers answer
  is an assumption: the HTTP client has no timeout of its own, so a request that is never
  answered would keep a run for ever. The user need not answer.
- `KeymapEditor` has no liveness property; its `Spec` has no fairness.

## 5. Proofs

`tlapm` checks the eight proof modules completely, for any number of processes, cells,
pages, groups, keyboards, firmware versions, boards, paths, keys, layers, accounts and
runs, and queues and buffers of any length. The assumptions are those named in the modules:
`ConstantsAssumption`, `SyncAssumption` (pages and cells are different things, the
status includes the page with the hash, groups are not empty, no cell is both a
key and VIA state), `NoticeAssumption`, `FlashAssumption` (finitely many boards
and paths, every board is some half), `OverlayAssumption` and `ViewerAssumption` (0 is
a layer, every profile describes at least one layer, no keyboard is none),
`AuthAssumption` and `ContentsAssumption` (no file and torn contents are no contents),
and `CatalogAssumption`, `LabelAssumption` and `EditorAssumption` (the tables, see section
2; every start has a whole configuration and 16-bit codes). TLC evaluates them in every
run. Two theorems have a premise of their own, `ShortLine` and `FewLayers`; section 6 says
what happens without them.

| Theorem | Statement |
|---|---|
| `TypeCorrect` | `Spec => []TypeOK` of `KeymapSync`, including that every run stands at a page, group and cell that exist |
| `KeymapWritesSafe` | `Spec => []KeymapWritesCompatible` |
| `Converges` | `Spec => []ConvergedOnSuccess` |
| `Refines` | `SameConfiguration /\ ~ MayReplug => (Spec => KeepsPromise)` |
| `NoticeTypeCorrect` | `Spec => []TypeOK` of `FirmwareNotice` |
| `NoticeInvariant` | `Spec => [](TypeOK /\ NoticeInv)` |
| `NobodyToldTwice` | `Spec => []NeverToldTwice` |
| `SuppressedOnlyIfTold` | `Spec => []SuppressedWasTold` |
| `FlashTypeCorrect` | `Spec => []TypeOK` of `FlashFirmware` |
| `FlashInvariant` | `Spec => [](TypeOK /\ FlashInv)` |
| `OwnHalfKept` | `Spec => []OwnHalf` |
| `VerifiedIsRight` | `Spec => []VerifiedIsFlashed` |
| `CompatibilityInvariant`, `ConvergenceInvariant` | `Spec => []CompatibilityInv`, `Spec => []ConvergenceInv` of `KeymapSync` |
| `ViewerTypeCorrect` | `Spec => []TypeOK` of `LayerViewer` |
| `HidesWhenUnusedAlways` | `Spec => []OverlayHidesWhenUnused` |
| `ShownOnPurposeAlways` | `Spec => []OverlayShownOnPurpose` |
| `HeldIsDownAlways` | `Spec => []HeldIsDown` |
| `SubmapAgreesAlways` | `Spec => []SubmapAgrees` |
| `AuthTypeCorrect` | `Spec => []TypeOK` of `MinecraftAuth` |
| `StateAlwaysLoads` | `Spec => []StateLoads` |
| `SavedTogetherAlways` | `Spec => []SavedTogether` |
| `SavedTokenAlwaysWorks` | `Spec => []SavedTokenWorks` |
| `LoginOnlyWhenNeededAlways` | `Spec => []LoginOnlyWhenNeeded` |
| `DeviceAlwaysKept` | `Spec => DeviceKept`, an action property |
| `TurnInvariant` | `ShortLine => (Spec => []TurnInv)` of `KeymapSync` |
| `LastRunWinsInTurn` | `ShortLine => (Spec => []LastRunWins)` |
| `TypeCorrect`, `EditorInvariant` | `Spec => []TypeOK`, `Spec => []EditorInv` of `KeymapEditor` |
| `EditsSurvived` | `Spec => EditsSurvive`, an action property |
| `SnapshotInvariant` | `Spec => []SnapshotInv` |
| `SnapshotKeeps` | `Spec => SnapshotIsFaithful`, an action property |
| `ReplacementIsOneStep` | `~IsConfig(Torn) => (Spec /\ []~Overlap => []WholeInv /\ ReplacedAtOnce)` |
| `NamesInvariant` | `Spec => []NamesInv` |
| `TapHoldGivesBack` | `Spec => []TapHoldUntouched` |
| `SaveInvariant` | `Spec => []SaveInv` |
| `SavedIsApplied` | `FewLayers => (Spec => AppliedIsShown)`, an action property |

*No write to foreign firmware.* That writes on their way match the ABI is not
inductive: a run must not start writing on the word of an old answer.
`CompatibilityInv` adds that a hash answer still in an open descriptor's buffer is
the connected keyboard's (a replacement empties the buffers and kills the
descriptors), and that a run which has got past the hash page on its open
descriptor did see the expected one.

*Convergence.* `ConvergedOnSuccess` talks of finished runs; what keeps it are the
three parts of `ConvergenceInv`. With one configuration, everything on its way to
the keyboard is as desired, whoever sent it (`WritesAreDesired`), so duplicates
do no harm. Therefore an answer that says "as desired" stays true however late it
is read, and whoever asked (`AnswersHold`): a cell that has the desired value
keeps it. Therefore what a run has seen or made as desired is as desired
(`SettledCellsHold`). An answer that says "not as desired" may be stale; it causes
one superfluous write. Nothing of this depends on telling one's own answers from
those of others, which the code cannot.

*Refinement.* A step of the keyboard that handles a write is `ApplyPromise`'s
`Write`; the step that ends a run is `Succeed` or `GiveUp`, and `Succeed` has its
guard from `ConvergenceInv`; every other step stutters. A replaced keyboard breaks
the promise, whence the assumption.

*Notification.* `NeverToldTwice` and `SuppressedWasTold` compare the file with what
the user saw at moments when a process stands at a certain step. `NoticeInv` says
it for all moments: as long as no overlap has occurred at most one process is busy
(`OneAtOnce`), and who is about to notify has just put the mismatch on record
(`JustRecorded`). As long as the file can be read, too, who is about to replace it has
something new to say, and nobody has been told of what is about to be shown
(`ReportsAreNew`); without crashes and lost notifications, but with unreadable files, what
is on record has been told or is just being told (`RecordIsTold`). Every one
of the qualifications of `NeverToldTwice` and `SuppressedWasTold` is needed: without it TLC
finds the property violated in the instance of the run.

*Flash.* `OwnHalf` is about boards, and a run knows only paths. `FlashInv` says what
the one has to do with the other: a board held open since its status still has the
firmware it reported (`HeldReports`), so the board asked is of the run's half, as long
as `OwnHalf` has held so far (`AskedIsOfTheHalf`); a volume that is new to a run is
that of the board it asked, as long as no stray one appears (`NewIsAsked`). So the
file goes to the board that was asked, which keeps `OwnHalf`. `VerifiedIsFlashed`
then follows at the step that verifies: any board reporting the half is of that half,
and there is only one. The last premise, `OneOfEach`, is needed: beside a second
keyboard of the same half that is up to date already, the code would take that one's
report for the flashed one's. The proof goes run by run (`Sound(run[p])`): the steps
of a run to sound memories (`RunStep`), those of the world that leave every run sound
(`WorldStep`, `BoardMoves`).

*The overlay.* Every handler, applied to any UI state that is `Good` with any answer of
a poll, gives one that is (`HandledGood`): the two properties of the overlay do not
depend on what is in the channel. `TypeOK` adds that what a handler takes is an event.

*Held keys.* `HeldIsDown` is about what will be known when everything under way has been
handled, so it survives an event's way from the kernel through the channel into the UI
state, which only moves it along. `KeysOK` adds what makes the steps at both ends work:
the kernel holds only key events of the node, a node without an open reader has nothing
under way that counts, and beside a dead reader of another profile the node counts as
reused. Pressing and releasing append at one end; a reader that quits appends the
disconnection that makes up for releases nobody saw.

*The submap.* `SubmapInv` says where the truth is to be found: in the last announcement
not yet read, else in the last one in the channel, else in the UI state. A poll can only
put into the UI state what an announcement under way will confirm or replace.

*The saved token.* Runs number their tokens, so those of different runs differ
(`Numbers`). What is written under the temporary file's name is not the state file
(`Inodes`), a token is in one inode at most, and before it is there nobody has loaded it,
so nobody can have it revoked by a refresh (`Unused`). `Carried` then says: tokens on
their way are accepted, and if the saved one no longer is, a run is about to replace it.
Between runs there is none, hence `SavedTokenWorks`, for overlapping runs too.
`SavedTogether` follows from `Origin`; `StateLoads` and `DeviceKept` from `Alone`, which
describes the only run under way as long as no two have overlapped.

*The last run wins.* With a configuration per run, an answer that says "as desired" need
not stay true: a write of an earlier run may still be on its way. What saves the last run
is that the line is a queue and its own probe goes through it. A run writes for the first
time after its probe, the status pages on two descriptors, and one read. A probe still in
flight has all later requests of its run behind it (`ProbesAreFollowed`, counted by
`Written`), and on a line no longer than that (`ShortLine`) no write can be among them
(`NoWriteBehindProbe`), a repeated probe included. So when a probe is answered the writes
of all earlier runs have been handled or lost (`ProbeClearsWrites`). From then on the
writes in flight are the run's own (`OwnWritesInFlight`), what its descriptors have
buffered since is true of the keyboard (`OwnAnswersHold`), and what it has settled stays
(`OwnCellsHold`). None of these is inductive without the ones before it. `TurnNext` takes
the steps: the keyboard's, the replacement, the start of a run, and those of a run, which
either leave its position (`TurnQuiet`), write (`TurnWrite`) or accept an answer
(`TurnAccept`). `LastRunWins` is `OwnCellsHold` for a run that is through.

*The editor's files.* `EditorInv` adds to the types that whoever has begun to replace the
file has a whole configuration for it: otherwise a `Write` into a file that the other
process has moved would put anything there. `EditsSurvived` then needs that collecting
twice is collecting once, and that a refresh shows what the key holds.

*Snapshots.* `SnapshotInv` carries what was read through the three steps of the
replacement, past an editor that truncates and renames the same temporary file: under the
name of `snapshot-live` there is only what it is about to write, or a torn file, wherever a late
write in place ends up. That this
keeps the keys is `DescribeResolves`: whatever `describe_keycode` makes of a 16-bit code,
`resolve_keycode` takes back to that code or refuses, range by range; for mod-taps, that a
mask is made of the modifiers it is described by (`MaskOfMods`). That it keeps the macros is
`MacrosBack`: a buffer whose macros are all terminated and within the capacity is what
`desired_macro_buffer` makes of the macros read from it, and the empty ones that
`decode_macro_buffer` drops at the end are the zeros it is padded with. The i-th NUL is the
least position with i NULs up to it (`NulFound`), so the pieces come one behind the other
(`NulOrder`) and each of them, with its NUL, is the buffer between two NULs; their
concatenation is then the buffer up to a NUL, piece by piece (`PiecesJoined`), and behind the
last piece that is not empty there is nothing but zeros (`PieceEmpty`, `PieceFull`).

*The replacement of the file.* Truncating, writing and renaming a temporary file is meant to
look like one step. It does as long as the editor and `snapshot-live` are not both between
the truncation and the rename (`Overlap`): `WholeInv` says that the file is whole, the
temporary file that of its writer, and what the writer has open still the temporary file,
so that a rename moves what its process was to write,
and nothing else but an edit by hand changes the file (`ReplacedAtOnce`). The hypothesis that
`Torn`, which stands for a file cut short, is no configuration is what the model value means
in the runs. The code does not keep the two apart, and with overlap the theorem's conclusion
is false: the other properties of the editor do without it.

*Tap and hold.* `TapHoldUntouched` relates the window to the file, whose layers must bear
the same names: `NamesInv`. The rest is about tables. `LegendBack`: the label a keycode is
shown by is written as a name of the same keycode, if no other keycode has that legend.
A modifier is found in the list under the call it came from, a layer under the identifier
of its name.

*Saved and applied.* `SaveInv`: from the save on the window is as it was and its labels are
valid, and under the editor's name there is what `canonical_key` makes of them, in the
temporary file, in the file, and until the apply. `ShownIsDone` then goes through what a
text may be, with `LabelWritten` for the labels: what is written for a label has that
label as its legend.

Induction. The induction theorems of the library take a predicate as a parameter, which no
installed prover can instantiate. Where a buffer of any length is at stake the proofs use
that a set of numbers which is not empty has a least element (`LeastExists`), for a set
written out on the spot. `UpTo` derives induction over a set of numbers from it, and
`Recursion` that the recursive function behind `FlattenSeq` exists, so that `FlattenSteps`
may compute with it.

Only model-checked: the liveness properties, since neither `ENABLED` nor fairness is within
the prover's reach: `EveryRunEnds`, `RetryMasksLoss`, `Reconciled`, `MismatchIsReported`,
`FlashSucceeds`, `GoesAway`, `StaysAway`, `LayerIsShown` and `EveryEnsureEnds`. Every safety
property of a run that is to pass is a theorem.

## 6. What the models found

1. `viareplug`: the stage that writes layout options and macros opens the keyboard
   anew (`main.rs:1257`) and does not look at its firmware, unlike the keymap stage
   (`main.rs:2146`). A keyboard replaced just before gets writes meant for another
   ABI.
2. `notice_beside`: when an incompatible keyboard is connected beside one whose live
   state has drifted, the apply fails as a whole and `hotplug_command` returns before
   the notification (`main.rs:1089`); the daemon has counted the paths as seen, so
   the user is not told for as long as the keyboards stay.
3. `flash_blind`: `wait_for_new_bootloader_mount` takes only a volume that was not there
   before, but after 30 s without one `flash_firmware_command` goes on to
   `wait_for_bootloader_mount` (`main.rs:1319`), which takes the only volume there is. A
   half left in its bootloader is then written in place of the connected half that was
   asked to jump and that the prompt speaks of. It does not take a slow automounter:
   a second volume labelled RPI-RP2 that gets another name is never seen.

Where a property had to be qualified, the qualification is itself a result; these are
limits of the code, none of them contradicted by its documentation:

- `notify_once` renames the state file before it notifies (`main.rs:1182-1184`): a
  mismatch whose notification is cut off by a crash is suppressed from then on, and so is
  one whose notification was not delivered, of which `request_user_prompt`
  says nothing to its caller (`main.rs:2226-2255`); the command reports success
  (`SuppressedWasTold` holds without either). A state file that cannot be read
  (`main.rs:1172`) has the same mismatch notified again (`NeverToldTwice` holds while it can).
- The viewer's layer readers end without a word (`keyboard-layer-viewer` `main.rs:1292`):
  a keyboard unplugged on another layer keeps its overlay up until it is back
  (`GoesAway` asks for the layer keyboards to be plugged in), and a node reused by a
  keyboard of another profile too early may lose that one's held keys (`reused`).
- Two overlapping runs of `minecraft-auth` can leave a state file that does not load
  (`StateLoads`), since they share the temporary file.
- `LastRunWins` needs a short line (`ShortLine`): no more requests between the host and the
  firmware than a run makes up to its first write, which with the three status pages of the
  code are eight. A write to a hidraw device returns when the report has been transferred,
  so what is in flight is what the keyboard has received and not yet handled. The bound is
  tight: TLC finds that with one status page and one request more, the last of five runs in
  turn can succeed and a write of an earlier one take effect afterwards. A run that takes
  the answer to an earlier run's probe for its own, and the code cannot tell them apart,
  then has its own probe still in flight and may write behind it.
- The editor saves a layer by its name's identifier, whatever the layer's id
  (`WellNamed` in `AppliedIsShown`, which also leaves out layers named like a number). A
  layer named like a keycode is shown as the layer and resolves to the keycode, which
  `resolve_keycode` looks for first. `0x5220 | layer` has five bits for a layer, so that
  layers beyond the 32nd would collide (`FewLayers`; the keyboard has eight).
- The editor's tap-hold list turns right modifiers into left ones, has the first sixteen
  layers only, and finds no layer that is referred to by its name: another layer may be
  shown and written back, if that layer's name has such an identifier (`Lossy` in
  `TapHoldUntouched`). The label `(` is saved as it is, because
  `canonical_key` looks for a parenthesis before it looks at its table (`main.rs:1931`,
  `1951`): such a file is refused by `silakka54-sync`.
- `snapshot-live` may write texts that the editor then refuses to collect, such as
  `MT(MOD_LCTL|MOD_LSFT, KC_A)`; the window then stays on that key.

## 7. Plan

All modules of section 2 are done, in the order in which they stand there, with the
proofs of section 5. What would come next:

1. `MailGateway`: reservations and uncertain deliveries. Invariant: messages that may
   have been delivered within an hour never exceed the limit.
2. `Dp100`: request, marker and late answers; no mutation is sent twice; the 8-bit
   sequence number.
3. `DeepseekRefresh`: lock, catalog and state, and a crash between them.

## 8. Not modelled, and why

- `status`, `config`: they read and print.
- Configuration validation, apart from layers, keys, macros and terms: a pure function of one file. Nor
  the parsing of macro texts, a grammar.
- `layer`: one transaction; its duplicates are those of a write in `HidTransaction`, and
  nothing is promised of the layer that the user's own moves would not break.
- Of the viewer: placement on monitors, the single instance behind the control socket,
  drawing.
- Of the editor: combos, settings other than the two terms (saved and loaded alike),
  drawing. A fraction typed for QUICK_TAP_TERM passes the editor's comparison (`as_u64`
  gives nothing, `main.rs:1824`) and not `silakka54-sync`; terms are numbers in the model.
- `icloud-mail-mcp-gateway`, `pydp100`, `codex-deepseek-refresh`: Python tools with a
  core that could be modelled, see section 7; the programs above came first because
  more of the repository's own logic is in them.
- User interfaces (ags, sketchybar, the Hyprland plugin), `shrimpus-dashboard`,
  `silakka54-sound`, `personalize-sd-image`: sequential input and output with little
  state.
- `bunnings-powerpass-invoices`: a browser session behind one lock, whose course is the
  portal's.
- The ssd16xx driver: a busy wait of one board, about timing a model would have to invent.
- Nix expressions: evaluated, not run.

## Running

    tlc -config KeymapSync_same.cfg MCKeymapSync.tla
    tlc -config FirmwareNotice.cfg MCFirmwareNotice.tla
    tlc -config FlashFirmware.cfg MCFlashFirmware.tla
    tlc -config LayerViewer.cfg MCLayerViewer.tla
    tlc -config MinecraftAuth.cfg MCMinecraftAuth.tla
    tlc -config KeymapEditor.cfg MCKeymapEditor.tla
    tlapm KeymapSyncProofs.tla
    tlapm KeymapTurnsProofs.tla
    tlapm FirmwareNoticeProofs.tla
    tlapm FlashFirmwareProofs.tla
    tlapm LayerViewerProofs.tla
    tlapm MinecraftAuthProofs.tla
    tlapm KeyLabelProofs.tla
    tlapm KeymapEditorProofs.tla
