# DXVK-NVAPI in TLA+

DXVK-NVAPI implements NVIDIA's NVAPI (and NVOFAPI, for optical flow) on top of
DXVK, vkd3d-proton and Vulkan. Games load it as `nvapi64.dll` and call it from
several threads. A Vulkan layer beside it (`layer/`) implements NVIDIA Reflex
for `VK_NV_low_latency2` below it. These modules model the parts of it that keep
state between calls, check them with TLC and prove their safety properties with
TLAPS.

Paths below are relative to the repository; `src/nvapi/x.cpp` is the file of
that name in the repository's `src` directory. `PROJECT.json` maps each
definition to the lines it stands for.

## The system

| component | state it keeps | operations | what makes it correct |
|---|---|---|---|
| Frame id generator (`src/nvapi/low_latency_frame_id_generator.*`) | last driver id, hash map application id -> driver id, ring of the last 1000 application ids | number a frame, translate back, window test | map and ring describe the same frames; a frame keeps its id while it is remembered |
| D3D low latency device (`nvapi_d3d_low_latency_device.*`, entry points in `nvapi_d3d.cpp`, `nvapi_d3d12.cpp`) | a generator behind a mutex, the last sleep mode; a global map of such devices | markers, sleep mode, sleep, latency reports | no two frames share an id at the driver; a report names the frame the driver saw, or is cleared |
| Vulkan Reflex layer (`layer/vulkan_reflex_layer.cpp`) | flags read once; a context per instance and device; per device: the swapchain latency calls go to, the sleep mode to apply to the next one, the latest marker of each kind (two plain fields), out-of-band queues; **no lock** | instance and device creation, swapchain creation and destruction, sleep mode, sleep, markers, submit, present | a device with a context has what the layer needs and what was asked for; the remembered swapchain is alive and the newest; its mode is the stored one; sleepers wake; injected ids are of open frames, though a marker is neither written nor read in one step |
| Library lifetime (`nvapi.cpp`, `nvapi_globals.cpp`, `nvapi_adapter_registry.cpp`) | count of users, mutex, resource factory, registry of adapters | Initialize, Unload; every other entry point reads the registry without the mutex | a user that holds the library has a registry; a checked handle is still alive when it is used |
| Adapter registry (`nvapi_adapter_registry.cpp`, `nvapi_adapter.cpp`, `nvapi_output.cpp`, `nvapi_sys.cpp`, `nvapi_disp.cpp`) | lists of supported adapters and their outputs | filled once; look-ups by handle, id, name, LUID | ids and names lead back to the GPU or display they were given for |
| Vulkan low latency devices (`nvapi_vulkan_low_latency_device*.{cpp,h}`, `nvapi_vulkan.cpp`) | map VkDevice -> device (one of three implementations) behind a mutex that `Get` does not take; a semaphore per device, the sleep mode | InitLowLatencyDevice, Destroy, SetSleepMode, Sleep, ... | a semaphore has one owner; the application keeps the one it was given; each sleep returns |
| NVAPI objects of D3D12 objects (`nvapi_d3d12_device.cpp`, `..._command_queue.cpp`, `..._graphics_command_list.cpp`) | an object in the D3D12 object's private data, stamped with its creation time; a reset time and a mutex per class | GetOrCreate (look, lock, look again, create), Reset | nobody is given an object that is older than a reset that had ended; a fresh object is never replaced |
| CUDA shaders (`nvapi_d3d12_device.cpp`) | a static map shader -> shared memory size | create, destroy, launch | a shader is launched with the shared memory it was created with |
| NVOFAPI (`nvofapi*.cpp`, `src/nvofapi/`) | a resource factory shared by both APIs, each with a mutex of its own; per instance a session and a ring of 8 command buffers or lists; per image a view | create, initialise a session, register and unregister buffers, Execute, destroy | a buffer is free when it is recorded; a signalled fence means the work is done; nothing leaks |
| D3D11 device (`nvapi_d3d11_device.cpp`, `nvapi_d3d11.cpp`) | a global map from D3D objects to devices, behind a mutex, as the D3D low latency devices have one | GetOrCreate, calls passed to DXVK, Reset | objects of one driver interface share a device; a call reaches the interface of its object |
| Acceleration structure converter (`nvapi_as_convert.cpp`) | arrays the D3D12 description refers to, kept per thread and grown on demand | convert inputs of a build or of a query | D3D12 finds what this very call asked for |
| DRS settings (`nvapi_drs.cpp`, `util/util_drs.cpp`) | two statics: the list of settings, and what it and the settings' own variables say | get a setting | the answer is what the environment configured, by the documented precedence |
| Function table (`nvapi_interface.cpp`) | a memo behind a mutex | look a function up | not modelled |
| GPU queries (`nvapi_gpu.cpp`, `nvapi/nvml.cpp`) | NVML, as it was loaded; the structures are the application's | queries that NVML answers, in up to three calls of it | a query reports what NVML gave it during this call, and nothing older |
| other GPU information, HDR, NGX, Mosaic, environment, logging | none | stateless queries and conversions | not modelled |

How they interact:

- `NvAPI_Initialize` makes a registry, the last `NvAPI_Unload` destroys it. The
  registry's destructor resets the caches of the other components (D3D12
  objects, D3D11, D3D low latency devices, the Vulkan low latency factory), each
  under its own mutex, while `initializationMutex` is held. So do the
  destructors of the local registry of an Initialize that fails.
- The entry points of a game's threads come in concurrently with all this.
- D3D latency markers go through the D3D low latency device to DXVK or
  vkd3d-proton, from there as Vulkan calls to the Reflex layer and on to the
  driver. Vulkan games use `NvAPI_Vulkan_*`, whose `lowLatency2` implementation
  calls the layer.
- Drivers signal semaphores and run queues on their own.

What is hard about it: unlocked reads next to locked writes (library lifetime,
layer, `Get`), locks that cover a translation but not the call it is for, caches
keyed by addresses that are used again, destructors that run under other
components' locks, rings that wrap, semaphores somebody has to signal on every
path, and failures half way through a construction. `PROJECT.json` lists each
hazard at its line, with the properties that would show it going wrong or the
reason why none does.

## Modules

| module | models | extends |
|---|---|---|
| `FrameIdWindow` | abstract: the ids of the `ListSize` most recently numbered frames, one step per numbered frame | |
| `FrameIdGenerator` | map, ring and `nextLowLatencyDeviceFrameId` and their three operations | |
| `D3dLowLatencyDevice` | threads that use a generator through one D3D low latency device | `FrameIdGenerator`, instantiates `FrameIdWindow` |
| `ReflexLayer` | the layer's device context, the threads that call it, the driver below | |
| `ReflexSetup` | CreateInstance and CreateDevice of the layer, which make that context | |
| `ApiLifetime` | Initialize, Unload, the registry's destructor, handles | |
| `VulkanLowLatency` | factory, three kinds of device, entry points, semaphores | `ApiLifetime`: the teardown resets the factory |
| `D3dDeviceMaps` | the maps of the D3D11 and of the D3D low latency devices | `ApiLifetime`: the teardown resets the maps |
| `D3d12Objects` | GetOrCreate and Reset of the three D3D12 classes | |
| `CubinShaders` | the shaders of a device and the map of their shared memory | |
| `AsConverter` | the conversion of acceleration structures and the D3D12 calls that use it | |
| `OpticalFlow` | instances, sessions, images and rings of both APIs, and their queues | |
| `AdapterRegistry` | how a registry is filled and how its names are looked up | |
| `DrsSettings` | the sources of driver settings, and the calls that ask for one | |
| `GpuQueries` | the queries that NVML answers, and NVML's absence, age and failures | |
| `MC...` | definitions for TLC: settings, device offers, adapters, requests, symmetry | |
| `MCD3d12Calls` | runs `CubinShaders` and `AsConverter` | both |
| `MCSetup` | runs `AdapterRegistry`, `DrsSettings`, `ReflexSetup` and `GpuQueries` | all four |
| `ApiLifetime_proofs`, `OpticalFlow_proofs`, `D3d12Objects_proofs` | theorems about the module of that name | that module |
| `D3dLowLatencyDevice_proofs` | theorems, also about `FrameIdGenerator` | `D3dLowLatencyDevice` |
| `ReflexLayer_proofs` | theorems about the layer | `ReflexLayer`, `ReflexSetup` |
| `VulkanLowLatency_proofs`, `D3dDeviceMaps_proofs` | theorems about the module of that name | that module; instantiate `ApiLifetime_proofs` |
| `Lookups_proofs` | theorems about shaders, acceleration structures, adapters and driver settings | `CubinShaders`, `AsConverter`, `AdapterRegistry`, `DrsSettings` |

Each entry point that changes state, or that takes more than one atomic step, is
split where another thread can come in between: at a lock, at a driver call and
at each unlocked read that is used later. Where a thread is in the middle of a
call is the variable `call` (thread -> record with the step and the call's local
variables). `Next` is "some thread begins a call or takes the next step of its
call, or the environment moves". Variables that no line of the code keeps are
marked as history (`given`, `holders`, `newest`, `open`, ...) or as the driver's.
Calls that return early and change nothing are no steps. Definitions marked
`Mutant` are plausible errors for one definition each; no specification uses
them, and `PROJECT.json` names the property each one breaks.

### Frame ids (`FrameIdGenerator`, `D3dLowLatencyDevice`)

The driver wants frame ids that count up, an application's are arbitrary. A
thread that sets a marker translates its id under the lock
(`TranslateMarker`, the whole of `GetLowLatencyDeviceFrameId` with the eviction
of the slot's old frame) and then, without the lock, calls the driver
(`SendMarker`). A thread that reads reports fetches ids from the driver and
translates them one lock at a time (`FetchReports`, `TranslateReport`), all of
them cleared if one is not in the window. The driver's side, `driverFrames`, is
the set of pairs of driver id and application frame it got a marker for.

*Run `FrameIds`*: 3 frames (0 among them, as the ring is filled with 0) over a
ring of 2, so every frame can be forgotten and numbered again; 2 threads; batches
of 2; ids to 4 (the ring wraps twice). Checked: the map holds exactly the
frames of the ring (`GeneratorInv`); the driver never gets one id for two frames
(`OneFramePerId`); a frame gets a second id only after `ListSize` others
(`RenumberedOnlyWhenForgotten`); a batch that is returned names the frames the
driver saw, and one that is cleared had a reason (`ReportsAreTruthful`,
`ClearedOnlyForCause`); the sleep status is the driver's (`SleepStatusAgreesWithDriver`,
one thread sets the mode, the driver may refuse); and the whole implements
`FrameIdWindow` (`ImplementsWindow`). No fairness: all are safety.

### Reflex layer (`ReflexLayer`, `ReflexSetup`)

`context.swapchain`, `latencySleepModeInfo`, the markers `{id, ongoing}` and the
out-of-band queues, all without a lock. CreateSwapchainKHR is three steps (the
driver creates, the stored mode is applied, the swapchain is registered), with
the way back if the mode is refused; DestroySwapchainKHR two; SetLatencySleepMode
reads the swapchain, calls the driver, stores the mode; LatencySleep goes to the
driver or signals the semaphore itself; submit and present try one marker after the other, in the order of `Chain`.

A marker is two plain fields that one thread writes and others read: a data race, so
nothing orders its stores or its loads. A start is two steps, `StartMarker` and
`FinishStart`, which store `id` and `ongoing` in either order; an end is one store. A
reader takes the two loads in either order too (`TryMarker`, `ReadMarkerId`), so it may
see the flag of one frame with the id of another. `Marks` says which kinds of marker each
thread sets; markers of one kind are set one after the other.

Assumed: one thread creates and destroys swapchains and one sets the sleep mode
(`Does`). Driver handles are used again.
`GetLatencyTimingsNV` only passes on. Fairness: the driver signals the sleeps it
accepted, as the extension requires, and a thread goes on with the sleep it has
begun; nothing else.

*Run `ReflexLifecycle`*: 3 threads (swapchains; mode; sleep), 2 handles, modes
none, off and on, 2 sleeps: enough for the order create, destroy old, create
with the old handle of a resize. *Run `ReflexInjection`*: a thread that sets
markers of 2 frames (symmetric) and of three kinds (of the simulation, of an out-of-band
submit and of a present: one the chain begins with, one it falls back to, one it has for
presents only), and one that submits and presents on one queue, with every fallback allowed
and none. `InjectedFrameWasOpen`: the id is of a frame that was open during the call, or that
a start overlapping the call was replacing, which is what the code leaves possible; never
of another frame that had ended. `OpenFrameIsInjected`: a frame open all the time is injected,
the first start ever of its marker apart, when `ongoing` may be seen before the first `id`. *Run `ReflexPresentIds`*: two swapchains
in one present; TLC finds the wrong list (below).

`SleepModeReachesSwapchain` is claimed for a creation and a mode change that do not
overlap; the variable `raced` says whether the last ones did. With overlap it
does not hold: the setter may see the old swapchain when the creation has read the
old mode already.

`ReflexSetup` is what comes before: `CreateInstance` reads the flags and remembers the
API version; `CreateDevice` either passes the call on (`Skips`) or rewrites it:
`VK_NV_low_latency` becomes `VK_NV_low_latency2`, missing extensions are appended
(`EnabledExtensions`), the features of timeline semaphores and present ids are
switched on, in the application's own structures where these are in its chain
(`WrittenChain`) and in the layer's otherwise (`PassedChain`). The driver
(`Accepts`) refuses extensions and features it does not support. *Run `Setup`*: every
combination of flags, API version, instance and device extensions, GPU and feature
structures, and any number of devices made from one chain, since the layer writes to
it. `LayerDeviceIsComplete`: a device has the layer's context exactly if it has
what `ReflexLayer` takes for granted, is valid (no extension twice, no two
structures that exclude each other) and lacks nothing that was asked for. Assumed:
extensions of one request are distinct, and a device that has low_latency2 supports
Vulkan 1.2, hence timeline semaphores.

### Library lifetime (`ApiLifetime`)

A user's Initialize counts it first and takes the count back if the registry
finds nothing. The last Unload clears the pointer and then runs the destructor,
in steps, under the mutex. Entry points check a handle (`IsAdapter`) and use it
(`UseAdapter`) without the mutex.

Assumed: a user calls nothing but Initialize before its Initialize has succeeded
and drops its handles with its Unload. With that, `CheckedHandleIsAlive` holds
though addresses are used again and the entry points take no mutex; without it
the code promises nothing. `ChangeCompletes`: each Initialize and Unload ends and
gives the mutex back, if a thread that holds it keeps running. The module is
checked as a part of `D3dDeviceMaps`, with 2 users, 2 adapters and 2 addresses, and its
invariants are proved for any number of them.

### D3D device maps (`D3dDeviceMaps`)

The static maps of `NvapiD3d11Device` and `NvapiD3dLowLatencyDevice` from the address of
a D3D object to an NVAPI device that keeps a driver interface. GetOrCreate and Reset
hold the mutex of their class all the time and are one step each; the device is used
in a step of its own (`UseDevice`), without the mutex. The steps of `ApiLifetime` come
in between, `ResetCaches` in the form of `ResetD3d11` and `ResetLowLatency`.

The application creates and releases its objects as it likes, of up to three kinds for
a device: a D3D11 device or its immediate context, a deferred context (which has a
context interface of its own), a D3D12 device or queue; `Creations` says at which
addresses. Assumed: it makes the calls between its Initialize and its Unload and releases
no object during a call on it. The maps hold no reference to what they are keyed by and are
not told of a release, so the address of a released object may come back at once, with its
old entry still there: the history `inherited` names the objects that were created where a
map had an entry, until that map is reset.

*Run `D3dDeviceMaps`* (module `MCD3dDeviceMaps`): 2 users, 2 addresses that objects of 2 devices
take turns at, a D3D11 and a D3D12 device at one, a D3D11 device and a deferred context at
the other; attempts of Initialize that fail.
`OneDevicePerInterface`,
`CallReachesItsDevice` (whatever addresses come back, only a call on an object that inherited
an entry is misdirected), and the properties of `ApiLifetime`. Fairness: a call that changes
the library goes on once it has begun.

### Vulkan low latency devices (`VulkanLowLatency`)

The factory tries the legacy, the `lowLatency2` and the fake implementation, as
far as the VkDevice offers their functions (`offers`), each of which may fail.
Entry points get the device without the mutex (`Get`) and use the pointer
afterwards. The teardown of `ApiLifetime` resets the factory, also when another
user's Initialize has failed.

Assumed: these calls come between the user's Initialize and Unload; a low latency
device is destroyed when no other call on it is in progress; one thread at a time
sets the mode of a device and one sleeps on it. Fairness: the driver signals
accepted sleeps, and a sleeper goes on.

*Run `VulkanLowLatency`*: 2 users, 2 VkDevices of every kind, 2 semaphores, 1
sleep each. One semaphore has one device (`SemaphoresAccountedFor`), the device
sleeps on the semaphore the application has (`GivenSemaphoreIsUsed`), the device
a call works with exists (`DeviceInUseExists`), the status never says on when the
driver is off (`StatusNeverOverstates`; the converse does not hold, see the hazards),
sleeps return (`SleepReturns`). A look-up while another thread changes the map finds the
device or misses it, and then the call answers with an error (`HandleInvalidated`). *Run
`VulkanUnlockedGet`* shows that this happens to devices that are initialised (below).

### D3D12 objects (`D3d12Objects`)

A clock that may stand still between two readings (`Tick` is a step of its own),
Reset of the three classes one after the other, each a reading and, for the
device, the mutex; GetOrCreate with its two looks; the construction of a command
list that asks for its device's object with the command list mutex held. Private
data is atomic, as D3D12 guarantees. One Reset at a time, since it runs under
`initializationMutex`.

*Run `D3d12Objects`*: 2 threads, a device, a command list of it and a command
queue that is not vkd3d-proton's, clock to 3, 1 Reset.
`NoStaleAnswer` (no object older than a Reset that ended before the call began),
`OnlyStaleReplaced`, `MutexIsReleased` (no deadlock of the nested mutexes, under weak
fairness of the threads).

### CUDA shaders (`CubinShaders`)

vkd3d-proton creates and destroys the shaders at addresses it uses again; the
library enters and erases them in a map, under a mutex, in a step of its own.
`Reset` empties the map; shaders that live through it are `forgotten`. Threads create and
destroy in any order. A shader made at an address whose destruction is not over is
`crossed`: *run `CubinHandleReuse`* shows how it loses its size (below). *Run `D3d12Calls`* (3
threads, 2 addresses, sizes 0, 4, 6) shows that nothing else does (`OnlyCrossingLosesSize`) and
that no entry stays behind (`EntriesHaveShaders`).

### Acceleration structures (`AsConverter`)

Each of the four calls (`Build`, `GetPrebuildInfo`, and the same for arrays of opacity
micromaps) converts its inputs and, in a step of its own, calls D3D12 (`CallD3d12`),
which reads what the description points to (`Read`). A build uses the converter of its thread,
whose arrays hold what earlier calls left, grow and lose their content when a
request is longer (`Reserve`), and are left half written by a request that fails
(`ConvertedArrays` up to `FirstFailure`); a query uses a converter of its own. A
geometry, an attachment and a buffer are one value each; flags that are only copied
are one flag, and those of micromaps, which are dropped or widened, all three.

*Run `D3d12Calls`*: 2 threads, any order of 14 requests with up to 3 geometries
on converters with room for 1 at first, so that arrays are replaced, reused for shorter
lists and left behind by three kinds of failure. `BuildsWhatWasAsked`: D3D12 is called
exactly for what can be converted, and finds this call's geometries, attachments and
flags. Shaders and acceleration structures share no state, so each behaviour of the
run takes the steps of one of them (`component` in `MCD3d12Calls`); the interleaving of
the two would multiply the states and show nothing.

### Driver settings (`DrsSettings`)

A call of NvAPI_DRS_GetSetting passes the definitions of two statics, which the first
thread to arrive initialises while the others wait, and looks the setting up (`Find`). The
first static is the list (`MeasureString`, `InitString`), the second what is made of it and of
the settings' own variables, read one after the other (`StartEnriching`, `MeasureVariable`,
`ReadVariable`, `InitDwords`). Each variable takes two calls of the system, one for its length and
one for its text, and the application may change its environment between any two of these:
one that was set and has changed is read as what is there now, if that fits, or as nothing
(`Readings`). Text is words that are a name, a number or neither, never both (no setting's name
is a number), and the ids asked for are of an `NvU32`'s range; `parsedrssetting`,
`parsedrsdwordvalue`, `parsedrsdwordsettings` and `enrichwithenv` are the functions of
`util/util_drs.cpp`.
*Run `Setup`*: lists of up to two of twelve entries, with everything that can be wrong with one,
with and without a variable for the setting; 2 threads; numbers to 7 for a word.
`SettingAsConfigured` states the documented precedence without the functions: a setting's own
variable, then the last entry that names it, in what was read first.

### Optical flow (`OpticalFlow`)

An instance of each API; creation, under the mutex of its API, with a look for the factory,
the making of one where there was none, and the construction that refers to it (`Create`,
`MakeFactory`, `Construct`); failure and clean-up; one session; Execute and D3D12's RegisterBuffer, which wait for a point of the
application's timeline and signal it; a queue that runs in order; the ring index;
images, registered though their view may fail, and unregistered.

Assumed: one thread uses an instance, one session per instance, an instance
is destroyed when its queue is empty, at most `Ahead` = `CMDS_IN_FLIGHT` calls of
Execute in flight, refused ones counted (a refused call takes a buffer too), both
fences of RegisterBuffer given, an image is unregistered once and when nothing is to run.
One image stands for all of an instance. *Run
`OpticalFlow`*: ring of 2, 3 points for both instances together (`MaxPoint`) and 3 Executes (the
ring wraps with work in flight).
Fairness: queues run and the application renders. `RecordsIntoFreeBuffer`,
`SignalMeansDone`, `NothingLeaks`, `EveryPointIsSignalled`.

The mutexes are two and the factory is one, so a Vulkan and a D3D12 instance may both find
none (`overlapped`), and the second factory then frees the first under the instance that refers
to it. Nothing in the repository says that an application may or may not start both at once, so no
run is there to refute it: `FactoryOutlivesInstances` says of that race that it is the only way
a factory is replaced under an instance, at most once, and that the second stays.

### Adapter registry (`AdapterRegistry`)

`Initialize` as a loop over what DXGI reports, with the tests for the driver, the
vendor and the two environment variables, and the look-ups as operators. Device
names of displays are distinct, as Windows gives them. *Run `Setup`*:
every list of up to 3 adapters from a set that has each reason for leaving one out, equal PCI
addresses, missing LUIDs, and up to 2 outputs each. `HandlesResolve`: every id and
name that identifies one GPU or display leads back to it, and ids of displays are
unique though the index has gaps; `DisplayListsAgree`: the lists of
`EnumNvidiaDisplayHandle`, `GetConnectedDisplayIds` and `GetDisplayConfig` are of the same displays.
CHECK_DEADLOCK FALSE since a registry that is filled does nothing more. The registry, driver
settings, the layer's set-up and the GPU queries share no state; a behaviour of the run takes
the steps of one of them (`component` in `MCSetup`).

### GPU queries (`GpuQueries`)

Eleven entry points of `nvapi_gpu.cpp` ask NVML, and GetPstates20 does without. `nvml.dll` may be missing or not initialise
(`Loaded`), be too old for some functions, or not know the adapter; its answers are free, and
the GPU may be lost at any moment (`GpuIsLost`). A query is called with a structure of any
content (`Ask`), as an application that polls uses one again and again. The queries for one figure
are one step (`GetValue` for the five that differ only in the function and in what its absence
means). Three take several calls of NVML, a step each: the utilization, where an older NVML is
asked for the rates of two domains and the query shows two more as idle; the temperatures, where it
knows one sensor; and the clocks, one call each, after all domains were reset. A figure is
abstracted to where it comes from (`Sources`); the versions of a structure, and the conversion of
values, are left out.

*Run `Setup`*: no NVML, one that does not initialise, and one with the required functions only, one
without the newer three, and one with all. `AnswersAreCurrent`: a query that succeeds reports
each figure NVML gave during this call, beside those only its constants, and nothing that
the structure held before; where it finds that nothing is supported, it reports nothing. Left out
are GetGpuCoreCount and GetCurrentPstate where a quirk makes them succeed without NVML: they
leave the application's value as it was. An answer NotSupported for another type of clock than the
current one comes before the domains are reset, and is left out as well.

### Bounds

`MaxId`, `MaxValue`, `MaxSemaphores`, `MaxClock`, `MaxResets`, `MaxPoint`, `MaxExecutes` and
`MaxAdapters` bound counters that the program lets grow; `MaxDword` is the greatest
number of a setting. Each lets the counter
pass the point from which it only repeats (a ring that wraps, a resource that is
used again, a value that is passed). CHECK_DEADLOCK FALSE is set where a bounded
counter, or the end of the program, really ends a behaviour: `ReflexInjection`
and `ReflexPresentIds` (threads without more to do), `OpticalFlow` and
`Setup`. The other runs check deadlock.

## What is proved

The theorems are about the specifications the runs check (`Spec`, `VSpec`, `DSpec`, ...),
for every value of the constants that the named ASSUMEs of the modules allow.

| theorem | says |
|---|---|
| `D3dLowLatencyDevice_proofs`: `Typing`, `GeneratorConsistent`, `OneFrame`, `Renumbering`, `TruthfulReports`, `ClearedForCause`, `SleepStatus` | type correctness and the invariants of run `FrameIds`, for every ring size, set of frames, number of threads and size of a batch |
| `D3dLowLatencyDevice_proofs`: `Refinement` | `Spec => ImplementsWindow`: map, ring and lock implement the abstract window |
| `ApiLifetime_proofs`: `LifetimeTyping`, `Served`, `HandleAlive`, `NoAdapterLeaks` | type correctness, and the invariants of `ApiLifetime` in run `D3dDeviceMaps`, for any finite set of users and any adapters and addresses |
| `VulkanLowLatency_proofs`, `D3dDeviceMaps_proofs`: `ImplementsLifetime` | each of these specifications implements `ApiLifetime`, step by step |
| `VulkanLowLatency_proofs`: `NoSemaphoreLeaks`, `GivenSemaphores`, `DevicesInUse`, `ReportedStatus` | the invariants of run `VulkanLowLatency`, for any users, VkDevices and semaphores |
| `VulkanLowLatency_proofs`: `SleepsAreSignalled`, `NoStraySignals`, `SemaphoreValues` | a caller that waits has been signalled or will be; the driver has nothing else to signal; a semaphore's value only grows (an action property) |
| `D3dDeviceMaps_proofs`: `DeviceInUseIsMapped`, `OneDevice`, `CallsReachTheirDevice` | that no Reset destroys a device under a call, and the invariants of run `D3dDeviceMaps`, for any users, objects and driver interfaces, and addresses that come back at any time |
| `ReflexLayer_proofs`: `LayerTyping`, `InjectedIdsAreOpen`, `OpenFramesAreInjected`, `RegisteredIsAlive` | type correctness and invariants of runs `ReflexInjection` and `ReflexLifecycle`, for any threads, whatever calls and markers each makes, handles, queues, frames and settings, and in whatever order a marker's fields are stored and read |
| `ReflexLayer_proofs`: `LatencyCallsFollowTheNewest`, `StoredModeReachesSwapchain` | the other invariants of `ReflexLifecycle`, for `OneOwner`, and `OneSetter` in the second |
| `ReflexLayer_proofs`: `SleepersAreOwedSignals`, `SignalsCountUp` | for `OneSleeper`: whoever waits has been signalled or is owed the signal; the semaphore only counts up (an action property) |
| `ReflexLayer_proofs`: `SinglePresentsAreTagged` | a present of one swapchain carries no ids of the layer's or one, which is a frame's |
| `ReflexLayer_proofs`: `LayerDevices` | `LayerDeviceIsComplete` of run `Setup`, for any instances, devices and chains |
| `OpticalFlow_proofs`: `SignalsAfterWork`, `NoDriverObjectLeaks` | invariants of run `OpticalFlow`, for any instances, points, ring and number of calls |
| `OpticalFlow_proofs`: `NoPointIsLost`, `OnePointAtATime` | a point that was given is signalled or queued to be; the points are signalled one by one (an action property) |
| `OpticalFlow_proofs`: `BuffersAreFree`, `FactoryStays` | `RecordsIntoFreeBuffer` (an action property) for `Ahead <= CMDS_IN_FLIGHT`, `FactoryOutlivesInstances` for any order of creations |
| `D3d12Objects_proofs`: `AnswersAreFresh`, `ReplacesOnlyStale` | the invariant and the action property of run `D3d12Objects`, for any threads, objects and numbers of resets |
| `D3d12Objects_proofs`: `NoMutexDeadlock` | in no state do the holders of the mutexes wait for each other |
| `Lookups_proofs`: `Launching`, `NoStaleEntries` | the invariants of `CubinShaders` in run `D3d12Calls`, for any threads, addresses and sizes, created and destroyed in any order |
| `Lookups_proofs`: `D3d12FindsWhatWasAsked` | `BuildsWhatWasAsked` of run `D3d12Calls`, for any threads and requests, of any length |
| `Lookups_proofs`: `NamesResolve`, `ListsAgree` | `HandlesResolve` and `DisplayListsAgree` of run `Setup`, for any list of adapters and outputs DXGI may report |
| `Lookups_proofs`: `SettingsConfigured` | `SettingAsConfigured` of run `Setup`, for any threads, settings, variables and lists of any length, and an environment that changes while it is read |

Arguments:

- *Frame ids.* `TypeOK /\ GeneratorInv` is inductive: the ring holds the last
  `ListSize` ids at the slots `id % ListSize`, and the map is the inverse of the ring.
  It needs two facts on remainders (`SlotReuse`, `SlotsDistinct`): an id's slot is
  reused exactly `ListSize` ids later.
  What was handed out in the past needs `HistoryInv`, over the pairs the driver has
  and those threads hold on their way there: each has an id that was reached; a
  pair within the window is the one in the ring; one id has one frame; two ids of one
  frame are more than `ListSize` apart. From it follow `OneFramePerId` and `RenumberedOnlyWhenForgotten`.
  For reports `BatchInv` says of each batch in translation that the ids done so far are
  frames the driver got; it is stable because ids only grow and the driver
  forgets nothing.
  The refinement maps the map to the abstract window; a step that numbers a frame is
  its one action, every other step a stutter.
- *Lifetime.* `LifetimeInv` is `TypeOK` with: the thread in Initialize or in a
  teardown holds the mutex (`MutexOK`); the count is the number of holders plus an
  Initialize under way (`CountOK`, with cardinalities); there is a registry exactly when
  there are holders (`ServedOK`); the handles of a holder are those of the
  registry (`HandlesOK`); adapters alive are those of the registry or of a
  teardown (`HeapOK`). Without `CountOK` the last Unload could not be told from others.
- *Lifetime, refined.* `VulkanLowLatency` and `D3dDeviceMaps` extend `ApiLifetime` with calls
  of their own and a teardown that does more. `Lifetime == INSTANCE ApiLifetime_proofs
  WITH call <- lifetimeCall` maps calls of the new kinds to `Idle`, and a teardown half way
  through the two maps to one that has yet to reset the caches. Every step is then one of
  `ApiLifetime` or a stutter. So `LifetimeInv` holds here without a proof of its own, and
  gives what the rest needs: a teardown that resets caches runs only when nobody holds the
  library, and so nobody is in a call.
- *Vulkan devices.* `FactoryInv` adds: a call in progress is a holder's (`UsersOK`);
  who makes or destroys a device has the mutex, and makes none that is there (`MakersOK`);
  nobody works with a device that is being destroyed (`DestroysAlone`); semaphores and
  their owners are in one-to-one correspondence (`OwnersOK`); a device has at most one
  thread between the driver's mode and the stored one, with the mode the driver has
  (`SettersOK`), without which the status would not follow when it is stored.
- *Sleeps on Vulkan devices.* `SleepsOK`: what a call that sleeps asks for is its semaphore's
  next value until the driver has signalled it, and each signal to come is awaited. It takes
  from `FactoryInv` that devices have semaphores of their own and keep them while in
  use. That one thread at a time sleeps on a device is the guard of `Get`, so the
  theorems need no hypothesis; that nobody destroys a device others sleep on is
  assumed too (above).
- *D3D maps.* `MapsOK`: a call works with the device mapped for its object
  (`CallersOK`); objects of an interface share a device; no D3D11 device is made between
  the two resets of a teardown (`TeardownOK`); and what is mapped under the address of a live
  object has its interface, unless the object came upon the entry (`AddressesOK`).
- *Frame ids of the layer.* `FramesInv`: a marker that no start is at says what is open, one
  that a start is at has one field of it and the other of before (`MarkersOK`); and a search
  under way has yet to try every marker that was open from its beginning on, or holds an id
  that was open since or that a start replaced meanwhile (`SearchOK`). The search has to be in
  the invariant as the two loads of a marker are two steps, in either order.
- *Swapchains of the layer.* `SwapchainsInv`: what is being created exists and is created
  once, and if its handle is registered already, the swapchain that had it before is still
  being destroyed. `NewestInv` and `SleepModeInv` need an order of calls: with `OneOwner` (who
  creates swapchains is who destroys them) no creation overlaps the destruction it takes its
  handle from, and with `OneSetter` the stored mode is the one the driver got last.
  Run `ReflexLifecycle` has such threads; the hazard at `layer/vulkan_reflex_layer.cpp:461` is
  what happens without `OneOwner`. `CreationInv` and `ChangeInv` say what a creation and a change of
  mode can rely on at each step while they are `alone`.
- *Sleeps of the layer.* `SleepInv`: a call on its way to the driver finds no signal pending,
  one that waits finds its own pending or made. `OneSleeper` is needed: two threads may read
  the same value of the semaphore, and in the behaviour TLC finds without it the later of
  the two signals that value when the other's next sleep has been signalled already but
  has not woken: the counter goes back, and that sleep is owed nothing any more. That is
  an order no timeline semaphore allows. Run `ReflexLifecycle` has one thread that sleeps, as
  the loop of an application that makes its frames.
- *Presents of the layer.* `PresentIdOfOne`: with one swapchain, `{swapchainCount}` is as long as
  the list should be. This is how far the property that run `ReflexPresentIds` refutes does hold.
- *Set-up of the layer.* `SetupInv`: an instance is made once and keeps what it was
  made with; the chain keeps its structures through every device made from it (`ChainOK`).
  The rest is about lists: `EnabledExtensionsComplete`, by what `WithExtension` adds and
  leaves in place.
- *Optical flow.* `TimelineFits` says of every entry of a queue that what it will signal
  has been rendered or is waited for before it, that the work with no later a point
  comes before it, and that its point is not signalled yet. `RingFits` gives the distance
  between the buffer of a pending call and the ring's index as the number of calls since;
  at most `CMDS_IN_FLIGHT` calls in flight keep it within one turn, so `Execute` does not
  meet it. `Owes` says the converse of `TimelineFits`: every point given and not signalled
  has its signal in the queue, and the signals are in the order of their points; an entry that
  runs takes the least away, a call adds the next. `FactoryInv` counts who
  may still make a factory: of each API one creation at most (`MutexOK`), two together only if they
  have overlapped, and none when there have been two (`FactoryCases`); so an instance refers to
  the factory there is or to the first of two (`ReferenceOK`).
- *D3D12 objects.* `Stamped` relates the time an object is stamped with to the resets it was
  made before, for those that have ended and one that has only read the clock; it
  is kept for the private data and for what each call holds (`CallOK`). That only stale
  objects are replaced needs that who is past its second look, and so holds the mutex, has
  found one, and that what is stale stays stale (`Onward`). For `NoMutexDeadlock`, `LocksOK` says
  that a mutex which is taken is taken by a call that works under it, or by Reset for the
  devices'; so the only wait of a holder is that of a new command list for the devices'
  mutex, and nobody who has that one waits.
- *Shaders.* `ShadersInv` adds what a shader on its way into or out of the map looks like
  (`CreatingOK`, `DestroyingOK`) and, for those that are not crossed, that nobody is about to
  erase their entry; that an entry has a shader or is about to be erased (`EntriesOK`) needs no
  such exception.
- *Acceleration structures.* `Converting`: a thread on its way to D3D12 is there with a
  request that can be converted and with arrays that hold it, whatever longer lists they
  held before. `FailureIsFirst` says where the loop over the geometries stops.
- *Adapters.* `RegistryInv`: the registry's outputs are those of its adapters, each once.
  An adapter has fewer outputs than an id has room for, so ids are apart (`IdsAreApart`),
  and each look-up has one place to find. For the lists of displays, `FilteredJoined` adds that
  outputs are registered adapter by adapter, so joining the adapters' outputs in the order
  of the adapters gives `m_nvapiOutputs` again (`ConfigInOrder`).
- *Driver settings.* `DrsInv`: each static is unset or as its initialisation leaves it, though the
  environment may have changed since; one thread at most initialises, and finds its static
  unset (`InitialisingOK`); the variables read so far are of settings and hold words
  (`EnrichedOK`); and a call past a definition finds it set.
  The rest is about `parsedrsdwordsettings` and `enrichwithenv`: the last entry that counts is
  the one whose value stays (`LastEntryCounts`), and a variable of the setting's own replaces
  it (`DedicatedCount`).
- *Folds.* Loops over lists are folds, which the library defines by recursion. `UpTo` is
  induction up to a number for a *set* of numbers, from the least element of a set that
  is not empty; `FoldExists` uses it to show that the function a fold is defined by exists, and
  `FilteredStepwise`, `FlattenedStepwise` and `ParsedStepwise` give what it has
  after each element. From there each proof is again `UpTo`.

Assumptions: the named ASSUMEs of the modules (ring size positive, constants distinct from
the null values, kinds of objects that do not overlap, room for an adapter's outputs in an
id, ...), which TLC evaluates on every run; and the hypotheses named in the table, which hold
in the runs: `Ahead <= CMDS_IN_FLIGHT` is what the code takes for granted of its application
(comment at `src/nvofapi/nvofapi_vk_instance.cpp:91`), and `OneOwner`, `OneSetter` and `OneSleeper` say
which thread makes which calls (`Does`).

Only model-checked:

- `AnswersAreCurrent`: its module has no constant but the kinds of NVML, and its figures are
  asked for by functions that do not depend on each other;
- all liveness (`SleeperWakes`, `ChangeCompletes`, `SleepReturns`, `MutexIsReleased`,
  `EveryPointIsSignalled`), for which TLAPS has no means, as for ENABLED. What liveness
  needs of the states is proved: a sleep is owed its signal (`SleepersAreOwedSignals`,
  `SleepsAreSignalled`), mutexes are not waited for in a circle (`NoMutexDeadlock`), no point
  is lost (`NoPointIsLost`); what fairness then makes of it is TLC's;
- the bounds that `TypeOK` of `OpticalFlow` states for its counters (the proofs use
  `OpticalTypeOK`, the types without bounds).

No module has a RECURSIVE operator.

## Findings

- `layer/vulkan_reflex_layer.cpp:582`: `std::vector<uint64_t>{swapchainCount}` is a
  vector of one element. With more than one swapchain in a present the ids
  announced are not there, and the assignment may be past the end (run
  `ReflexPresentIds`).
- `src/nvapi/nvapi_vulkan_low_latency_device_factory.cpp:70`: `Get` searches the map
  without the mutex under which others change it, so an initialised device can be missed
  (run `VulkanUnlockedGet`).
- `src/nvapi/nvapi_d3d12_device.cpp:136`: a shader is destroyed before its entry is
  erased; a shader created at its address in between loses its entry (run
  `CubinHandleReuse`).

Beside these, `UnregisterResourceVk` (`src/nvofapi_vk.cpp:98`) answers with an error after
it has unregistered the image, where `UnregisterResourceD3D12` answers with success; no text or
test of the repository says what it should answer, so no run does.

## Not modelled, and what comes next

Not modelled for good: logging, strings, status codes, the values that NVML,
Vulkan and DXGI report and their conversion, HDR parameters, entry points that
answer with a constant, queries of one step that pass on what Vulkan and DXGI know, the memo of `nvapi_interface.cpp` (one lock around a look-up in a
constant table), vendored headers and test frameworks in `inc/`. Of optical flow, what the
binding points of a session refer to and the parameters of a session are left out.

The order of the work, done and planned:

1. done: frame ids and their abstract window, with proofs; the Reflex layer;
   library lifetime, with proofs; Vulkan low latency devices on top of it.
2. done: D3D12 objects and shaders, with proofs of the shaders; optical flow; the
   adapter registry.
3. done: the maps of the D3D11 and D3D low latency devices; `AsConverter`,
   `DrsSettings`, `ReflexSetup`; images of `OpticalFlow`.
4. done: proofs of `ReflexLayer`, `ReflexSetup`, `VulkanLowLatency`, `D3dDeviceMaps`,
   `D3d12Objects`, `OpticalFlow`, `AsConverter` and of the look-ups of `AdapterRegistry`.
5. done: proofs of `DisplayListsAgree` and `SettingAsConfigured`, so that every invariant
   and action property of a passing run but the one of `GpuQueries` has a theorem; the safety
   halves of the liveness properties.
6. done: `GpuQueries`.
7. left: memory sizes and the architecture in `nvapi_gpu.cpp`; two hazards have no property (`layer/vulkan_reflex_layer.cpp:461` without `OneOwner`,
   `nvapi_d3d12_device.cpp:18` across a Reset).

## Running

    tlc -workers 2 -config D3dDeviceMaps.cfg MCD3dDeviceMaps.tla
    tlapm ApiLifetime_proofs.tla

Runs, their modules and their configurations are in `PROJECT.json`. The longest,
`D3dDeviceMaps` and `OpticalFlow`, take two to three minutes each.
