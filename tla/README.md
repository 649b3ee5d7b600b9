# TLA+ models of the dranet node driver

This directory holds TLA+ models of the node-local network driver in `src/`:

- TLC configurations that check the models on small instances;
- TLAPS proofs of the main invariants for every value of the constants.

## 1. The system and its parts

| Part | Source | State it changes | Operations |
|---|---|---|---|
| Network configuration engine | `src/pkg/driver/rdmadevice_test.go` 203-461 | Kernel objects of a pod's network namespace: routes, neighbour entries, policy rules, VRF devices, link masters, the `l3mdev_accept` sysctls | `applyVRFConfig`, `applyRoutingConfig`, `applyNeighborConfig`, `applyRulesConfig`, `enableVRFSysctls` |
| VRF table allocator | `src/pkg/apis/defaults.go` 15-25 | The table of a VRF config | `VRFConfig.Default` |
| Defaulting and validation | `src/pkg/apis/defaults.go` 66-325 | Nothing: it accepts or rejects a config | `ValidateConfig` and the `validate*` helpers |
| Cloud metadata fetcher | `src/pkg/cloudprovider/gce/gce.go` 157-211 | The instance snapshot | `GetInstance` (bounded poll) |
| CloudInstance attributes | `gce.go` 103-155, `cloud.go` | Nothing (pure) | `GetDeviceAttributes` |
| Attribute resolver | tests only (`src/unnamed/part_000`) | Nothing (pure) | `getProviderAttributes`, `getLastSegmentAndTruncate` |
| RDMA sysfs lookup | `rdmadevice_test.go` 171-200 | Nothing (directory read) | `getRdmaDeviceFromSysfs` |
| Device-plugin shim | `src/unnamed/part_001` | `registered` and `registerError` under `mu` | `register`, `NotifyRegistrationStatus`, `ListAndWatch`, `Allocate` |

How the parts interact:

- The validator defaults a claim's `NetworkConfig`. For a VRF without a table, it derives the table from the name (`h % 1000 + VRFTableOffset`) and then validates the result.
- For every allocated device, a caller runs the engine on the pod's namespace. This caller is not in `src`, so it is modelled from spec 4.5.
- `applyVRFConfig` runs first, because the table it returns is an argument of `applyRoutingConfig`. Routes, neighbours and rules follow.
- Errors are collected per category and joined. Nothing is rolled back: re-invocation is the recovery path (spec 4.5.6 and 7).
- All devices of a pod share the kernel state of the pod's namespace: one table of routes, one set of VRF devices, and one pair of sysctls.

Behaviours that make the engine hard to test:

- **Sort order.** `slices.SortFunc` (line 250) is not stable. It puts link-scope routes first so that a universe route finds its gateway reachable.
- **EEXIST.** `RouteAdd`'s EEXIST is ignored (line 280). The kernel keys it on (prefix, table), not on the link or gateway. It answers EEXIST only after it has validated the nexthop. A gateway must be covered by a link-scope route out of the route's own link (`LinkIndex`, line 265), in the route's table or in main.
- **VRF reuse.** A VRF device found by name is reused (lines 406-419), but the function returns the config's table (line 433).
- **Route flush.** `LinkSetMaster` cycles the link, and the kernel flushes the routes through it.
- **Partial failure.** Any of `LinkAdd`, `LinkSetUp`, `LinkSetMaster` or the two sysctl writes can fail after earlier ones succeeded.
- **Namespace switch.** `enableVRFSysctls` switches the OS thread's namespace. It ignores the error of switching back (line 449), and nothing serializes it, although spec 5 requires a process-wide lock.
- **Validator and engine disagree.** The validator accepts a bare IP as a route destination (`defaults.go` 238-240). The engine parses destinations with `net.ParseCIDR` only.

## 2. Modules

### `NetConfig` (core)

A *worker* is one allocated device: it configures link `LinkOf[w]` in namespace `NsOf[w]`.

State:

- Worker state:
  - `cfg`: the defaulted, validated config;
  - `pc`: the step the worker is at;
  - `pending`: the indices the current loop has still to apply;
  - `errs`: the errors collected so far;
  - `vrfTable`: what `applyVRFConfig` returned;
  - `tries`: re-invocations so far.
- Kernel state of each namespace:
  - `kroutes`: routes as (prefix, table, link, gateway, scope);
  - `kneighs`: neighbour entries;
  - `krules`: policy rules;
  - `kvrf`: VRF name ↦ table, 0 if absent;
  - `kup`: VRF devices that are up;
  - `kmaster`: link ↦ VRF, or NoMaster;
  - `ksysctl`: the l3mdev sysctls set to 1.

| Action | Code |
|---|---|
| `VRFEnsure` | `applyVRFConfig` 403-419: look the VRF up by name and reuse it, or `LinkAdd` it (may fail) |
| `VRFAttach` | `applyVRFConfig` 421-433 and `enableVRFSysctls`: `k` of the four calls succeed; the next one fails. On success it returns the config's table. `MasterChanged`: `LinkSetMaster` to the master the link already has is a no-op; changing the master cycles the link and flushes its routes |
| `RouteStep` | one iteration of the route loop 256-283. The entry is any pending entry of maximal scope (the unstable sort). The table is forced to `vrfTable` when it is positive, and table 0 means main. The outcomes are: `ParseCIDR` rejects the destination, unreachable gateway, EEXIST (ignored), or the route is added. `RouteAddResult` follows `fib_table_insert`. It validates the nexthop first (`Reachable`: a link-scope route out of the same link, in the route's table or main, covers the gateway; a link-scope route has no gateway). Only then does it look up the (prefix, table) key for EEXIST. Its guards exclude each other |
| `RoutesDone`, `NeighStep`, `NeighborsDone`, `RuleStep`, `RulesDone` | the end of the route loop, then the neighbour loop (EEXIST keyed on link and IP) and the rule loop, in list order |
| `Start`, `Retry`, `Finished` | the caller, modelled from the spec: it starts an allocation when no other allocation of the same namespace is running, re-invokes a failed or partly failed one at most `MaxRetries` times, and stutters once everything has been handled |

Data is abstracted as follows:

- prefixes, IPs and MACs are model values;
- `CoveredBy` says which IP lies in which prefix;
- the FNV-1a hash is a constant function `FNV32a`. The MC module gives it the real values: fnv32a("red") = 1089765596 and fnv32a("green") = 18738364.

`Accepted(w)` is the set of candidate configs of `w` that Default and ValidateConfig let through. `Init` picks one accepted config per worker.

### `MC_NetConfig` and its cfgs

The instance has:

- one namespace with two devices;
- an on-link prefix `p1` with gateway `g1`, and a remote prefix `p2` reached through `g1`;
- the VRF names "red" and "green";
- `VRFTableOffset = 1000` (the offset's value is not in `src`).

There are four candidate sets, one per question. The kernel run adds a third device `w3` in a second namespace `n2`, on a link with the same name `l1` as `w1`'s, also joining VRF red (`CandidatesTwoNs`). With it, a step that wrote into the wrong namespace, or keyed a master or VRF by name alone, would show.

### `NetConfigProofs` and `NetConfigSuccessProofs`

They contain the TLAPS proofs (see §5). `NetConfigProofs` proves the type invariant and `RoutesFollowVRFTable`. `NetConfigSuccessProofs` extends it and proves `SuccessImpliesConfigured` and `LinkRoutesFirst`. `NetConfigKernelProofs` extends that and proves `KernelRefinement`.

### `AbstractKernel`

What the engine promises of the kernel state it writes (spec 6 and 8: no rollback, re-invocation is the recovery path). It has the seven kernel variables of `NetConfig` and one action, `Apply(ns)`:

- `Extend(ns)`: routes, neighbour entries, rules, VRF up flags and sysctls of `ns` only grow. An existing VRF device keeps its table, and an enslaved link keeps its master.
- `Elsewhere(ns)`: every other namespace is left alone.

The objects themselves are left abstract. `NetConfig` maps to it by identity on the kernel variables (`AK == INSTANCE AbstractKernel`). Its property `KernelRefinement` is `AK!Spec`.

### `MetadataPoll` and `AbstractFetch` (gce.go 157-211)

`MetadataPoll` models `GetInstance`: the `wait.PollUntilContextTimeout` loop and its condition. Time is counted in 1 s ticker intervals; `Timeout` is 15 in the run.

- State: the server `srv` (fixed for a run), the clock `now`, the ticker's one-slot channel `tick`, the condition's position `pc`, its locals `name` and `mtype`, the shared `instance` variable, the number of condition runs `cycles`, and the result `ret`.
- Actions: `GetName`, `GetType` (with `path.Base`), `GetInterfaces` (the instance is assigned *before* `json.Unmarshal`, so a decode error leaves it behind), `GetPhysicalHost` (optional; its error leaves the topology empty) and `PollWait` (the select between the context and the ticker, and the second `ctx.Done` check after a tick). `Tick` is one interval passing.
- `CallOutcomes`: a call made at or after the deadline fails (the context is done); before it, a call may fail when `Faults` is TRUE.
- The server's strings are model values; a machine-type path is its sequence of `/`-separated segments.

`AbstractFetch` is what the fetcher promises (spec 4.1), with no calls or ticker: it returns once, a snapshot the server justifies, or an error only after the deadline, and it does return. `MetadataPoll` maps to it with `expired <- now >= Timeout` and `allowed <- GoodSnapshots(srv)`.

### `GceAttributes` (gce.go 101-155, cloud.go 21-27)

`GetDeviceAttributes` as a pure operator, and a reference `SpecAttributes` written from spec 4.2.

- A topology is a sequence over `{"a", "b", "/"}`; `TopologyAttributes` models `TrimPrefix` and `strings.SplitN(…, "/", 3)`.
- A network path is a sequence of tokens that `fmt.Sscanf` treats alike (the two literals, a space, a sign, digits, a digit run too long for int64, name characters). `ScanNetwork` models the scan: `%d` skips spaces, takes a sign and needs a digit; `%s` skips spaces and stops at the next one; trailing input is ignored.
- `FirstMatch` is the loop that breaks at the first matching MAC.
- `MC_GceAttributes` enumerates snapshots (topologies and network paths up to length 4, plus longer ones chosen for the parse), and a MAC query as the only action.

### `MetadataPollProofs`

The TLAPS proofs about `MetadataPoll` (see §5).

### Planned modules

These are for later sittings.

- `NsSwitch`: goroutines, OS threads and their current namespace: `LockOSThread`, `netns.Set`, the deferred restore whose error is ignored, and an abstract atomic "set both sysctls" step, refined only under a process-wide lock.
- `Resolver`: the attribute resolver, modelled from the spec and the test table, composed with `GceAttributes` through `cloud.go`'s `DeviceIdentifiers`.
- In `NetConfig`: the setup early returns, a variant without per-namespace serialization (the `LinkAdd` EEXIST race), and a VRF-table collision property.

## 3. Runs

| Run | cfg | Expect | What it shows |
|---|---|---|---|
| `netconfig_safety` | `MC_NetConfig.cfg` | pass (750 states) | With derived tables, faults on the VRF path, and one re-invocation per device, the four invariants and Termination below hold |
| `netconfig_kernel_kept` | `MC_NetConfig_kernel.cfg` | pass (57750 states) | `KernelRefinement`: with three devices in two namespaces, every step is an `AbstractKernel` step of one namespace or a stutter |
| `netconfig_vrf_table` | `MC_NetConfig_vrftable.cfg` | violation of `RoutesFollowVRFTable` | The second device creates VRF red with its explicit table 1500. The first device then finds red by name (line 406) and enslaves `l1` to it. It gets its config's table 1596 back (line 433) and adds its link route to table 1596, not to red's table 1500 |
| `netconfig_same_dst` | `MC_NetConfig_samedst.cfg` | violation of `SuccessImpliesOwnRoutes` | Both devices route `p1` in main. The second gets EEXIST and reports success with no route through its link |
| `netconfig_shadowed_link` | `MC_NetConfig_shadowed.cfg` | violation of `OwnLinkRouteSuffices` | The second device, on `l2`, adds its link route to `p1` in main. The first device's own link route to `p1` on `l1` meets EEXIST, which is ignored. Its universe route via `g1` is then rejected as unreachable, because no link route out of `l1` covers `g1`. This contradicts spec 59 and 94 read together |
| `netconfig_bare_ip` | `MC_NetConfig_bareip.cfg` | violation of `ValidatedRoutesParse` | A validated link route to the bare IP `g1` is rejected by `net.ParseCIDR` |
| `gce_attributes` | `MC_GceAttributes.cfg` | pass (8655 states) | `AgreesWithSpec`: on every snapshot within the spec's domain and every MAC, the code's attributes equal the reference's |
| `gce_topology_segments` | `MC_GceAttributes_topology.cfg` | violation of `TopologyExactlyThree` | The topology `////` yields block, subBlock and host although it has more than three segments: `SplitN` keeps the rest in the host |
| `gce_network_path` | `MC_GceAttributes_network.cfg` | violation of `NetworkPathStrict` | `projects/+2/networks/n` is accepted: `Sscanf` takes a sign (and spaces, and trailing text), which spec 4.2's exact format excludes |
| `metadata_poll` | `MC_MetadataPoll.cfg` | pass (8094 states) | `FetchRefinement` holds with faults, a 15-interval deadline, and three servers: one with a host, one without, one whose interface list does not decode |

The properties checked by `netconfig_safety`:

- `SuccessImpliesConfigured`: an allocation reported successful has every route (in its effective table), neighbour entry, rule, VRF master, VRF up flag and sysctl it asked for. This depends on the EEXIST handling, the sort, the table override and the flush.
- `RoutesFollowVRFTable`: every route through an enslaved link is in the table of its VRF device.
- `LinkRoutesFirst`: a universe route whose gateway lies in a link route of the same config and table is never rejected as unreachable. The exception is when another device of the pod has a route, of any scope, with that (prefix, table) key. Run `netconfig_shadowed_link` shows that the exception is real.
- `Termination`: every allocation ends done or failed.
- `KernelRefinement` (its own run, `netconfig_kernel_kept`): the engine implements `AbstractKernel`. No step removes a route, neighbour, rule, up flag or sysctl, changes an existing VRF device's table, moves an enslaved link to another VRF, or touches another namespace. The only removal in the code is the flush by `LinkSetMaster` when a link changes master.
- `TypeOK`: the type invariant.

Each of these properties has a mutant that breaks it:

| Mutant | Property it breaks |
|---|---|
| Retry off by one | `TypeOK` |
| Loop that does not advance | `Termination` |
| Sort dropped | `LinkRoutesFirst` |
| VRF table override dropped | `RoutesFollowVRFTable` |
| Neighbour EEXIST check ignoring the link | `SuccessImpliesConfigured` |
| `LinkSetMaster` treated as a master change every time (`MasterChangedAlways`) | `KernelRefinement` |

Why the bounds are enough:

- **Two devices in one namespace.** This is the smallest case in which devices share kernel state: one VRF, EEXIST across devices, and a link route added by another device.
- **Config lists.** They hold a universe route listed before the link route it depends on, so the sort matters.
- **Faults.** `KernelFaults = TRUE` lets each of the VRF path's calls fail.
- **Retries.** `MaxRetries = 1` makes a re-invocation run on top of partly applied state, so the flush and the reuse of the VRF are exercised. In `netconfig_kernel_kept`, the device of `n2` may have a link route next to an entry `ParseCIDR` rejects. Its allocation then fails after the route is installed and is re-invoked over it, which is where a wrong flush would remove a route.
- **Second VRF name.** A second name would add no case, because tables are per name.

The properties of the metadata runs:

- `FetchRefinement` (`AF!Spec`): GetInstance returns exactly once, either a snapshot built from the server's answers (never the instance a failed decode left in the variable) or an error, and the error only after the deadline; and it does return. The mutant that ignores the decode error breaks it.
- `AgreesWithSpec`: the mutant without the loop's `break` (the last match wins) breaks it.

`MC_MetadataPoll.cfg` sets `CHECK_DEADLOCK FALSE`: once GetInstance has returned, nothing else runs, which is a real end state. `Timeout = 15` is the code's 15 s over 1 s; with faults every cycle can fail until the deadline, so the error path and the tick/deadline race are reached. The `cycles` counter is kept only for the strengthening `ClockInv` of the refinement proof. The three servers cover each branch of the condition.

## 4. Fairness

`Fairness` is weak fairness per worker over all of its steps except `Retry`. Each step is a local netlink or sysctl call that returns (spec 5: no timeouts, local syscalls). Retries are the caller's decision and are not forced. `Finished` stutters once every worker is done or failed, so that end state is not a deadlock.

In `MetadataPoll`, `Fairness` is weak fairness of `Tick` (time passes) and of `Poller` (the goroutine running GetInstance is not starved; each metadata call returns, at the latest when the context is done). It is what `FetchRefinement`'s liveness part rests on.

## 5. Proofs (TLAPS)

**`TypeCorrect`: `Spec => []TypeOK`, for all constants satisfying the ASSUMEs.**

TypeOK alone is not inductive. A loop step reads `cfg[w].routes[i]` for `i ∈ pending[w]`, and the VRF steps read `cfg[w].vrf`. The strengthening `PendingOK` says:

- in each loop, `pending` is a subset of the indices of that loop's list;
- the VRF phases run only for configs with a VRF.

The proof has these parts:

- `AcceptedConfig` shows that Default and ValidateConfig hand the engine a `NetworkConfig` whose VRF table is positive.
- `InitTypeInv` and `NextTypeInv` show that Init establishes the invariant and every action preserves it. They have one step per action. TypeOK is split into its config, worker and kernel parts.

**`RoutesFollowVRF`: under `DerivedTablesOnly`, `Spec => []RoutesFollowVRFTable`.**

`DerivedTablesOnly` says that no candidate config gives its VRF an explicit table. Without it, run `netconfig_vrf_table` is a counterexample.

The inductive invariant `VRFInv` adds these facts to TypeInv:

- `DerivedCfg`: a config's VRF table is `VRFDefaultTable(name)`.
- `VRFDevices`: a VRF device's table is 0 or `VRFDefaultTable(name)`.
- `MasterOwned`: only a device's own worker enslaves its link, and only to the VRF of its config. This rests on `LinkAssumption`: links of one namespace are distinct.
- `MasterHasDevice`: a master VRF exists.
- `AttachAfterEnsure`: the attach step runs only once the VRF device exists.
- `RoutesUseVRF`: the route loop of a VRF device runs with `vrfTable = cfg.vrf.table`.

The argument, by step:

- **New route.** A route added through an enslaved link is added by that link's own worker, so by `MasterOwned` its master is the worker's VRF. By `RoutesUseVRF`, the route's table is the config's table. By `DerivedCfg`, `VRFDevices` and `MasterHasDevice`, that is the VRF device's table.
- **`VRFEnsure`.** It only creates a device that was absent. An absent device is no link's master.
- **`VRFAttach`.** It changes a link's master only together with flushing the link's routes.

The assumptions used are the named ASSUMEs of `NetConfig`. TLC evaluates them in every run:

- `NsAssumption` and `LinkAssumption` (links of a namespace are distinct);
- `HashAssumption` and `OffsetAssumption`;
- `SentinelAssumption` (sentinels are outside their types);
- `CandidateAssumption` (candidates are NetworkConfigs).

**`MetadataPollProofs`.** Under `TimeoutAssumption` and `FaultAssumption`, for every server set:

- `FetchRefinesSafety`: `Spec => AF!Init /\ [][AF!Next]_AF!avars`. `ResultInv` says that `ret` is pending while the poll runs, a good snapshot in `ok`, and `Failed` in `err`, and that the instance at `host` was built from successful answers. With it, `GetPhysicalHost` is `Return`, `PollWait`'s error branch is `GiveUp`, the tick that reaches the deadline is `Expire`, and every other step stutters.

The liveness half of `FetchRefinement` is only model-checked.

**`NetConfigSuccessProofs`.** These proofs hold for every accepted config, explicit VRF tables included, and for any number of devices, namespaces, faults and re-invocations. They use the same ASSUMEs as the proofs above.

- `SuccessConfigured`: `Spec => []SuccessImpliesConfigured`. The inductive invariant `SuccessInv` is TypeInv plus two parts:
  - `RouteLinkOwner`: every route in a namespace has an owning worker on its link. If that worker's config has a VRF, the link is already enslaved to it.
  - `WorkerInv`, per worker:
    - `RouteTableOf`: during the route loop, `vrfTable` is the config's VRF table or 0.
    - `AttachedOf`: after the VRF phase, the link is enslaved to the VRF.
    - `ProgressOf`: with no error so far, the VRF objects are in the kernel, and so is every entry the loops have handled. Routes are keyed by prefix and effective table.

  `ProgressOf` alone fails at two points, and the other parts cover them. First, a flush could remove a handled route. `RouteLinkOwner` and `AttachedOf` show that `VRFAttach` flushes only a link whose routes are all absent (`FlushFindsNothing`): a route on the link would already have the link enslaved to its VRF, so the master would not change. Second, EEXIST could be ignored for an entry with another key. `RouteKey` and `RouteResults` show that the route added has the prefix and effective table of the config entry, so EEXIST leaves an entry with that key in the kernel.
- `RoutesGrow` (a lemma): no step removes a route. It follows from `SuccessInv` and has one case per action. `NetConfigKernelProofs` uses it.
- `SortedLinkRoutes`: `Spec => []LinkRoutesFirst`. The inductive invariant `LinkFirstInv` adds three parts to `SuccessInv`:
  - `KeyLinkOnly`: a route in the kernel with the key of a link entry has link scope and goes out of the device's own link. A link entry is link-scope, has no gateway, parses, and no other device of the pod has a route with its key.
  - `LinkDone`: during the route loop, a link entry without a gateway that has been handled is in the kernel.
  - `LinkRoutesFirst` itself.

  The main case is `RouteStepSorted`. `SortedNext` only lets a universe entry go once no link entry is pending. `LinkDone` then puts the covering link route in the kernel, and `KeyLinkOnly` gives it link scope on the device's own link, so the gateway is `Reachable`. A route that would break `KeyLinkOnly` is either another device's entry, which `ForeignClash` excludes, or the device's own universe entry. That entry is rejected or meets EEXIST, so it is not added. `LinkFrame` handles every other step.

**`NetConfigKernelProofs`.** `KernelRefines`: `Spec => KernelRefinement`, for every value of the constants, explicit VRF tables included. The proof goes step by step, as a refinement is proved:

- `InitRefinesKernel`: the initial kernel is `AK!Init`.
- `StepRefinesKernel`: under `KernelInv`, every step of `Next` is `AK!Apply(NsOf[w])` of the worker's namespace, or a stutter. There is one case per action:
  - `VRFEnsure` creates a device only where `kvrf` was 0.
  - `VRFAttach` removes no route, by `RoutesGrow`. It keeps a link's master by the invariant below.
  - `RouteStep`, `NeighStep` and `RuleStep` add to their own namespace.
  - The caller's steps, the ends of the loops and `Finished` leave the kernel alone.

`KernelInv` is `SuccessInv` plus `MasterMine`. `MasterMine` says an enslaved link is enslaved to the VRF of the device on it. `VRFAttach` overwrites its link's master without looking at it, so the proof needs `MasterMine`: the overwrite changes nothing, because by `LinkAssumption` the device on the link is the one attaching, and its config never changes.

TLC checked each strengthening as an invariant before it was proved: `SuccessInv` and `LinkFirstInv` on all four NetConfig cfgs, and `KernelInv` on the kernel cfg and the three violation cfgs.

**Only model-checked:**

- `Termination` and the liveness half of `FetchRefinement`. These are liveness properties under fairness, and TLAPS does not handle liveness or ENABLED.

`GceAttributes` uses `FoldLeft` and `SetToSortSeq` (recursive, through SequencesExt), so its agreement with the reference is only model-checked, over bounded inputs.

## 6. Not modelled, and why

- **Setup failures.** The netns, netlink-handle and link-lookup failures at the start of each apply function are not yet modelled. They are planned.
- **Attribute resolver.** It lives only in tests and the spec; it and its composition with `GceAttributes` are planned (see §2).
- **Metadata-client internals.** The HTTP client, its retries and caching are behind `metadata.*WithContext`; a call is modelled by its outcome only.
- **RDMA sysfs lookup.** It is a directory read with no concurrency.
- **Device-plugin shim.** It is outside the spec's core. A thin RPC layer holds only a mutex-guarded flag.
- **Makefile and docs.** There is nothing to model.
- **Validation details.** Strict JSON decoding, interface-name, MTU and ethtool validation are not modelled. Their inputs are not represented, because the engine never reads them.
