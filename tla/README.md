# Verification of the RPA simulator

TLA+ models of `rpa_sim`, the simulator of the recursive privilege architecture: a
tree of privilege domains, each described by a domain control block (DCB) in guest
memory and entered by DESCEND, left by ASCEND or EXIT; security groups that decide
which domains may reach which memory; an interrupt controller; and a core that runs
one domain at a time and polls for interrupts after every instruction.

Contents: inventory of the system; what each module models; conventions and
abstractions; what each run checks and shows; what is proved and how; what is not
modelled; the plan for what comes next.

## 1. Inventory

| Part | State it keeps | Operations | What is hard about it |
|---|---|---|---|
| Domain tree, `rpa_logic.py` `RPALogic` | `current_domain`, `_domain_registry`, `_next_domain_id`; per domain a `Domain` object with a cached `DomainBlock`; DCB words in memory | `descend` (first, RETURN, rebuild, refused), `ascend` (ASCEND, EXIT), `fault`, hierarchy queries | every fact is kept in memory, in the cached block and in the registry; EXIT and block reuse must keep the three together |
| Security groups, `security_group.py` `SecurityGroupController` | `instances`, `domain_security_map`, `domain_id_to_handle`, handle counter; regions in `Memory` | create, three ways to destroy, bind, unbind, DMA accessors, encryption, `check_dma_access` | membership is kept in a set, a count and a map; destruction must clean up all of them |
| Interrupt controller, `interrupt.py` | `instances`, `domain_instances`, `global_pending` | request, release, enable, disable, set vector/mask, trigger, SGI, clear, check, `can_delegate_irq` | a global flag guards the search; parent and child links; delegation along a chain of instances that can be released |
| Core, `isa_simple.py` `SimpleISA` | registers, `domain_block_addr`, `ipa_regions`, `page_table_chain`, priority, `irq_disabled`/`in_interrupt`, halted; frames saved in the DCBs | one `step`: an instruction, then the interrupt poll | it keeps its own copy of who runs; an interrupt can come at any transfer |
| Translation, `memory.py` `MemoryManager`, `PageTable` | `page_tables`; during an access, where the walk is and what rights are left | `create_page_table`, `map`, `unmap`, `translate_chain`, `read_with_translation`, `write_with_translation` | rights shrink level by level, a level without a table is passed over, the regions count once, every fault is somebody's |
| Physical memory, `memory.py` `Memory` | bytes, `encrypted_regions` | reads and writes of every width, `fill`, regions set, set again and cleared | which of several overlapping regions decides, and what it does to bytes already stored |
| Machine, `machine.py` `Machine` | wiring | step, load a DCB, `descend`, `ascend` for the embedding program | `descend` and `ascend` bypass the core |
| `isa/`, `stdio.py`, assembler | data layout, a device buffer, text | | no control worth a model |

Interaction: the core calls `RPALogic.descend`/`ascend` and reads the result's vector,
page table and IPA table; `RPALogic` reads and writes DCB words in memory and calls
`bind_domain`/`unbind_domain` when a security controller is attached; the security
subsystem asks `RPALogic` about parents (`verify_parent_child`); the core asks the
interrupt controller after every instruction, and sends LDR and STR through
`MemoryManager` when its chain is not empty; the security controller sets and clears
the encrypted regions of `Memory`. Everything runs in one thread. The
nondeterminism is in the software of the domains (any legal call at any time), and in
the devices that raise interrupts between instructions.

What makes each part correct: the tree stays one chain of live domains, with its three
views in agreement; a domain's group follows the domain; no table of the group
controller refers to a dead group; no pending interrupt is hidden and a handler leads
back to the interrupted code; the core and the tree agree on who runs, with which page
tables; every table on the way to the root binds a domain's accesses; and what was written
under a key is read under that key and no other.

## 2. Modules

| Module | Models | Composes |
|---|---|---|
| `DomainTree` | `RPALogic` without a security controller | |
| `DomainChain` | the abstract promise of the tree: one chain of live domains, control moving one link at a time | implemented by `DomainTree` |
| `MCDomainTree` | block symmetry for TLC | `DomainTree` |
| `SecurityGroups` | `SecurityGroupController` | |
| `DomainSecurity` | `RPALogic` with a security controller attached | instances of `DomainTree` and `SecurityGroups` |
| `Interrupts` | `InterruptController` | |
| `Core` | `SimpleISA`: transfers, frames, priority, page-table chain, interrupt poll | instances of `DomainTree` and `Interrupts` |
| `Machine` | `Machine`: a host that steps the core and transfers control past it | `Core` |
| `MCCore` | block symmetry and a bound for TLC | `Core` |
| `Translation` | `MemoryManager`, `PageTable` | |
| `MCTranslation` | tables, attributes and regions for TLC | `Translation` |
| `PhysicalMemory` | `Memory` with its encrypted regions | |
| `DomainTree_proofs`, `DomainChain_proofs`, `SecurityGroups_proofs`, `Interrupts_proofs`, `Translation_proofs`, `PhysicalMemory_proofs` | theorems | |
| `DomainSecurity_proofs`, `Core_proofs` | theorems about the compositions; `Core_proofs` speaks of `Core` and of `Machine` | instances of the components' proofs |

**DomainTree.** `heap` holds the `Domain` objects in order of creation, each with the
fields of its cached block: `id` is `domain_id`, `bid` is `block.domain_id`, which EXIT
alone clears. An object dropped from `registry` stays in the heap because a descendant
may still refer to it, exactly as in Python. `mem` holds the DCB words that the tree
reads or writes. `DescendReturn`, `DescendRebuild`, `DescendFirst` and `DescendRefused`
are the four ways `descend` ends, `Ascend` and `Exit` the two of `ascend`, `Fault` is
`fault` with and without an installed handler. `PrepareBlock` and `WriteTrapVector` are
what software stores in DCBs.

**SecurityGroups.** One action per controller call that succeeds; a call that returns
`False` changes nothing. Group ids and handles advance together, so one number stands
for both. The map of encrypted regions belongs to `Memory`; only its owner column is
kept.

**DomainSecurity.** `DescendFirst` binds the new domain to the group of its DCB, of its
parent or of the root, twice, as the code does. `Exit` unbinds by the id of the
`Domain` object. `Sysop` is group management under the running domain's id.
`RequestDestroyConfidential` joins `verify_parent_child` to the group's destruction.

**Interrupts.** The controller is one record `ic`; each operation is a function on it,
so that `Core` can apply an operation and then poll in one step.

**Core.** `Finish` is the end of `step`: the interrupt poll on the state the
instruction left, which takes the interrupt (`Taken`) or leaves the state alone. Every
instruction ends with it, except an ASCEND in the root, which raises out of `step`. A
code address is abstracted to the DCB of the domain whose code it is and whether it is
in that domain's interrupt handler: all the properties distinguish. `Access` is LDR or
STR: carried out, or ending in a halt. `NoInstruction` is the one halt that is not followed by the poll.

**Machine.** The host's actions come between the core's steps, also after a halt:
`HostLoad` stores a DCB, `HostDescend` and `HostAscend` call `RPALogic` directly and leave
everything the core keeps as it is.

**Translation.** An access begins with the arguments the core passes (`Begin`), goes
through the loop of `translate_chain` one level at a time (`Step`, which is `Level` and,
for a level with a table, `Through`), ends with one of the outcomes of
`read_with_translation` and `write_with_translation` (`End`), and returns. The steps are
not interleaved with others, because the call is not; they are separate so that what
holds at each level can be stated. Between accesses tables are created, replaced, mapped
and unmapped. `ipa` is a history variable: where the first level led. So is `outer`: the
access that the domain of the second level, the parent, would itself make of that address,
by the same loop with the parent's own regions (`parentRegions`, which the code does not read
in a child's access). `ParentTablesBind` compares the two walks.

**PhysicalMemory.** A byte is the set of symbols XORed into it, so that XOR is symmetric
difference and a key is one symbol per byte. `regions` is the dictionary as the sequence of
its values in the order Python keeps them: a key that is set again keeps its place (`Put`).
`written` is the history of accesses no byte of which has been overwritten.

## 3. Conventions, abstractions and bounds

The code leaves two things to the software: a parent sets up and first enters only a
block that no live domain occupies ("fresh block"), and a domain exits after its own
child has exited ("leaf exit", `notes.md:217`). `DomainTree` takes the set of conventions
in force as the constant `Conventions`. Properties that need them are stated under
`Disciplined`; `RegistryAnchored` and `TypeOK` are also checked and proved without them.
`DomainSecurity` and `Core` assume both. `Core` further assumes that an interrupt handler
leaves by BX LR only, that a domain works on its own interrupt instances, and that DCBs
are far enough apart for their frames.
`Interrupts` assumes that the parent handle passed to `request` was given out before.

Bounds: `MaxDomains` (objects created), `MaxHandle` and `MaxRef` (groups created,
binds), `MaxInstance` (interrupt instances). They cap the counters and nothing
else. With 5 objects over 3 blocks a chain of four domains forms, and each block can be
given up and reused at another place of the chain. Three handles are the root group and
two that come and go. Three instances make a chain with a middle, or two siblings under
one parent. In `Core`
the constraint `CreationBound` of `MCCore` keeps the two limits from being reached together:
four domains with one interrupt instance, or three with two, so that both a block reused
under another parent and a parent and child that each take interrupts occur. `Core_live` has
one block and two objects, and two instances with two IRQs: enough for an interrupt to wait
behind another of its own instance, behind one of another instance and behind another domain.
`Machine` has four domains and one interrupt instance, so that the host can go down and up
twice and a handler can be running when it does. It has no page tables: after a host's
ascend, a RETURN of the core lengthens its chain once more each time, without bound.

In `Translation` two tables of two pages, chains of up to two levels and at most two mapped
pages at a time (`MappedBound`) give every combination of a table, a missing table and an
inherited level, of gaps at either level, and of full, read-only and control pages; the
offsets 0 and 3 are an aligned word and one across the end of a page and of memory. The one
table of regions has a region of a byte, which covers the start of an aligned word and not its
end, and a region of one word. What `ParentTablesBind` says of a
child that goes on above the level where its parent was stopped needs chains of three levels,
and is left to the theorem. In `PhysicalMemory` three
bytes, keys of two bytes, two groups and regions of one or two bytes give every overlap of
two regions and accesses inside, outside and across them. The theorems hold for every value
of the constants.

Names left abstract: trap vectors are zero or not, except where the cached and the stored
vector are compared; `_validate_ctrlblock` is the set `BadBlock`; keys, passphrases,
statistics and messages are left out.

Fairness is assumed in one run only. `FairCoreSpec` adds `CoreFairness`: weak fairness of
`Plain`, because `run` calls `step` until the core halts and every step that executes an
instruction ends with the interrupt poll; and weak fairness of `InterruptReturn`, because a
careful handler comes to its BX LR. Nothing is assumed of devices, of SGIs or of the
domains' other choices; the two liveness properties are about what happens once no new
interrupt is raised (`Quiet`). `EveryWaitEnds` lets a wait end by the interrupt being taken,
and also by its domain clearing or releasing it or by the core going elsewhere, which the
code allows at any time. It claims nothing for an interrupt behind a pending instance of the
same domain that is disabled or has no vector (a vector 0 in front really does block it,
`interrupt.py:512`), nor under the ASCEND priority, which
RETURN does not leave (`isa_simple.py:1356`): from the first ASCEND on interrupts do wait for ever.

Deadlock is checked except in `Interrupts` (once every instance is requested and released
the bounded run is over), `Core` and `Machine` (HALT stops the core, and a host may leave it so).

## 4. Runs

| Run | Shows |
|---|---|
| `DomainTree_disciplined` | under the conventions, besides what `DomainTree_free` shows without them: the registry, memory and cached blocks agree, one live domain per privilege level, distinct ids, exact hierarchy queries, no domain dropped but by its own EXIT, and the tree implements `DomainChain` |
| `DomainTree_free` | with no convention: the types hold, the root stays registered, entries stand under their own address, and parent references are well-founded, so the walks to the root end |
| `SecurityGroups` | all sequences of controller calls on two domains, two groups and the root group, with binding, rebinding and the three destructions interleaved |
| `DomainSecurity_auto` | with binding left to DESCEND and EXIT, a live domain is in its group and an exited one in none |
| `Interrupts` | the pending flag, the lists, the links and the delegation walk |
| `Core` | core and tree in step, resumption in own code, return from interrupts, the page-table chain when every child has a page table |
| `Machine` | whatever the host transfers past the core, suspended domains resume in their own code and the core's own next transfer realigns it with the tree |
| `Core_live` | with no new interrupts raised: no interrupt the running domain can take waits for ever, and handlers do not follow each other for ever |
| `Translation` | every access through every chain: the documented rules are followed exactly, every ancestor's table binds a child, and for aligned words it is enough that the first byte is compared with the regions |
| `PhysicalMemory` | data reads back through regions set, overlapped, set again and cleared just while its key is in force; a later region never takes memory from an earlier one |

Two runs show the code doing other than a document or comment says; each is listed with
its quotation in `PROJECT.json` under `findings`.

| Run | Property | What TLC shows |
|---|---|---|
| `DomainSecurity_refcount` | `RefCountsBound` | one DESCEND makes a count of 2 for one domain. (EXIT, which is not in the trace, unbinds once, so the group would keep a count of 1 and could not be dissolved) |
| `Core_chain` | `ChainMatchesPath` | b2 without a page table ascends to b1, which goes on without its own |

Six more points where code and text part were met while modelling and have no run of their own. An
`EXIT` of a domain whose child still lives leaves the object as the child's parent, and the
child's next ASCEND runs it again (`rpa_logic.py:713`; the guide says it is released). An
ASCEND to a parent with trap vector 0 stops there, where `rpa_logic.py:238` promises to go on
to the grandparent. And the vector is the one cached at the parent's first DESCEND, where
`rpa_logic.py:266` says it is read from the DCB. The core does not follow
`Machine.descend` and `Machine.ascend` (`machine.py:90`): until its next own transfer it runs
the code and names the DCB of the domain that was current before. And the ASCEND priority is
never left by RETURN, though `isa_simple.py:114` describes a poll after every instruction.
Last, `memory.py:623` and `tests/test_thread_exception.py:1082` say that a child without a page
table (INHERIT) is still held to its `ipa_regions`. The loop does so for a level 0, but the core
never puts one in its chain (`isa_simple.py:1331`; the test sets the chain by hand): below a root
without a table such a child has no chain, and LDR and STR go straight to memory
(`isa_simple.py:825`, `882`); below a paged parent its regions are compared after the parent's
table. `AlignedWordsInside` therefore claims regions only for a chain with a level, and the
addresses they are compared with are those after the first table there is.

Regions are also no bound on what a domain can hand on. Only those of the running domain are
compared (`memory.py:624`, `662`): a child whose own regions are absent or wider reaches
through its parent's table what the parent's regions forbid the parent. No document says
otherwise; `ParentTablesBind` names it as the exception (`ParentBarred`).

Every property of a passing run has a mutant: a definition of the same module that
changes one mapped definition the way a bug would, under which the property fails. Mutants
stand right before the definition they change and say which it is.

## 5. Proofs

*DomainTree_proofs.* `TypeCorrect` and `RegistryStaysAnchored`, with no convention assumed.
The inductive invariant `Anchored` adds to the two that no object but the root has
address 0 (`RealAddresses`): without it an EXIT could take the root out of the registry.
`DepthStaysDefined` says that the recursion for `get_depth` has a value at every object ever
made. It needs an induction; the library's rule takes an operator as parameter, so
`CountingUp` states induction as a fact about *sets* of numbers, proved from the
well-foundedness of `<`. A recursive function is an unspecified choice until some function is
shown to satisfy its rule: `OneMoreDepth` prolongs a depth function by one object, which may
refer only to older ones, and `DepthFollowsParents` puts the pieces together. The walks of the
other modules are treated in the same way.

*DomainChain_proofs.* Under the conventions, the invariant `OneChain` says that the running
domain is registered; every live domain hangs below a live parent that names it
(`ParentsLive`); every `child_block` that is set leads to a live child of that domain
(`ChildrenLive`); memory and cache agree (`MemoryAgrees`); live ids are distinct and below
the counter (`IdsOnce`); and a DCB that is not live has no child in memory (`FreshClean`).
No one of these is inductive alone: EXIT keeps `ParentsLive` only because a leaf has no child
by `ChildrenLive`, and a first DESCEND keeps `ChildrenLive` only because the fresh DCB it
caches names no child. From it follow `ChainStaysLinked`, `ViewsStayInAgreement`,
`IdsStayDistinct`, `HierarchyStaysExact`, `OnlyOwnExitDrops`, by induction on the depth
`OneLivePerLevel` (two live domains of one depth have parents of one depth, hence the same
parent, which names one child), and the refinement
`TreeImplementsChain`: initial states map to initial states, and each action to a chain step
or a stutter.

*SecurityGroups_proofs.* The invariant `GroupsInv` joins the types, the finiteness of the
bound sets, `RefCoversBound`, `MembershipSound`, `RegionsOwned`, `RootGroupLives` and that
handles from the counter on are unused. `ConfidentialStaysSealed` and `HandlesStayDead`
follow from it.

*Interrupts_proofs.* The invariant `Sound` is on a controller value, so that it speaks of the
operations as functions and holds of whatever combines them. Besides the types it says that
no handle from the counter on is in use (`Aged`), that a pending bit raises the flag
(`Unhidden`), that each list holds its owner's live handles in ascending order (`Listed`) and
that a set child link leads to a live instance naming this parent (`Linked`). `Aged` is what
makes an appended handle the largest of its list and a new child unlike every old one; that
lists ascend, and so repeat nothing, is what makes `list.remove` drop a handle for good
(`RemoveFirstExact`). One lemma per operation, then `NextSound`. `DelegationStaysComposable`
is about the walk of `can_delegate_irq`. By `Aged` a parent handle is smaller than its child's,
so every walk ends (`WalkEnds`); a walk to a goes through wherever the walk to b does, once
the one from b to a goes through, by induction along the handles (`WalksCompose`).

*Translation_proofs.* Four theorems about the loop. `TranslationTypeCorrect` needs
`WalkInPages`: a walk is at some offset of some page, the offset of its virtual address.
`ParentTablesAlwaysBind` rests on `LevelAgrees`: two walks at one address go through a level
alike, unless the regions of the second stop it there, and once they have, it stays where it
stopped. `AlignedWordsStayInside` needs that a walk past its first level was within its regions
there (`InBoundsOnce`) and that no level changes the offset in the page (`OffsetKept`), so that
an aligned address stays aligned. `RulesAlwaysFollowed` is the refinement of the
loop to the rules of the documentation: `FollowsRules` says that after n levels the walk is
at the end of the only trail of n levels, with the rights left by all of them, and that a
fault means the trail of one level less is the longest; the tables do not change under a
walk, and the trails of n + 1 levels are those of n levels prolonged by one.

*PhysicalMemory_proofs.* Three theorems. For `ReadBackNeedsItsKey` the invariant `MemoryInv` says that every
remembered access stands in memory, each byte encrypted with its byte of the key (`Stands`).
The regions have no part in it; they come in when the data is read, where `Recovers` says
that what one key encrypted no other key decrypts. `MemoryStaysTyped` and
`EarlierRegionStaysAhead` are about the regions: `MemoryShape` says that they are a
dictionary, one entry per start address. Clearing selects a subsequence (`Keep`), which is
recursive; `KeepSelects` characterises it without recursion, as an order-preserving
renumbering of the entries kept, so that the first region to cover an address after a change
is the first before it unless the change is at or before it (`KeepIsFair`, `PutIsFair`).

*DomainSecurity_proofs.* Three theorems about tree and groups together, on top of `OneChain` and
`GroupsInv`: `SysTypeCorrect`, which besides the types says that live ids are in the controller's
range and handles in DCBs have been given out, `GroupsFollowDomains` and `ExitLeavesNoTrace`. The invariant `SysInv` adds that ids stay in range, because under the conventions
no object is ever rebuilt (`Numbered`); that every DCB and object names a handle already given
out (`HandlesGiven`), so that a group created later is nobody's by accident; and that a domain
a live group lists is mapped to that group (`BoundMapped`). The last is what makes the forced
destructions and EXIT exact: they clear the map for the domains of one list, and no other list
has them. `GroupFollowsDomain` and `ExitForgets` are themselves parts of it: a first DESCEND may
bind the next id because `ExitForgets` and distinct ids say the controller has never heard of
it or has forgotten it, and `ExitForgets` survives an EXIT because `GroupFollowsDomain` says
which one group has to forget the domain. The last section carries what each part promises by
itself over to the two together: `SysImplementsChain`, `SysKeepsGroups` and
`SysHandlesStayDead` for every step of the composition, where the parts' own theorems speak of
a controller or a tree that is driven alone. `ConfidentialOpensToItsDomains` belongs to neither
part: membership says which group a DMA check consults, `GroupFollowsDomain` and `ExitForgets`
say which domains are members.

*Core_proofs.* Every instruction is a step of the tree or leaves it alone, and every poll and
`sysop irq` a sound operation of the controller, so `OneChain` and `Sound` carry over to the
machine (`CoreTakesTreeStep`, `SysopSound`). `Steady` adds `CoreOK`: the core is at its own
domain's code or handler (`OwnCode`), every frame resumes ordinary code
(`ResumesCode`), and in a handler the frame of the running domain leads back to its code
(`Returns`). The poll keeps `CoreOK` from whatever state the instruction left
(`FinishKeeps`), which leaves each instruction to be looked at without the interrupts.
`Aligned` says that the core names the DCB of the current domain, and `CoreInv` is the two
together. They are apart because a host breaks `Aligned` and not `Steady`: `StepKeeps` shows
that every step of the core keeps the one from itself alone, and the other from both. From
`CoreInv` follow `CoreTypeCorrect`, `CoreStaysInStep`, `SuspendedResumeOwnCode` and
`HandlersReturn`; `CoreImplementsChain` is the refinement of `TreeImplementsChain` for the tree
as the core drives it. `ChainStaysMatched` adds to `CoreInv` the property itself: parents are
older than their children, so the path of page tables is defined (`PathFollowsParents`), it is
not touched by what happens below it (`PathsKept`), and a transfer moves the chain and the path
by the same one link.

Under a host, `MachineSteady` gives `MachineTypeCorrect`, `HostSparesSuspended`,
`HostSparesHandlers` and `MachineKeepsController`, and what the host does to the tree is what the
core could have done, which gives `MachineImplementsChain`. `TransfersRealign` needs nothing of
`Aligned` before the step: DESCEND, ASCEND and EXIT establish it (`DescendAligns`,
`AscendAligns`).

Both modules use the component proofs by INSTANCE. An instance defines the operations a second
time, so `SameTree`, `SameGroups` and `SameController` first show the two copies equal.

The assumptions are the named ASSUMEs of the modules: kinds of words are distinct (0 is not
a block or a vector, `None` is not a number), bounds are naturals, attested owners are
domains. TLC evaluates them in the runs.

Model-checked only: the liveness properties of `Core_live` (`EveryWaitEnds`,
`InterruptedCodeRuns`), because fairness is a statement about ENABLED, which is out of the
prover's reach. The two properties that the code violates (section 4) have no theorem. Every
other property of a run is stated by a theorem.

## 6. Not modelled

- In `Machine`: `get_pagetable_chain` calls a method `RPALogic` does not have, so
  `read_memory_va` and `write_memory_va` raise; `reset` starts over with a core and a tree
  without controllers; `set_pc` and `set_register` can make the core anything.
- `isa/` is register layouts of ARM and x86 stubs, `stdio.py` a byte buffer behind two
  registers, the assembler text: no state of theirs meets another part's.
- In `SimpleISA`: arithmetic; sysop memtable and pagetable, which read words; an installed
  `fault_handler`, which is the embedding program's code.
- In `interrupt.py`: the event queue of `PriorityController` and `check_interrupt`, which
  nothing calls.
- In `memory.py`: the permission table, which no access consults, and `page_table_security`,
  which nothing reads. Page tables of different page sizes in one chain, and an `ipa_regions`
  table that runs off memory (the read raises and the core halts, as any refused access).

Hazards that no property covers are in `PROJECT.json` with the reason.

## 7. Plan

1. `DomainSecurity` with explicit bind and unbind: which of its properties survive, and that
   automatic binding alone never leaves the groups of section 4.
2. `Core` without the convention about handlers.
3. Of the two liveness properties, the safety part: a measure of what an interrupt still waits
   for, and that no step under `Quiet` increases it, is within reach of a proof.
