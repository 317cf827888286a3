-------------------------------- MODULE Models --------------------------------
(***************************************************************************)
(* Which model a host is advised to install and which one the broker        *)
(* starts (model_selection.rs, writing.rs): what the hardware reports, the  *)
(* catalog, the selection, and the start that waits for memory.             *)
(*                                                                         *)
(* Sizes are whole MiB.  Only the writing catalog is installed.             *)
(***************************************************************************)
EXTENDS Naturals, FiniteSets

CONSTANTS
    Unknown,        \* no reading
    Hosts,          \* what does not change while a broker starts: total,
                    \*   cpus, arch, avx2, and the vendors of the GPUs
    Memory,         \* what may be available, in MiB; a read may also fail
    Supplies,       \* the sets of power supplies there may be
    Picks,        \* settings writing_model, or NoModel
    Disks           \* the sets of models that may be installed at first

HOST_RESERVE_MIB == 2048
RUNTIME_BASE_MIB == 768

VARIABLES host, available, supplies, installed, chosen, advice, phase, model

vars == <<host, available, supplies, installed, chosen, advice, phase, model>>

NoModel == "no model"
Tiers == <<"compact", "balanced", "quality">>

\* An artifact: its tier's place in Tiers, its size, its screen score.
WRITING_MODELS ==
    [id \in {"qwen3-0.6b", "qwen3-1.7b", "llama-3.2-1b", "gemma-3-1b"} |->
        CASE id = "qwen3-0.6b" -> [tier |-> 1, mib |-> 610, screen |-> 0]
          [] id = "qwen3-1.7b" -> [tier |-> 2, mib |-> 1224, screen |-> 33]
          [] id = "llama-3.2-1b" -> [tier |-> 2, mib |-> 771, screen |-> 41]
          [] OTHER -> [tier |-> 2, mib |-> 769, screen |-> 46]]

-----------------------------------------------------------------------------
(* What the hardware reports                                               *)

\* detect_on_battery: a discharging battery decides, then an unknown one, then
\* a known one; without a battery, mains that are online.
OnBattery(set) ==
    LET batteries == {s.state : s \in {x \in set : x.type = "battery"}} IN
    IF "discharging" \in batteries THEN "yes"
    ELSE IF "unreadable" \in batteries THEN "unknown"
    ELSE IF batteries # {} \/ [type |-> "mains", state |-> "online"] \in set
    THEN "no" ELSE "unknown"

Hybrid(vendors) == Cardinality(vendors) > 1

\* The profile: total and available may each be unknown.
Profile(h, avail, set) ==
    [arch |-> h.arch, cpus |-> h.cpus, avx2 |-> h.avx2, total |-> h.total,
     available |-> avail, hybrid |-> Hybrid(h.vendors), battery |-> OnBattery(set)]

Less(a, b) == IF a > b THEN a - b ELSE 0

-----------------------------------------------------------------------------
(* The selection                                                           *)

\* reported_memory and tier_ceiling's refusals, in their order.
Refusal(p) ==
    IF Unknown \in {p.total, p.available} THEN "memory_capacity_unknown"
    ELSE IF p.total = 0 \/ p.available > p.total THEN "memory_capacity_invalid"
    ELSE IF p.arch \notin {"x86_64", "aarch64"} THEN "unsupported_architecture"
    ELSE IF p.cpus < 4 THEN "insufficient_compute" ELSE "none"

TierCeiling(p) ==
    IF p.arch = "aarch64" \/ ~p.avx2 \/ p.battery = "yes" THEN 1
    ELSE IF p.hybrid \/ p.battery = "unknown" THEN 2
    ELSE IF p.total >= 24576 /\ p.available >= 8192 /\ p.cpus >= 12 THEN 3
    ELSE IF p.total >= 8192 /\ p.cpus >= 6 THEN 2 ELSE 1

\* memory_fit: the weights, a quarter more, and the runtime's base.
Required(mib) == mib + RUNTIME_BASE_MIB + (mib + 3) \div 4
Usable(p) == Less(IF p.available < p.total THEN p.available ELSE p.total, HOST_RESERVE_MIB)

\* A higher score, then a higher tier, then a smaller download.
Preferred(a, b) ==
    \/ WRITING_MODELS[a].screen > WRITING_MODELS[b].screen
    \/ /\ WRITING_MODELS[a].screen = WRITING_MODELS[b].screen
       /\ \/ WRITING_MODELS[a].tier > WRITING_MODELS[b].tier
          \/ WRITING_MODELS[a].tier = WRITING_MODELS[b].tier /\ WRITING_MODELS[a].mib < WRITING_MODELS[b].mib
Best(ids) == CHOOSE a \in ids : \A b \in ids \ {a} : Preferred(a, b)

Fitting(p) ==
    {id \in DOMAIN WRITING_MODELS : /\ WRITING_MODELS[id].tier <= TierCeiling(p)
                             /\ Required(WRITING_MODELS[id].mib) <= Usable(p)}

\* recommend_model.
Recommend(p) ==
    IF Refusal(p) # "none" THEN [model |-> NoModel, reason |-> Refusal(p)]
    ELSE IF Fitting(p) = {}
    THEN [model |-> NoModel, reason |-> "insufficient_usable_memory"]
    ELSE [model |-> Best(Fitting(p)), reason |-> "candidate_fits"]

\* Mutant: a dip of available memory takes part in the selection.
InstalledNow(p, ids, choice) ==
    LET fit == {id \in ids : Required(WRITING_MODELS[id].mib) <= Usable(p)} IN
    IF Recommend(p).model = NoModel \/ fit = {} THEN NoModel
    ELSE IF choice \in fit THEN choice ELSE Best(fit)

\* select_installed_writing_model: by total memory, and not by tier.  The
\* user's choice comes first, then the advised tier, then the preference.
Installed(p, ids, choice) ==
    LET capacity == [p EXCEPT !.available = p.total]
        advised == Recommend(capacity).model
        fit == {id \in ids : Required(WRITING_MODELS[id].mib) <= Usable(capacity)}
        tier == {id \in fit : WRITING_MODELS[id].tier <= WRITING_MODELS[advised].tier} IN
    IF advised = NoModel \/ fit = {} THEN NoModel
    ELSE IF choice \in fit THEN choice
    ELSE Best(IF tier # {} THEN tier ELSE fit)

\* threads_for: the runtime is built for x86-64 with AVX2.
Supported(h) == h.arch = "x86_64" /\ h.avx2

\* memory_fits: an unknown availability does not block.
MemoryFits(id, avail) ==
    avail # Unknown => Required(WRITING_MODELS[id].mib) <= Less(avail, HOST_RESERVE_MIB)

-----------------------------------------------------------------------------
(* Advice, installation and start                                          *)

Now == Profile(host, available, supplies)

Init ==
    /\ host \in Hosts /\ available \in Memory \cup {Unknown} /\ supplies \in Supplies
    /\ installed \in Disks /\ chosen \in Picks
    /\ available # Unknown /\ host.total # Unknown => available <= host.total
    /\ advice = NoModel /\ phase = "advise" /\ model = NoModel

\* `badi model` names a model, and the user may install it.
Advise(follows) ==
    /\ phase = "advise" /\ phase' = "select"
    /\ advice' = (IF follows THEN Recommend(Now).model ELSE NoModel)
    /\ installed' = installed \cup ({advice'} \ {NoModel})
    /\ UNCHANGED <<host, available, supplies, chosen, model>>

\* installed_model: threads first, then the selection.
Select ==
    /\ phase = "select"
    /\ model' = (IF Supported(host) THEN Installed(Now, installed, chosen) ELSE NoModel)
    /\ phase' = (IF ~Supported(host) THEN "unsupported"
                 ELSE IF model' = NoModel THEN "none" ELSE "wait")
    /\ UNCHANGED <<host, available, supplies, installed, chosen, advice>>

\* wait_for_memory: it looks again, after a delay, until the model fits.
Look ==
    /\ phase = "wait" /\ MemoryFits(model, available) /\ phase' = "verify"
    /\ UNCHANGED <<host, available, supplies, installed, chosen, advice, model>>

\* verified_launch: the weights may be gone by now.
Launch ==
    /\ phase = "verify" /\ phase' = (IF model \in installed THEN "started" ELSE "gone")
    /\ UNCHANGED <<host, available, supplies, installed, chosen, advice, model>>

\* Meanwhile memory and power come and go, and the user removes a model.
Dip(avail) ==
    /\ phase \in {"select", "wait"} /\ avail # available /\ available' = avail
    /\ avail # Unknown /\ host.total # Unknown => avail <= host.total
    /\ UNCHANGED <<host, supplies, installed, chosen, advice, phase, model>>

Plug(set) ==
    /\ phase = "select" /\ set # supplies /\ supplies' = set
    /\ UNCHANGED <<host, available, installed, chosen, advice, phase, model>>

Remove(id) ==
    /\ phase = "wait" /\ id \in installed /\ installed' = installed \ {id}
    /\ UNCHANGED <<host, available, supplies, chosen, advice, phase, model>>

Next ==
    \/ \E follows \in BOOLEAN : Advise(follows)
    \/ Select \/ Look \/ Launch
    \/ \E avail \in Memory \cup {Unknown} : Dip(avail)
    \/ \E set \in Supplies : Plug(set)
    \/ \E id \in installed : Remove(id)

Spec == Init /\ [][Next]_vars

-----------------------------------------------------------------------------
(* Properties                                                              *)

TypeOK ==
    /\ phase \in {"advise", "select", "wait", "verify", "started", "gone", "none",
                  "unsupported"}
    /\ advice \in DOMAIN WRITING_MODELS \cup {NoModel}
    /\ model \in DOMAIN WRITING_MODELS \cup {NoModel}

\* The advice can be followed: whatever memory and power did since, a host the
\* runtime supports starts some model once the advised one is installed.
AdviceHolds == advice # NoModel => phase # "none"

\* "The user's installed choice wins whenever it fits safely", on battery too.
ChoiceWins ==
    phase \in {"wait", "verify"} /\ chosen \in installed
        /\ Required(WRITING_MODELS[chosen].mib) <= Less(host.total, HOST_RESERVE_MIB)
        => model = chosen

\* What is started leaves the host its reserve by the total it reports.
ReserveKept ==
    model # NoModel =>
        Required(WRITING_MODELS[model].mib) + HOST_RESERVE_MIB <= host.total
=============================================================================
