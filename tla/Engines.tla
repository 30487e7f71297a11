------------------------------ MODULE Engines ------------------------------
(***************************************************************************)
(* Which inference engine a process of the sidecar runs a model on: the    *)
(* registry of engines its build compiles in (backend/mod.rs), the two     *)
(* switches that restrict it, the capability filter, the preference order, *)
(* and what an attempt to build each engine answers on a machine.          *)
(*                                                                         *)
(* A host is a build on a machine with a model:                            *)
(*   ort          the ONNX Runtime engine is compiled in                   *)
(*   eps          the hardware execution providers compiled in, in the     *)
(*                order the cascade tries them                             *)
(*   dylib        "static", or for a dynamically loaded runtime whether    *)
(*                its library is "present" or "missing"                    *)
(*   macos        the target is macOS                                      *)
(*   macosEngine  the model's macos_engine: "auto", "tract" or "ort"       *)
(*   kill         TRAVSR_EMBED_ENGINE: "tract", or anything else           *)
(*   family       the model's architecture family                          *)
(*   works        the backends that load the model there and, but for      *)
(*                tract, which has none, pass their warm-up inference      *)
(***************************************************************************)
EXTENDS Naturals, Sequences

CONSTANTS
    Families,       \* architecture families
    TractFamilies,  \* those the tract engine is proven to run
    Providers       \* hardware execution providers, e.g. "ort/CUDA"

Tract == "tract"
OrtCpu == "ort/CPU"
Backends == Providers \cup {Tract, OrtCpu}

ASSUME EnginesAssumption ==
    /\ TractFamilies \subseteq Families
    /\ {Tract, OrtCpu, "declined", "failed", "none"} \cap Providers = {}

Host == [ort : BOOLEAN, eps : Seq(Providers), works : SUBSET Backends,
         dylib : {"static", "present", "missing"}, macos : BOOLEAN,
         macosEngine : {"auto", "tract", "ort"}, kill : {"unset", "auto", "tract", "unknown"},
         family : Families]

(***************************************************************************)
(* The registry, as the build's features and the kill-switch leave it.     *)
(***************************************************************************)
Factory == {"ort-accelerated", "tract", "ort-cpu"}

Compiled(h) == {"tract"} \cup {f \in {"ort-accelerated"} : h.eps # << >>}
                         \cup {f \in {"ort-cpu"} : h.ort}

\* apply_engine_override: only "tract" restricts, an unknown value is ignored
ApplyEngineOverride(h, factories) == {f \in factories : h.kill = "tract" => f = "tract"}

Registry(h) == ApplyEngineOverride(h, Compiled(h))

CanRun(f, family) == f = "tract" => family \in TractFamilies

\* what --capabilities reports
Capabilities(h) ==
    [engines |-> Registry(h),
     families |-> IF "tract" \in Registry(h) THEN TractFamilies ELSE {},
     universalOnnx |-> Registry(h) \cap {"ort-accelerated", "ort-cpu"} # {},
     acceleratedCompiled |-> "ort-accelerated" \in Registry(h)]

(***************************************************************************)
(* resolve_with: the candidates and their order.                           *)
(***************************************************************************)
ForcesTractOnly(h) == h.macos /\ h.macosEngine = "tract"

PrefersTract(h) == h.macos /\ h.macosEngine # "ort"

Candidates(h) == {f \in Registry(h) : /\ ForcesTractOnly(h) => f = "tract"
                                      /\ CanRun(f, h.family)}

Preference(f) == CASE f = "ort-accelerated" -> 100
                   [] f = "tract" -> 50
                   [] f = "ort-cpu" -> 10

\* Mutant: the macOS flip is missing
DeclaredPreference(h, f) == Preference(f)

EffectivePreference(h, f) ==
    IF PrefersTract(h) /\ f = "tract" THEN 101 ELSE Preference(f)

\* the next factory of the sorted list: what is left of it has the lower keys
NextFactory(h, left) ==
    CHOOSE f \in left : \A g \in left : EffectivePreference(h, g) <= EffectivePreference(h, f)

(***************************************************************************)
(* try_build: the name of the backend that was built, or "declined", or    *)
(* "failed".                                                               *)
(***************************************************************************)
\* ensure_dylib_present, in front of every call to the runtime
DylibPresent(h) == h.dylib # "missing"

\* An ORT backend runs a warm-up inference when it is loaded; tract has none, so
\* that for it to work is to build a plan of the model.
Loads(h, b) == /\ b \in h.works
               /\ b # Tract => DylibPresent(h)

\* load_accelerated: a provider that fails is passed over, and the cascade
\* declines when none is left; it never falls back to the CPU
Cascade(h) ==
    LET confirmed == {i \in DOMAIN h.eps : Loads(h, h.eps[i])}
    IN  IF confirmed = {} THEN "declined"
        ELSE h.eps[CHOOSE i \in confirmed : \A j \in confirmed : i <= j]

TryBuild(h, f) ==
    CASE f = "ort-accelerated" -> Cascade(h)
      [] f = "tract" -> IF Loads(h, Tract) THEN Tract ELSE "failed"
      [] f = "ort-cpu" -> IF Loads(h, OrtCpu) THEN OrtCpu ELSE "failed"

(***************************************************************************)
(* The reference: what the documentation of the preference tiers and of    *)
(* the two switches asks of a choice, without the loop.                    *)
(***************************************************************************)
Permitted(h, b) ==
    CASE b = Tract -> h.family \in TractFamilies
      [] b = OrtCpu -> h.ort /\ h.kill # "tract" /\ ~ForcesTractOnly(h)
      [] OTHER -> /\ \E i \in DOMAIN h.eps : h.eps[i] = b
                  /\ h.kill # "tract" /\ ~ForcesTractOnly(h)

Usable(h) == {b \in Backends : Permitted(h, b) /\ Loads(h, b)}

\* accelerated, then tract, then ORT on the CPU; on macOS tract goes first,
\* unless the model asks for ORT
Tier(h, b) == CASE b = OrtCpu -> 3
                [] b = Tract -> IF h.macos /\ h.macosEngine # "ort" THEN 1 ELSE 2
                [] OTHER -> IF h.macos /\ h.macosEngine # "ort" THEN 2 ELSE 1

\* and among the accelerators the first of the cascade
Best(h, b) ==
    /\ b \in Usable(h)
    /\ \A c \in Usable(h) : Tier(h, b) <= Tier(h, c)
    /\ b \in Providers => \E i \in DOMAIN h.eps : /\ h.eps[i] = b
                                                 /\ \A j \in 1..(i-1) : h.eps[j] \notin Usable(h)
=============================================================================
