--------------------------- MODULE Infrastructure ---------------------------
(***************************************************************************)
(* What requests and services share, and the modules that give it to them: *)
(* SharedStores, the store of replicas; Persistence, the units of work of  *)
(* services over a database; Observability, the spans of a request; and    *)
(* Framework, the bundled modules in a runtime. They share no state.       *)
(***************************************************************************)
EXTENDS SharedStores

CONSTANTS
    NoValue,
    Unit, Row, Work,    \* of Persistence
    Status, MaxSpans,   \* of Observability
    Malformed, Blank, ParsedVersion, Network, BrotliInstalled, Importable,
    Installation, MaxChanges   \* of Framework

VARIABLES
    shared, work, place, step, rows, pending, flushed, durable, crowded,
    traced, stage, task, spans, events, raised, answer, measured, reply,
    installation, pc, turn, cause, registry, owner, provider, connected, known,
    down, changes

Services == INSTANCE Persistence WITH at <- place, None <- NoValue

Traces == INSTANCE Observability WITH at <- stage, None <- NoValue

Teaf == INSTANCE Framework WITH at <- turn, None <- NoValue

servicesVars == <<shared, work, place, step, rows, pending, flushed, durable, crowded>>
tracesVars == <<traced, stage, task, spans, events, raised, answer, measured, reply>>
teafVars == <<installation, pc, turn, cause, registry, owner, provider, connected, known,
              down, changes>>

ASSUME ServicesAssumption == Services!PersistenceAssumption
ASSUME TracesAssumption == Traces!ObservabilityAssumption
ASSUME TeafAssumption == Teaf!FrameworkAssumption

-----------------------------------------------------------------------------
(* The properties of Persistence, Observability and Framework, which see.  *)

\* A unit of work is committed as a whole or not at all.
UnitsAreWhole == Services!UnitsAreWhole

\* A deleted entity stays deleted.
DeletedStaysDeleted == [][Services!StaysDeleted]_servicesVars

\* What is logged is of the innermost open span; spans end with their outcome.
TracesAreWhole == Traces!TracesAreWhole

\* Bundled modules never stand in each other's way, and those that serve are
\* the ones their capabilities, contracts and health are of.
ModulesCompose == Teaf!ModulesCompose
=============================================================================
