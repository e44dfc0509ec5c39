--------------------------- MODULE Certification ---------------------------
(***************************************************************************)
(* ModuleValidator and ModuleCertification of the SDK (teaf/_internal/sdk):*)
(* what is wrong with a manifest, and what makes a module certified.       *)
(*                                                                         *)
(* A manifest has the sequences it declares; whether a text has the form   *)
(* that a pattern of the validator asks is a field of it.                  *)
(***************************************************************************)
EXTENDS Naturals, Sequences, SequencesExt

DeclaredTwice(names) == ~IsInjective(names)

\* The sections with at least one error (errors_by_section).
Errors(manifest) ==
    {section \in {"metadata", "dependencies", "capabilities", "configuration",
                  "services", "health", "packaging"} :
        CASE section = "metadata" -> ~manifest.slug \/ ~manifest.version
          [] section = "dependencies" ->
               DeclaredTwice(manifest.dependencies)
               \/ manifest.id \in ToSet(manifest.dependencies)
          [] section = "capabilities" -> DeclaredTwice(manifest.capabilities)
          [] section = "configuration" -> DeclaredTwice(manifest.configuration)
          [] section = "services" -> DeclaredTwice(manifest.services)
          [] section = "health" -> DeclaredTwice(manifest.checks) \/ "" \in ToSet(manifest.checks)
          [] section = "packaging" -> ~manifest.compatible}

\* CERTIFICATION_SECTIONS with what each of them asks.
Checks(manifest) ==
    LET errors == Errors(manifest)
    IN  [specification |-> errors = {}, documentation |-> manifest.documented,
         manifest |-> "metadata" \notin errors, metadata |-> "metadata" \notin errors,
         version |-> "metadata" \notin errors, capabilities |-> "capabilities" \notin errors,
         dependencies |-> "dependencies" \notin errors, health |-> "health" \notin errors]

Certified(manifest) ==
    LET checks == Checks(manifest) IN \A section \in DOMAIN checks : checks[section]
=============================================================================
