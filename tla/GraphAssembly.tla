---------------------------- MODULE GraphAssembly ----------------------------
(***************************************************************************)
(* The registry of @transform and ApplicationBuilder (transform.py).       *)
(* Decorating a function puts a specification of it into the registry of   *)
(* the module, under a name, and on the function itself; a builder takes   *)
(* transforms by either way and checks them against its stations when it   *)
(* builds.  A declaration of a station is [name, model].                   *)
(***************************************************************************)
EXTENDS Integers, Sequences

CONSTANTS Functions,   \* the functions of the program
          Names,       \* names of transforms
          Decls,       \* declarations of stations, [name |-> _, model |-> _]
          Wirings,     \* triples <<function, from, to>> a program may decorate with
          Bare,        \* functions that take no attribute
          Takes, Gives,\* the annotations of f: a class, "any" for none, and "many" in
                       \* Takes[f] if f takes any other number of parameters than one
          Below,       \* pairs <<class, superclass>>
          None,        \* no specification, no declaration, no application
          MaxChosen    \* bound: transforms of one builder

VARIABLES
    registry,   \* registry[n]: the specification registered as n
    attached,   \* attached[f]: the attribute __stations_transform__ of f
    stations,   \* stations[s]: the declaration the builder has under the name s
    chosen,     \* the builder's transforms
    app,        \* the application built last
    cleared     \* ghost: clear_registry has been called

graphVars == <<registry, attached, stations, chosen, app, cleared>>

StationNames == {d.name : d \in Decls}

TransformSpec == [name : Names, func : Functions, from : Decls, to : Decls]

\* A program decorates its functions with stations it declares, and nothing is
\* no transform.
ASSUME WiringAssumption ==
    /\ \A w \in Wirings : w[1] \in Functions /\ w[2] \in Decls /\ w[3] \in Decls
    /\ None \notin TransformSpec
    /\ MaxChosen \in Nat

EmptyRegistry == [n \in Names |-> None]

NoStations == [s \in StationNames |-> None]

GraphTyped ==
    /\ registry \in [Names -> TransformSpec \cup {None}]
    /\ attached \in [Functions -> TransformSpec \cup {None}]
    /\ stations \in [StationNames -> Decls \cup {None}]
    /\ \A i \in DOMAIN chosen : chosen[i] \in TransformSpec
    /\ Len(chosen) <= MaxChosen
    /\ cleared \in BOOLEAN
    /\ \A f \in Functions : attached[f] # None => attached[f].func = f

GraphInit ==
    /\ registry = EmptyRegistry
    /\ attached = [f \in Functions |-> None]
    /\ stations = NoStations
    /\ chosen = <<>>
    /\ app = None
    /\ cleared = FALSE

-------------------------------------------------------------------------------
(* The registry *)

\* mutant: a name that is taken is taken over
DecorateAgain(f, from, to, n) ==
    LET spec == [name |-> n, func |-> f, from |-> from, to |-> to]
    IN  /\ registry' = [registry EXCEPT ![n] = spec]
        /\ attached' = IF f \in Bare THEN attached ELSE [attached EXCEPT ![f] = spec]
        /\ UNCHANGED <<stations, chosen, app, cleared>>

\* mutant: the attribute is set on what all functions share
DecorateShared(f, from, to, n) ==
    LET spec == [name |-> n, func |-> f, from |-> from, to |-> to]
    IN  /\ registry[n] = None
        /\ registry' = [registry EXCEPT ![n] = spec]
        /\ attached' = [g \in Functions |-> spec]
        /\ UNCHANGED <<stations, chosen, app, cleared>>

\* transform's decorator.  A name that is taken raises.  On a function that
\* takes no attribute setattr raises, when the registry has the entry already.
Decorate(f, from, to, n) ==
    LET spec == [name |-> n, func |-> f, from |-> from, to |-> to]
    IN  /\ registry[n] = None
        /\ registry' = [registry EXCEPT ![n] = spec]
        /\ attached' = IF f \in Bare THEN attached ELSE [attached EXCEPT ![f] = spec]
        /\ UNCHANGED <<stations, chosen, app, cleared>>

\* clear_registry leaves the attributes of the functions
ClearRegistry ==
    /\ registry # EmptyRegistry
    /\ registry' = EmptyRegistry
    /\ cleared' = TRUE
    /\ UNCHANGED <<attached, stations, chosen, app>>

-------------------------------------------------------------------------------
(* The builder *)

\* with_station: a name only once
WithStation(d) ==
    /\ stations[d.name] = None
    /\ stations' = [stations EXCEPT ![d.name] = d]
    /\ UNCHANGED <<registry, attached, chosen, app, cleared>>

AddTransform(spec) ==
    /\ Len(chosen) < MaxChosen
    /\ chosen' = Append(chosen, spec)
    /\ UNCHANGED <<registry, attached, stations, app, cleared>>

\* with_transform of a name, and raises if it is not registered
WithNamed(n) == registry[n] # None /\ AddTransform(registry[n])

\* with_transform of a function: its attribute, or else any entry of the
\* registry that is of this function
WithFunction(f) ==
    \/ attached[f] # None /\ AddTransform(attached[f])
    \/ /\ attached[f] = None
       /\ \E n \in Names : registry[n] # None /\ registry[n].func = f /\ AddTransform(registry[n])

\* _types_compatible: one class, or a subclass in either direction
Compatible(model, annotated) ==
    \/ annotated \in {"any", model}
    \/ <<model, annotated>> \in Below
    \/ <<annotated, model>> \in Below

\* what build checks of a transform: its input station by value, its output
\* station by name, the annotations against the transform's own declarations
Valid(spec) ==
    /\ stations[spec.from.name] = spec.from
    /\ stations[spec.to.name] # None
    /\ Compatible(spec.from.model, Takes[spec.func])
    /\ Compatible(spec.to.model, Gives[spec.func])

\* build copies what the builder has, or raises
Build ==
    /\ \A i \in DOMAIN chosen : Valid(chosen[i])
    /\ app' = [stations |-> stations, transforms |-> chosen]
    /\ UNCHANGED <<registry, attached, stations, chosen, cleared>>

NewBuilder ==
    /\ stations' = NoStations
    /\ chosen' = <<>>
    /\ UNCHANGED <<registry, attached, app, cleared>>

GraphNext ==
    \/ \E w \in Wirings, n \in Names : Decorate(w[1], w[2], w[3], n)
    \/ ClearRegistry \/ Build \/ NewBuilder
    \/ \E d \in Decls : WithStation(d)
    \/ \E n \in Names : WithNamed(n)
    \/ \E f \in Functions : WithFunction(f)

GraphSpec == GraphInit /\ [][GraphNext]_graphVars

-------------------------------------------------------------------------------
(* Properties *)

Transforms == IF app = None THEN {} ELSE {app.transforms[i] : i \in DOMAIN app.transforms}

\* A built application runs what is registered: each of its transforms is the
\* one the registry has under that name, whether it was taken by name or by
\* function, and whatever was decorated since.  Only clear_registry, a helper
\* for tests, leaves functions with a specification the registry does not have.
AppIsRegistered == ~cleared => \A t \in Transforms : registry[t.name] = t
===============================================================================
