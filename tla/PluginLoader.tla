----------------------------- MODULE PluginLoader -----------------------------
(***************************************************************************)
(* PluginLoader::load and the LoadedPlugin objects that own what it opens.  *)
(*                                                                         *)
(* Each successful dlopen is a reference of its own, whether or not another *)
(* one to the same library exists (dlopen counts them); a plugin instance   *)
(* has the number of the reference it was created under.  0 is nullptr.     *)
(* desc_ is set and cleared together with handle_ and is not modelled.      *)
(***************************************************************************)
EXTENDS Naturals, FiniteSets

CONSTANTS Slots,      \* the program's LoadedPlugin objects
          Policy,     \* the LoadPolicy of the loader
          MaxRefs     \* bound: references at one time

ASSUME PluginLoaderAssumption ==
  /\ IsFiniteSet(Slots) /\ MaxRefs \in Nat
  /\ Policy \in {"RequireEnterprise", "RequireCommunity", "AllowUntrusted"}

VARIABLES plugins,  \* handle_, instance_ and trust_.level of each object
          open,     \* references to libraries that were not closed
          alive     \* instances that were created and not destroyed

loaderVars == <<plugins, open, alive>>

Refs == 1..MaxRefs

MeetsPolicy(level) ==
  CASE Policy = "RequireEnterprise" -> level >= 2
    [] Policy = "RequireCommunity" -> level >= 1
    [] Policy = "AllowUntrusted" -> TRUE

\* LoadedPlugin(), and what closeHandle and a move leave of an object.  A
\* new object's level is uninitialised; nothing reads it.
Emptied(p) == [handle |-> 0, instance |-> 0, level |-> p.level]
NewPlugin == [handle |-> 0, instance |-> 0, level |-> 0]

\* closeHandle: the instance is destroyed, then its library closed.
StillAlive(p, ids) == IF p.handle # 0 /\ p.instance # 0 THEN ids \ {p.instance} ELSE ids
StillOpen(p, ids) == IF p.handle # 0 THEN ids \ {p.handle} ELSE ids

-------------------------------------------------------------------------------
\* load fails after dlopen: no descriptor, or one of another API version.
LoadFails(level) ==
  /\ MeetsPolicy(level)
  /\ \E ref \in Refs \ open :
       open' = StillOpen([handle |-> ref, instance |-> 0, level |-> level], open \union {ref})
  /\ UNCHANGED <<plugins, alive>>

\* load succeeds and its result is moved to object s, which closes what it
\* held.  create may be missing or return nullptr.
LoadInto(s, level, created) ==
  /\ MeetsPolicy(level)
  /\ \E ref \in Refs \ open :
       LET instance == IF created THEN ref ELSE 0
       IN  /\ plugins' = [plugins EXCEPT ![s] =
                [handle |-> ref, instance |-> instance, level |-> level]]
           /\ open' = StillOpen(plugins[s], open \union {ref})
           /\ alive' = StillAlive(plugins[s], IF created THEN alive \union {ref} ELSE alive)

\* Move assignment to dst from src (move construction, if dst is empty).
\* Mutation: what dst held is not closed.
MoveOver(dst, src) ==
  /\ dst # src
  /\ plugins' = [plugins EXCEPT ![dst] = plugins[src], ![src] = Emptied(plugins[src])]
  /\ UNCHANGED <<open, alive>>
Move(dst, src) ==
  /\ dst # src
  /\ plugins' = [plugins EXCEPT ![dst] = plugins[src], ![src] = Emptied(plugins[src])]
  /\ open' = StillOpen(plugins[dst], open)
  /\ alive' = StillAlive(plugins[dst], alive)

\* unload.
Unload(s) ==
  /\ plugins' = [plugins EXCEPT ![s] = Emptied(plugins[s])]
  /\ open' = StillOpen(plugins[s], open)
  /\ alive' = StillAlive(plugins[s], alive)

\* The destructor, and a new object in the place of the old one.
Destroy(s) ==
  /\ plugins' = [plugins EXCEPT ![s] = NewPlugin]
  /\ open' = StillOpen(plugins[s], open)
  /\ alive' = StillAlive(plugins[s], alive)

LoaderInit ==
  /\ plugins = [s \in Slots |-> NewPlugin]
  /\ open = {} /\ alive = {}

-------------------------------------------------------------------------------
LoaderTypeOK ==
  /\ plugins \in [Slots -> [handle : 0..MaxRefs, instance : 0..MaxRefs, level : Nat]]
  /\ open \subseteq Refs /\ alive \subseteq Refs

\* Every open library and every instance has exactly one owner, through any
\* order of loads (into objects that hold a plugin, too), failed loads, moves
\* and unloads: what no object owns is never closed, what two own is closed
\* and destroyed twice.  An object's instance is one of its own library, so
\* that destroy runs while the library is still mapped.
OwnedOnce ==
  /\ open = {plugins[s].handle : s \in Slots} \ {0}
  /\ alive = {plugins[s].instance : s \in Slots} \ {0}
  /\ \A s, t \in Slots :
       plugins[s].handle = plugins[t].handle /\ plugins[s].handle # 0 => s = t
  /\ \A s \in Slots : plugins[s].instance \in {0, plugins[s].handle}
===============================================================================
