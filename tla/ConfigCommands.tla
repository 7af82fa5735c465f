--------------------------- MODULE ConfigCommands ---------------------------
(***************************************************************************)
(* The global configuration (~/.ai-worklog/config.json) as data, and what  *)
(* each command of the registry does to it: the bodies that GlobalConfig   *)
(* runs between load() and save().  Everything here is a pure operator on  *)
(* one configuration; GlobalConfig.tla adds the processes, the lock and    *)
(* the file.                                                               *)
(***************************************************************************)
EXTENDS Naturals

CONSTANTS
    Names,      \* workspace names (all of them well formed)
    Paths,      \* canonical paths a user may type
    Dirs,       \* the paths that are existing directories
    Ides,       \* the supported IDEs
    Runtimes,   \* the two runtimes of the program
    DefaultRuntime,
    None        \* no workspace, no path, no vault, no process

ASSUME ConfigAssumption ==
    /\ Dirs \subseteq Paths
    /\ DefaultRuntime \in Runtimes
    /\ None \notin Names \cup Paths

\* A configuration after load(): an unregistered name has the path None.
Config ==
    [runtime : Runtimes,
     vault   : Paths \cup {None},
     dflt    : Names \cup {None},
     path    : [Names -> Paths \cup {None}],
     ides    : [Names -> SUBSET Ides]]

\* What a missing file stands for.
Defaults ==
    [runtime |-> DefaultRuntime,
     vault   |-> None,
     dflt    |-> None,
     path    |-> [n \in Names |-> None],
     ides    |-> [n \in Names |-> {}]]

Registered(c) == {n \in Names : c.path[n] # None}

\* validate(): of a well-typed configuration it can only refuse a default
\* that is not registered.  IDEs hang off a registered entry.
Valid(c) ==
    /\ c.dflt \in Registered(c) \cup {None}
    /\ \A n \in Names \ Registered(c) : c.ides[n] = {}

PathOwners(c, path) == {n \in Registered(c) : c.path[n] = path}

-----------------------------------------------------------------------------
(* The commands, and what the arguments alone decide before the lock.      *)

Command ==
    [op : {"add"}, name : Names, path : Paths, dflt : BOOLEAN]
        \cup [op : {"remove", "default"}, name : Names]
        \cup [op : {"vault"}, path : Paths \cup {None}]
        \cup [op : {"ides"}, name : Names, ides : SUBSET Ides]
        \cup [op : {"runtime"}, runtime : Runtimes]

RefusedAtOnce(cmd) == cmd.op = "add" /\ cmd.path \notin Dirs

\* Mutant: only the name is checked, as if no other workspace had the path.
AddAllowedByName(c, cmd) == c.path[cmd.name] \in {None, cmd.path}

AddAllowed(c, cmd) ==
    /\ PathOwners(c, cmd.path) \subseteq {cmd.name}
    /\ c.path[cmd.name] \in {None, cmd.path}

\* Mutant: the path becomes the default, instead of the name.
AddedDefaultPath(c, cmd) ==
    [c EXCEPT !.path[cmd.name] = cmd.path,
              !.dflt = IF cmd.dflt THEN cmd.path ELSE @]

\* Mutant: adding a registered workspace again starts a new entry.
AddedAnew(c, cmd) ==
    [c EXCEPT !.path[cmd.name] = cmd.path,
              !.ides[cmd.name] = {},
              !.dflt = IF cmd.dflt THEN cmd.name ELSE @]

Added(c, cmd) ==
    [c EXCEPT !.path[cmd.name] = cmd.path,
              !.dflt = IF cmd.dflt THEN cmd.name ELSE @]

Removed(c, cmd) ==
    [c EXCEPT !.path[cmd.name] = None,
              !.ides[cmd.name] = {},
              !.dflt = IF @ = cmd.name THEN None ELSE @]

DefaultSet(c, cmd) == [c EXCEPT !.dflt = cmd.name]

VaultAllowed(cmd) == cmd.path \in Dirs \cup {None}

VaultSet(c, cmd) == [c EXCEPT !.vault = cmd.path]

IdesSet(c, cmd) == [c EXCEPT !.ides[cmd.name] = cmd.ides]

RuntimeSet(c, cmd) == [c EXCEPT !.runtime = cmd.runtime]

\* The checks a command makes on the configuration it has loaded.
Allowed(c, cmd) ==
    \/ cmd.op = "add" /\ AddAllowed(c, cmd)
    \/ cmd.op \in {"remove", "default", "ides"} /\ cmd.name \in Registered(c)
    \/ cmd.op = "vault" /\ VaultAllowed(cmd)
    \/ cmd.op = "runtime"

\* The configuration it hands to save().
Effect(c, cmd) ==
    CASE cmd.op = "add"     -> Added(c, cmd)
      [] cmd.op = "remove"  -> Removed(c, cmd)
      [] cmd.op = "default" -> DefaultSet(c, cmd)
      [] cmd.op = "vault"   -> VaultSet(c, cmd)
      [] cmd.op = "ides"    -> IdesSet(c, cmd)
      [] cmd.op = "runtime" -> RuntimeSet(c, cmd)

\* The parts of a configuration a command is asked to change.
NamedBy(cmd) == IF "name" \in DOMAIN cmd THEN {cmd.name} ELSE {}
=============================================================================
