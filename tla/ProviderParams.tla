---------------------------- MODULE ProviderParams ----------------------------
(***************************************************************************)
(* The provider in use and the parameters it is called with                *)
(* (cli/runtime/params-runtime.ts, params-command.ts, swap-commands.ts,    *)
(* runtime-context-registry.ts, contracts/provider-params.ts).  A session  *)
(* keeps its parameters as a list of leaves, each with the layer it comes  *)
(* from, and rebuilds the bag from the list in order; /params writes       *)
(* leaves, /provider and /model replace the leaves of the default layer.   *)
(* Contexts are allocated once per entry and keep the configuration they   *)
(* were allocated with, while the user may edit the settings at any time.  *)
(*                                                                         *)
(* Parameters are reduced to one common key (maxOutputTokens), one native  *)
(* object of anthropic (thinking.budgetTokens), and values 0..2, of which  *)
(* 0 is outside the common schema.  An object given as a value stands as   *)
(* the leaves it flattens to; empty objects are left out.                  *)
(***************************************************************************)
EXTENDS Integers, Sequences, SequencesExt

CONSTANTS
  Entries,      \* provider entries of the settings
  Configs,      \* configurations of entries
  ConfigsOf,      \* per entry, those the user may give it; NoConfig among them
  NoConfig,     \* no usable configuration (missing, unknown protocol, schema)
  ProtocolOf,   \* of a configuration
  DefaultsOf,   \* its defaultParams: leaves in the order of the file
  ModelsOf      \* its models, the first one preferred

VARIABLES
  leaves,     \* ParamsRuntimeStore: the leaf map in insertion order
  selection,  \* ActiveSelectionHolder: entry, configuration, model
  contexts,   \* RuntimeContextRegistry: entry -> its context's configuration
  settings,   \* settings.json: per entry its configuration, and active
  swap        \* the swap under way

paramVars == <<leaves, selection, contexts, settings, swap>>

maxOut == <<"maxOutputTokens">>
thinking == <<"thinking">>
budget == <<"thinking", "budgetTokens">>
Paths  == {maxOut, thinking, budget}
Values == 0..2
Layers == {"defaultParams", "launch", "/params"}
Leaf   == [path : Paths, value : Values, layer : Layers]
Models == UNION {Range(ModelsOf[k]) : k \in Configs}
Selection == [entry : Entries, config : Configs, model : Models]
Active    == [entry : Entries, model : Models]
NoSwap    == [at |-> "none"]

(* Types.                                                                  *)
PPTypeOK ==
  /\ leaves \in BoundedSeq(Leaf, 3) /\ selection \in Selection
  /\ contexts \in [Entries -> Configs \cup {NoConfig}]
  /\ settings.providers \in [Entries -> Configs \cup {NoConfig}] /\ settings.active \in Active

(***************************************************************************)
(* The store.  A bag is the set of its leaves' paths and values; a leaf    *)
(* replaces what its path runs through and what lies below it.             *)
(***************************************************************************)
Comparable(p, q) == IsPrefix(p, q) \/ IsPrefix(q, p)
put(bag, leaf) ==
  {l \in bag : ~ Comparable(l.path, leaf.path)} \cup {[path |-> leaf.path, value |-> leaf.value]}
leafMapToTree(list) == FoldLeft(put, {}, list)

At(list, p)      == \E i \in DOMAIN list : list[i].path = p
IsDefault(leaf)  == leaf.layer = "defaultParams"
IsOverride(leaf) == ~ IsDefault(leaf)
flattenLeaves(defaults) == [i \in DOMAIN defaults |-> defaults[i] @@ [layer |-> "defaultParams"]]

(* Map.set: an entry that exists keeps its place, a new one comes last.    *)
SetLeaf(list, leaf) ==
  IF At(list, leaf.path)
  THEN [i \in DOMAIN list |-> IF list[i].path = leaf.path THEN leaf ELSE list[i]]
  ELSE Append(list, leaf)

writePath(list, leaf) == Append(SelectSeq(list, LAMBDA l : ~ IsPrefix(leaf.path, l.path)), leaf)

applyNewDefaults(list, defaults) ==
  LET kept == SelectSeq(list, IsOverride)
  IN kept \o SelectSeq(flattenLeaves(defaults), LAMBDA l : ~ At(kept, l.path))

(* What a swap validates beforehand: defaults first, overrides over them.  *)
projectWithDefaults(list, defaults) ==
  leafMapToTree(FoldLeft(SetLeaf, flattenLeaves(defaults), SelectSeq(list, IsOverride)))

(***************************************************************************)
(* validateProviderParams: the common bucket for every protocol; unknown   *)
(* keys, the native schema and the fields that depend on each other unless *)
(* the protocol is permissive.                                             *)
(***************************************************************************)
ParamErrors(protocol, bag) ==
     {"common" : l \in {m \in bag : m.path = maxOut /\ m.value < 1}}
  \cup {"ParamUnknown" : l \in {m \in bag : protocol = "openai-compatible" /\ m.path[1] = "thinking"}}
  \cup {"native" : l \in {m \in bag : protocol = "anthropic" /\ m.path = thinking}}
  \cup {"crossField" : l \in {m \in bag : protocol = "anthropic" /\ m.path = budget
                            /\ \E n \in bag : n.path = maxOut /\ m.value >= n.value}}

IsValid(config, bag) == ParamErrors(ProtocolOf[config], bag) = {}

(***************************************************************************)
(* A session starts with a configured provider, its defaults, and at most  *)
(* one launch parameter, checked together.                                 *)
(***************************************************************************)
buildSessionParamsStore(k, launch) ==
  IF launch = <<>> THEN flattenLeaves(DefaultsOf[k]) ELSE writePath(flattenLeaves(DefaultsOf[k]), launch[1])

PPInit ==
  /\ settings \in [providers : [Entries -> Configs], active : Active]
  /\ \A e \in Entries : settings.providers[e] \in ConfigsOf[e]
  /\ LET k == settings.providers[settings.active.entry] IN
       /\ Contains(ModelsOf[k], settings.active.model)
       /\ IsValid(k, leafMapToTree(flattenLeaves(DefaultsOf[k])))
       /\ \E launch \in {<<>>} \cup {<<[path |-> p, value |-> v, layer |-> "launch"]>> : p \in Paths, v \in Values} :
            leaves = buildSessionParamsStore(k, launch)
       /\ IsValid(k, leafMapToTree(leaves))
       /\ selection = [entry |-> settings.active.entry, config |-> k, model |-> settings.active.model]
       /\ contexts = [e \in Entries |-> IF e = settings.active.entry THEN k ELSE NoConfig]
  /\ swap = NoSwap

Idle == swap.at = "none"

(* /params: what it would make of the bag is validated, then written.      *)
dispatchParamsCommand(p, v) ==
  LET leaf == [path |-> p, value |-> v, layer |-> "/params"] IN
  /\ Idle /\ IsValid(selection.config, put(leafMapToTree(leaves), leaf))
  /\ leaves' = writePath(leaves, leaf)
  /\ UNCHANGED <<selection, contexts, settings, swap>>

(***************************************************************************)
(* A swap: the target is resolved and validated, its context ensured, the  *)
(* choice persisted, and only then applied.  Errors leave by SwapEnds.     *)
(***************************************************************************)
SwapBegins(target) ==
  /\ IsValid(target.config, projectWithDefaults(leaves, DefaultsOf[target.config]))
  /\ swap' = [at |-> "ensure", target |-> target]
  /\ UNCHANGED <<leaves, selection, contexts, settings>>

(* The settings' configuration and its preferred or first model.           *)
dispatchProviderCommand(e) ==
  LET k == settings.providers[e] IN
  /\ Idle /\ k /= NoConfig
  /\ SwapBegins([entry |-> e, config |-> k,
                 model |-> IF Contains(ModelsOf[k], settings.active.model) THEN settings.active.model
                           ELSE ModelsOf[k][1]])

(* A model of the configuration the session holds.                         *)
dispatchModelCommand(model) ==
  /\ Idle /\ Contains(ModelsOf[selection.config], model)
  /\ SwapBegins([selection EXCEPT !.model = model])

SwapEnds == swap' = NoSwap

(* ensure: a context that exists is returned as it is.                     *)
ensure ==
  /\ swap.at = "ensure"
  /\ contexts' = IF contexts[swap.target.entry] /= NoConfig THEN contexts
                 ELSE [contexts EXCEPT ![swap.target.entry] = swap.target.config]
  /\ swap' = [swap EXCEPT !.at = "load"]
  /\ UNCHANGED <<leaves, selection, settings>>

ensureFails ==
  /\ swap.at = "ensure" /\ contexts[swap.target.entry] = NoConfig
  /\ SwapEnds /\ UNCHANGED <<leaves, selection, contexts, settings>>

persistLoads ==
  /\ swap.at = "load"
  /\ swap' = [at |-> "write", target |-> swap.target, read |-> settings]
  /\ UNCHANGED <<leaves, selection, contexts, settings>>

(* The settings as they were read replace the file, with the new choice;   *)
(* the rest of the swap does not await.                                    *)
persistActiveSelection ==
  LET prepared == contexts[swap.target.entry] IN
  /\ swap.at = "write"
  /\ settings' = [swap.read EXCEPT !.active = [entry |-> swap.target.entry, model |-> swap.target.model]]
  /\ leaves' = applyNewDefaults(leaves, DefaultsOf[prepared])
  /\ selection' = [swap.target EXCEPT !.config = prepared]
  /\ SwapEnds /\ UNCHANGED contexts

(* Mutant: the context is given up whether or not the entry changed.       *)
disposeAlways == [contexts EXCEPT ![swap.target.entry] = NoConfig]

disposeTarget ==
  IF swap.target.entry = selection.entry THEN contexts
  ELSE [contexts EXCEPT ![swap.target.entry] = NoConfig]

persistFails ==
  /\ swap.at \in {"load", "write"}
  /\ contexts' = disposeTarget
  /\ SwapEnds /\ UNCHANGED <<leaves, selection, settings>>

(* The user edits the settings file, also while a swap awaits.             *)
edit(e, k) ==
  /\ settings' = [settings EXCEPT !.providers[e] = k]
  /\ UNCHANGED <<leaves, selection, contexts, swap>>

PPNext ==
  \/ \E p \in Paths, v \in Values : dispatchParamsCommand(p, v)
  \/ \E e \in Entries : dispatchProviderCommand(e)
  \/ \E model \in Models : dispatchModelCommand(model)
  \/ ensure \/ ensureFails \/ persistLoads \/ persistActiveSelection \/ persistFails
  \/ \E e \in Entries : \E k \in ConfigsOf[e] : edit(e, k)

PPSpec == PPInit /\ [][PPNext]_paramVars

Nested(list, defaults) ==
  \E i \in DOMAIN list, j \in DOMAIN defaults :
    IsOverride(list[i]) /\ list[i].path /= defaults[j].path /\ Comparable(list[i].path, defaults[j].path)

(***************************************************************************)
(* Whatever sequence of /params, swaps and edits: after each change the    *)
(* bag the next request is given is valid for the provider it goes to.     *)
(* Two cases are exempt because there what is validated is not what is     *)
(* applied: a context older than the edited settings, and a default whose  *)
(* path runs through, or lies below, the path of an override.              *)
(***************************************************************************)
ParamsStayValid ==
  [][IF selection' = selection /\ leaves' = leaves THEN TRUE
     ELSE \/ IsValid(selection'.config, leafMapToTree(leaves'))
          \/ swap.at = "write" /\ selection'.config /= swap.target.config
          \/ swap.at = "write" /\ Nested(leaves, DefaultsOf[selection'.config])]_paramVars

(* The entry in use always has its context, with the configuration the     *)
(* session holds: a request never finds its provider gone, though swaps    *)
(* fail at any step.                                                       *)
ActiveHasContext == contexts[selection.entry] = selection.config
=============================================================================
