------------------------------ MODULE MCShared ------------------------------
(***************************************************************************)
(* Small instances of the components that several threads or processes     *)
(* share: the learned routes, the SIGPIPE disposition, the fact cache, the *)
(* walk and the source check.  They share no state with each other, so a   *)
(* behaviour runs one of them, and the others rest in an initial state.    *)
(***************************************************************************)
EXTENDS Routes, Sigpipe, FactStore, Discovery, SourceCheck, TLC

CONSTANTS q1, q2, before, private, public, x, y, w1, w2, w3

VARIABLE component
sharedVars == <<component, routesVars, sigpipeVars, factVars, walkVars, sourceVars>>

MCSnapshots == {before, private, public}
\* `private` adds a definition nobody exports: the same public API, and a
\* different confidence.  `public` renames what x names.
MCApi == before :> 1 @@ private :> 1 @@ public :> 2
MCResolves == before :> {x, y} @@ private :> {x, y} @@ public :> {y}
To(a, b) == [anchor |-> a, belief |-> b]
MCRank ==
  before :> <<To(x, 2), To(y, 1), To(x, 1)>>
  @@ private :> <<To(x, 1), To(y, 1), To(x, 1)>>
  @@ public :> <<To(y, 1), To(y, 2), NoRoute>>
MCKeyOrder == <<1, 2, 3>>
QuerySymmetry == Permutations({q1, q2})

\* Two workers of one release and one of another.
MCRelease == w1 :> 1 @@ w2 :> 1 @@ w3 :> 2

\* Two spellings of one canonical content, and another content.
MCClean == <<"indexed", "indexed", "other">>

Components == {"routes", "sigpipe", "facts", "walk", "source"}

SharedInit ==
  /\ component \in Components
  /\ RoutesInit /\ SigpipeInit /\ FactInit /\ WalkInit /\ SourceInit
  /\ component # "routes" => current = before
  /\ component # "source" => path.kind = "missing" /\ indexed = "other"

SharedNext ==
  /\ UNCHANGED component
  /\ \/ /\ component = "routes" /\ RoutesNext
        /\ UNCHANGED <<sigpipeVars, factVars, walkVars, sourceVars>>
     \/ /\ component = "sigpipe" /\ SigpipeNext
        /\ UNCHANGED <<routesVars, factVars, walkVars, sourceVars>>
     \/ /\ component = "facts" /\ FactNext
        /\ UNCHANGED <<routesVars, sigpipeVars, walkVars, sourceVars>>
     \/ /\ component = "walk" /\ WalkNext
        /\ UNCHANGED <<routesVars, sigpipeVars, factVars, sourceVars>>
     \/ /\ component = "source" /\ SourceNext
        /\ UNCHANGED <<routesVars, sigpipeVars, factVars, walkVars>>

SharedSpec == SharedInit /\ [][SharedNext]_sharedVars
=============================================================================
