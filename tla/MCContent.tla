------------------------------ MODULE MCContent ------------------------------
(***************************************************************************)
(* Frontends and Packages, the two services that keep rows in the database *)
(* and files in object storage.  They use other tables and another bucket, *)
(* so a behaviour in which both are called is made of one of each, and it  *)
(* is enough to check the behaviours whose requests go to one of them.     *)
(***************************************************************************)
EXTENDS Naturals, Sequences

CONSTANTS FrontendIds, VersionIds, Slugs, ZipNames, Entries, cleanName, Archives,
          None,
          Ids, Names, Jobs,
          Procs, FrontendCalls, PackageCalls, MaxFaults

\* An archive is a list of names that are cleaned, and the absent value is no
\* upload.
ASSUME ContentAssumption ==
    /\ cleanName \in [ZipNames -> Entries \cup {None}]
    /\ Archives \subseteq Seq(ZipNames)
    /\ None \notin [frontend : FrontendIds, archive : Archives]

\* For TLC: two names that clean alike, a name that leads out of the archive
\* after a file that does not, and an archive without a file.
MCCleanName ==
    [n \in ZipNames |-> CASE n = "./index" -> "index"
                          [] n = "../app" -> None
                          [] OTHER -> n]
MCArchives == {<<>>, <<"index">>, <<"index", "app">>, <<"index", "./index">>,
               <<"app", "../app">>}

VARIABLES service,  \* the service that is called
          frontends, versions, files, freq, fcalls, ffaults,
          uploads, removed, stray, loose,
          packages, bundles, types, preq, jobs, pcalls, pfaults,
          given, muddled, lost

F == INSTANCE Frontends WITH req <- freq, calls <- fcalls, faults <- ffaults,
                             MaxCalls <- FrontendCalls
P == INSTANCE Packages WITH req <- preq, calls <- pcalls, faults <- pfaults,
                            MaxCalls <- PackageCalls

fvars == <<frontends, versions, files, freq, fcalls, ffaults,
           uploads, removed, stray, loose>>
pvars == <<packages, bundles, types, preq, jobs, pcalls, pfaults,
           given, muddled, lost>>
vars == <<service, fvars, pvars>>

Init == F!Init /\ P!Init /\ service \in {"frontends", "packages"}

Next ==
    \/ service = "frontends" /\ F!Next /\ UNCHANGED <<service, pvars>>
    \/ service = "packages" /\ P!Next /\ UNCHANGED <<service, fvars>>

Spec == Init /\ [][Next]_vars /\ P!Fairness

\* The properties of the two services, under their names there.
FrontendsTypeOK == F!FrontendsTypeOK
DirectoriesMatchRows == F!DirectoriesMatchRows
ActiveIsOwnVersion == F!ActiveIsOwnVersion
PackagesTypeOK == P!PackagesTypeOK
AvailableIsUsable == P!AvailableIsUsable
BundlingEnds == P!BundlingEnds

\* Each of the two keeps its state well-typed.
TypeOK == FrontendsTypeOK /\ PackagesTypeOK
=============================================================================
