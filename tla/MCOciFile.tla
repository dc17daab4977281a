------------------------------ MODULE MCOciFile ------------------------------
(***************************************************************************)
(* The reference-counted resources of the sandbox, in one of four          *)
(* scenarios chosen in the initial state: three goroutines use and close   *)
(* an open directory of the overlay file system (OciFile, the reference    *)
(* counting of its layers); a name is looked up in its layers by openFile, *)
(* Stat and Readlink (OverlayLookup); or three goroutines share one socket *)
(* descriptor, number 3 (SocketFD); or files are opened from one another   *)
(* and closed (OciFileTree).  The behaviour is that of the chosen          *)
(* module; the others stay initial.                                        *)
(***************************************************************************)
EXTENDS OciFile

MCGoroutines == {"g1", "g2", "g3"}

\* Every stack of one to three layers.
MCMaxLayers == 3

\* The further calls that fail, one at most: every kind, or none (the run
\* comparing openFile with the OCI semantics, which has no such fault).
CONSTANT LookupFaults
MCAllFaults == {"stat", "marker"}
MCNoFaults == {}

MCThreads == {"g1", "g2", "g3"}
MCFD == 3

\* Four files and three fileLayers values: a directory, a child and a
\* grandchild, or two children, each opened, reopened and closed.
MCHandles == {"h0", "h1", "h2", "h3"}
MCNodes == {"n0", "n1", "n2"}

VARIABLES scenario, olLayers, olFlags, olOpen, olStat, olLink, olFault,
          sState, sPc, sOld, sHeld, sOsOpen, sCloses,
          tFileOf, tMade, tParent, tRefs, tFreed

olvars == <<olLayers, olFlags, olOpen, olStat, olLink, olFault>>
svars == <<sState, sPc, sOld, sHeld, sOsOpen, sCloses>>
tvars == <<tFileOf, tMade, tParent, tRefs, tFreed>>
allvars == <<scenario, vars, olvars, svars, tvars>>

OL == INSTANCE OverlayLookup
        WITH MaxLayers <- MCMaxLayers, Faults <- LookupFaults,
             layers <- olLayers, flags <- olFlags, openRes <- olOpen,
             statRes <- olStat, linkRes <- olLink, fault <- olFault

SF == INSTANCE SocketFD
        WITH Threads <- MCThreads, FD <- MCFD, None <- Nil, state <- sState,
             pc <- sPc, old <- sOld, held <- sHeld, osOpen <- sOsOpen,
             closes <- sCloses

FT == INSTANCE OciFileTree
        WITH Handles <- MCHandles, Nodes <- MCNodes, Root <- "n0",
             fileOf <- tFileOf, made <- tMade, parent <- tParent,
             refs <- tRefs, freed <- tFreed

MCInit ==
    /\ scenario \in {"close", "lookup", "socketfd", "tree"}
    /\ Init
    /\ scenario # "lookup" =>
          /\ olLayers = <<[entry |-> "none", whiteout |-> FALSE, opaque |-> FALSE]>>
          /\ olFlags = {} /\ olFault = OL!NoFault
    /\ OL!Init
    /\ SF!Init
    /\ FT!Init

\* Once openFile, Stat and Readlink have returned the lookup scenario is
\* over; it stutters instead of stopping.
LookupOver ==
    /\ olOpen.err # "pending" /\ olStat.err # "pending" /\ olLink.err # "pending"
    /\ UNCHANGED <<scenario, vars, olvars, svars, tvars>>

\* A step of the socket scenario; the other modules stay as they are.
SocketStep(A) == scenario = "socketfd" /\ A /\ UNCHANGED <<scenario, vars, olvars, tvars>>

\* A step of the file tree scenario.  Once every file is closed, nothing
\* is left to open from and the scenario stutters.
TreeStep(A) == scenario = "tree" /\ A /\ UNCHANGED <<scenario, vars, olvars, svars>>
TreeOver == FT!Open = {} /\ UNCHANGED tvars

MCNext ==
    \/ scenario = "close" /\ Next /\ UNCHANGED <<scenario, olvars, svars, tvars>>
    \/ scenario = "lookup" /\ OL!Next /\ UNCHANGED <<scenario, vars, svars, tvars>>
    \/ scenario = "lookup" /\ LookupOver
    \/ SocketStep(SF!Next)
    \/ TreeStep(FT!Next \/ TreeOver)

\* SocketFD's fairness, for the goroutines of the socket scenario.
MCSpec ==
    /\ MCInit /\ [][MCNext]_allvars
    /\ \A t \in MCThreads : /\ WF_allvars(SocketStep(SF!Busy(t)))
                            /\ WF_allvars(SocketStep(SF!Release(t)))

\* Stat and Readlink report the entry OCI whiteout semantics makes visible.
LookupMatchesOverlay == OL!LookupMatchesOverlay

\* openFile returns or closes every layer file it opened, never both.
OpenClosesUnreturned == OL!OpenClosesUnreturned

\* openFile opens what OCI whiteout semantics makes visible under the name.
OpenMatchesOverlay == OL!OpenMatchesOverlay

\* SocketFD: the count in the atomic word is the number of goroutines
\* between a successful acquire and their release.
RefCountMatchesHolders == SF!RefCountMatchesHolders

\* SocketFD: a goroutine holding the descriptor never sees it closed.
NoUseAfterClose == SF!NoUseAfterClose

\* SocketFD: the kernel descriptor is closed at most once.
CloseOnce == SF!CloseOnce

\* SocketFD: once close detached the descriptor it is eventually closed.
EventuallyClosed == SF!EventuallyClosed

\* OciFileTree: a fileLayers value is freed exactly when no open file's
\* layers are it or one of its descendants.
FreedIffUnreachable == FT!FreedIffUnreachable

\* SocketFD implements the shared-descriptor contract of SharedFD.
ImplementsSharedFD == SF!ImplementsSharedFD
=============================================================================
