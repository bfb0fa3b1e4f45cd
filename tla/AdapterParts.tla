------------------------------ MODULE AdapterParts ------------------------------
(***************************************************************************)
(* Parts of the adapters that share no state with each other, put together  *)
(* so that one run checks them all: those that are proved about             *)
(* (ProvedParts), and Midnight archives (MidnightArtifacts), the settings   *)
(* of a service (Settings), what a contract is taken for (AccessFeatures),  *)
(* the values a Stellar call is given (StellarValues) and the conformance   *)
(* kit (Conformance).  A behaviour is of one part, chosen at the start, so  *)
(* that the parts can use the same variables.                               *)
(***************************************************************************)
EXTENDS ProvedParts

CONSTANTS MaxFiles, MaxDepth                                    \* Midnight archives
CONSTANTS Labels, MaxVectors                                    \* the conformance kit

ASSUME PartsAssumption == {MaxFiles, MaxDepth, MaxVectors} \subseteq Nat

Services == INSTANCE Settings
              WITH service <- s1, network <- s2, app <- s3, user <- s4, userRpc <- s5, test <- s6
Archives == INSTANCE MidnightArtifacts
              WITH loaded <- s1, seen <- s2, analysis <- s3, cache <- s4, shown <- s5
Features == INSTANCE AccessFeatures
              WITH adapter <- s1, endpoint <- s2, context <- s3, asking <- s4, told <- s5, called <- s6
Values == INSTANCE StellarValues WITH function <- s1, schema <- s2, input <- s3, sent <- s4
Kit == INSTANCE Conformance
         WITH config <- s1, harness <- s2, first <- s3, rows <- s4, report <- s5, defects <- s6

Init ==
    \/ ProvedInit
    \/ part = "settings" /\ Services!Init /\ Unused7
    \/ part = "archives" /\ Archives!Init /\ Unused6
    \/ part = "features" /\ Features!Init /\ Unused7
    \/ part = "values" /\ Values!Init /\ Unused5
    \/ part = "kit" /\ Kit!Init /\ Unused7

Next ==
    \/ ProvedNext
    \/ part = "settings" /\ Services!Next /\ UNCHANGED <<part, From7>>
    \/ part = "archives" /\ Archives!Next /\ UNCHANGED <<part, From6>>
    \/ part = "features" /\ Features!Next /\ UNCHANGED <<part, From7>>
    \/ part = "values" /\ Values!Next /\ UNCHANGED <<part, From5>>
    \/ part = "kit" /\ Kit!Next /\ UNCHANGED <<part, From7>>

Spec == Init /\ [][Next]_vars

-----------------------------------------------------------------------------
(* The properties of the parts; each is stated and explained in its module. *)

\* extractMidnightContractZip, stripZipForFunction and FunctionDecorationsService: what is
\* extracted belongs together, and a secret is asked for where one is needed.
ArchivesRight == Of("archives", Archives!ArtifactsTogether /\ Archives!SecretsAsked)

\* The connection tests and the readers of the settings: a setting tested with success is
\* the one asked by those who read the store it is saved in, and readers that resolve a
\* setting by themselves agree where ReadersAgree says.
SettingsAgree == Of("settings", Services!TestedIsUsed /\ Services!ReadersAgree)

\* getCapabilities, and the calls that are guarded by them: OpenZeppelin's contracts are
\* taken for what they are, and functions called are there, but for those no flag looks at
\* (Unguarded: the delay of the default admin, Stellar's get_admin).
FeaturesFit ==
    Of("features", Features!FlagsFit /\ Features!CallsFit /\ Features!RolesKnownOnce)

\* From the form to the ScVal of a Stellar call: what is sent is what was entered.
ValuesRight == Of("values", Values!ValuesRight)

\* checkConformance: a report fails for the violations there were, and for no others.
ConformanceJudged == Of("kit", Kit!VerdictIsRight /\ Kit!NothingDropped)
=============================================================================
