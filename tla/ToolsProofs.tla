----------------------------- MODULE ToolsProofs -----------------------------
(***************************************************************************)
(* Proofs about what a command goes through before and beside the servers: *)
(* the configuration, the generator of models and the framing of messages, *)
(* each by itself and for every value of its constants.                    *)
(***************************************************************************)
EXTENDS WireProtocol, Config, ModelGen, TLAPS, SequenceTheorems

(***************************************************************************)
(* The configuration, for any number of keys set and of dotenv files.      *)
(***************************************************************************)

Places == {"edit", "dotenv", "base", "overlay", "resolve", "validate", "wire", "running",
           "load_failed", "refused", "wire_failed"}

Envs == {"", "prod", "test"}
Processes == {"", "process", "dotenv1", "dotenv2", "dotenv3", "dotenv4"}

Loads == [at : Places, overlayEnv : Envs, base : Files \cup {None}, named : BOOLEAN,
          overlay : Files \cup {None}, reported : Files \cup {None},
          plain : {"default", "base", "overlay"}, process : Processes]

\* Of the many keys the layers say two, app.env and the secret.
LoadTypes ==
    /\ load \in Loads
    /\ "Env" \in DOMAIN cfg /\ "Secret" \in DOMAIN cfg
    /\ launch.flag \in Envs /\ launch.appEnv \in Envs /\ launch.dotenv \subseteq 1 .. 4

\* The overlay is the one that was asked for, from when it is selected.
OverlayInv ==
    load.at # "edit" =>
        load.overlayEnv = IF launch.flag # "" THEN launch.flag ELSE launch.appEnv

\* The dotenv files that are read.
FoundDotenv == {i \in launch.dotenv : load.overlayEnv # "" \/ i > 2}

\* What the environment says once the dotenv files are read.
ProcessInv ==
    load.at \notin {"edit", "dotenv"} =>
        /\ launch.secret = "set" => load.process = "process"
        /\ launch.secret = "unset" /\ FoundDotenv # {} =>
            \E i \in FoundDotenv : load.process = Dotenvs[i] /\ \A j \in FoundDotenv : i <= j
        /\ launch.secret # "set" /\ ~(launch.secret = "unset" /\ FoundDotenv # {}) =>
            load.process = ""

Says(f) == f # None /\ launch.file[f] = "full"

\* What the files that were read leave in a key that both of them may set.
FileInv ==
    /\ load.at \in {"edit", "dotenv", "base"} => load.base = None
    /\ load.at \in {"edit", "dotenv", "base", "overlay"} => load.overlay = None
    /\ load.named => load.base[2] = "config"
    /\ load.overlay # None => load.overlayEnv # "" /\ load.base[2] = "config"
    /\ load.at \in {"overlay", "resolve"} \/ Loaded =>
        /\ Says(load.overlay) => load.plain = "overlay"
        /\ ~Says(load.overlay) /\ Says(load.base) => load.plain = "base"
    /\ load.at \in {"overlay", "resolve"} \/ (Loaded /\ load.process = "") =>
        /\ Says(load.overlay) => cfg.Secret = "overlay"
        /\ ~Says(load.overlay) /\ Says(load.base) => cfg.Secret = "base"

\* What Resolve and Validate establish stays.
AcceptInv ==
    /\ Loaded /\ load.process # "" => cfg.Secret = load.process
    /\ Loaded /\ load.overlayEnv # "" => cfg.Env = load.overlayEnv
    /\ load.at \in {"wire", "running", "wire_failed"} => Validate(cfg)

ConfigInv == LoadTypes /\ OverlayInv /\ ProcessInv /\ FileInv /\ AcceptInv

\* Min is the least of a few numbers.
LEMMA LeastOfFew ==
    ASSUME NEW S, S \subseteq 1 .. 4, S # {}
    PROVE  Min(S) \in S /\ \A x \in S : Min(S) <= x
<1>1. \A y \in S : y \in Int /\ 1 <= y /\ y <= 4
  OBVIOUS
<1>2. \E x \in S : \A y \in S : x <= y
  <2>1. CASE 1 \in S
    BY <1>1, <2>1
  <2>2. CASE 1 \notin S /\ 2 \in S
    <3>1. \A y \in S : 2 <= y
      BY <1>1, <2>2
    <3> QED  BY <2>2, <3>1
  <2>3. CASE 1 \notin S /\ 2 \notin S /\ 3 \in S
    <3>1. \A y \in S : 3 <= y
      BY <1>1, <2>3
    <3> QED  BY <2>3, <3>1
  <2>4. CASE 1 \notin S /\ 2 \notin S /\ 3 \notin S
    <3>1. PICK x \in S : TRUE
      OBVIOUS
    <3>2. \A y \in S : y = 4
      BY <1>1, <2>4
    <3> QED  BY <3>1, <3>2
  <2> QED  BY <2>1, <2>2, <2>3, <2>4
<1> QED  BY <1>2 DEF Min

\* The files are files, and none of them is the absent one.
LEMMA NoFile == None \notin Files
BY DEF None, Files, File

\* A search that succeeds ends at a file that exists; it does when one is there.
LEMMA SearchFinds ==
    ASSUME NEW dirs, NEW name, DOMAIN dirs \subseteq 1 .. 4
    PROVE  /\ Search(dirs, name) # None => Exists(Search(dirs, name))
           /\ (\E i \in DOMAIN dirs : Exists(File(dirs[i], name))) =>
                  Exists(Search(dirs, name))
<1> DEFINE hits == {i \in DOMAIN dirs : Exists(File(dirs[i], name))}
<1>1. hits \subseteq 1 .. 4
  OBVIOUS
<1>2. Search(dirs, name) = IF hits = {} THEN None ELSE File(dirs[Min(hits)], name)
  BY DEF Search
<1>3. ASSUME hits # {} PROVE Exists(File(dirs[Min(hits)], name))
  <2>1. Min(hits) \in hits
    BY <1>1, <1>3, LeastOfFew
  <2> QED  BY <2>1
<1> QED  BY <1>2, <1>3

\* The overlay that is merged is there when the one beside the primary file is.
LEMMA OverlayFound ==
    ASSUME LoadTypes, Exists(Sibling)
    PROVE  Exists(Overlay) /\ load.overlayEnv # "" /\ load.named
<1>1. Sibling # None
  BY NoFile DEF Exists
<1>2. load.overlayEnv # "" /\ load.named /\ Sibling = File(load.base[1], OverlayOf[load.overlayEnv])
  BY <1>1 DEF Sibling
<1> DEFINE dirs == IF launch.path # None THEN <<load.base[1]>>
                                        ELSE <<"configs", "cwd", load.base[1]>>
           name == OverlayOf[load.overlayEnv]
<1>3. DOMAIN dirs \subseteq 1 .. 4
  <2>1. CASE launch.path # None
    BY <2>1
  <2>2. CASE ~(launch.path # None)
    BY <2>2
  <2> QED  BY <2>1, <2>2
<1>4. \E i \in DOMAIN dirs : dirs[i] = load.base[1]
  <2>1. CASE launch.path # None
    BY <2>1
  <2>2. CASE ~(launch.path # None)
    <3>1. 3 \in DOMAIN dirs /\ dirs[3] = load.base[1]
      BY <2>2
    <3> QED  BY <3>1
  <2> QED  BY <2>1, <2>2
<1>5. Overlay = Search(dirs, name)
  BY DEF Overlay
<1> HIDE DEF dirs, name
<1>6. \E i \in DOMAIN dirs : Exists(File(dirs[i], name))
  BY <1>2, <1>4 DEF name
<1>7. Exists(Overlay)
  BY <1>3, <1>5, <1>6, SearchFinds
<1> QED  BY <1>2, <1>7

\* The smallest of the dotenv files that are read, if there is one.
LEMMA FirstDotenv ==
    ASSUME LoadTypes
    PROVE  /\ FoundDotenv = launch.dotenv \ (IF load.overlayEnv = "" THEN {1, 2} ELSE {})
           /\ FoundDotenv # {} =>
                 Min(FoundDotenv) \in FoundDotenv /\ \A j \in FoundDotenv : Min(FoundDotenv) <= j
<1>1. FoundDotenv \subseteq 1 .. 4
  <2>1. launch.dotenv \subseteq 1 .. 4
    BY DEF LoadTypes
  <2> QED  BY <2>1 DEF FoundDotenv
<1>2. FoundDotenv = launch.dotenv \ (IF load.overlayEnv = "" THEN {1, 2} ELSE {})
  <2>1. \A i \in launch.dotenv : i \in Nat /\ i >= 1
    BY DEF LoadTypes
  <2>2. \A i \in launch.dotenv : i > 2 <=> i \notin {1, 2}
    BY <2>1
  <2> QED  BY <2>2 DEF FoundDotenv
<1> QED  BY <1>1, <1>2, LeastOfFew

\* A step that only moves on.
LEMMA OnlyMoves ==
    ASSUME load \in Loads, NEW a \in Places, load' = [load EXCEPT !.at = a]
    PROVE  /\ load' \in Loads /\ load'.at = a
           /\ load'.overlayEnv = load.overlayEnv /\ load'.base = load.base
           /\ load'.named = load.named /\ load'.overlay = load.overlay
           /\ load'.plain = load.plain /\ load'.process = load.process
BY DEF Loads, Places

\* What each update of the record of the loading leaves alone.
LEMMA OverlayUpdate ==
    ASSUME load \in Loads, NEW env \in Envs,
           load' = [load EXCEPT !.at = "dotenv", !.overlayEnv = env]
    PROVE  /\ load' \in Loads /\ load'.at = "dotenv" /\ load'.overlayEnv = env
           /\ load'.base = load.base /\ load'.named = load.named /\ load'.overlay = load.overlay
BY DEF Loads, Places

LEMMA ProcessUpdate ==
    ASSUME load \in Loads, NEW value \in Processes,
           load' = [load EXCEPT !.at = "base", !.process = value]
    PROVE  /\ load' \in Loads /\ load'.at = "base" /\ load'.overlayEnv = load.overlayEnv
           /\ load'.base = load.base /\ load'.named = load.named /\ load'.overlay = load.overlay
           /\ load'.process = value
BY DEF Loads, Places

LEMMA BaseUpdate ==
    ASSUME load \in Loads, NEW base \in Files, NEW named \in BOOLEAN, NEW plain \in {"default", "base", "overlay"},
           load' = [load EXCEPT !.at = "overlay", !.base = base, !.named = named, !.plain = plain]
    PROVE  /\ load' \in Loads /\ load'.at = "overlay" /\ load'.overlayEnv = load.overlayEnv
           /\ load'.base = base /\ load'.overlay = load.overlay /\ load'.named = named
           /\ load'.plain = plain /\ load'.process = load.process
BY DEF Loads, Places

LEMMA MergeUpdate ==
    ASSUME load \in Loads, NEW over \in Files, NEW sibling \in Files, NEW plain \in {"default", "base", "overlay"},
           load' = [load EXCEPT !.at = "resolve", !.overlay = over, !.reported = sibling,
                                !.plain = plain]
    PROVE  /\ load' \in Loads /\ load'.at = "resolve" /\ load'.overlayEnv = load.overlayEnv
           /\ load'.base = load.base /\ load'.overlay = over /\ load'.named = load.named
           /\ load'.plain = plain /\ load'.process = load.process
BY DEF Loads, Places

\* A step of the validation or the wiring, or a failure, changes neither the layers
\* nor the configuration.
LEMMA MovesOn ==
    ASSUME ConfigInv, NEW a \in Places, load' = [load EXCEPT !.at = a], UNCHANGED <<launch, cfg>>,
           load.at \notin {"edit", "dotenv"},
           \/ a = "load_failed"
           \/ a = "overlay" /\ load.at = "base" /\ load.base = None
           \/ a = "resolve" /\ load.at = "overlay"
           \/ a \in {"refused", "wire"} /\ load.at = "validate" /\ (a = "wire" => Validate(cfg))
           \/ a \in {"running", "wire_failed"} /\ load.at = "wire"
    PROVE  ConfigInv'
<1>1. /\ load' \in Loads /\ load'.at = a
      /\ load'.overlayEnv = load.overlayEnv /\ load'.base = load.base
      /\ load'.named = load.named /\ load'.overlay = load.overlay
      /\ load'.plain = load.plain /\ load'.process = load.process
  BY OnlyMoves DEF ConfigInv, LoadTypes
<1>2. LoadTypes' /\ OverlayInv'
  BY <1>1 DEF ConfigInv, LoadTypes, OverlayInv
<1>3. FoundDotenv' = FoundDotenv
  BY <1>1 DEF FoundDotenv
<1>4. ProcessInv'
  BY <1>1, <1>3 DEF ConfigInv, ProcessInv
<1>5. FileInv'
  BY <1>1 DEF ConfigInv, FileInv, Loaded, Says
<1>6. AcceptInv'
  BY <1>1 DEF ConfigInv, AcceptInv, Loaded
<1> QED  BY <1>2, <1>4, <1>5, <1>6 DEF ConfigInv

\* A key that the primary file sets changes nothing that the loading has found out.
LEMMA EditStep ==
    ASSUME ConfigInv, NEW f, NEW v, Edit(f, v)
    PROVE  ConfigInv'
<1>1. load' = load /\ launch' = launch /\ load.at = "edit" /\ DOMAIN cfg' = DOMAIN cfg
  BY DEF Edit, At
<1>2. LoadTypes' /\ OverlayInv' /\ ProcessInv'
  BY <1>1 DEF ConfigInv, LoadTypes, OverlayInv, ProcessInv
<1>3. FileInv' /\ AcceptInv'
  BY <1>1 DEF ConfigInv, FileInv, AcceptInv, Loaded
<1> QED  BY <1>2, <1>3 DEF ConfigInv

\* The flag wins over APP_ENV.
LEMMA SelectStep == ConfigInv /\ SelectOverlay => ConfigInv'
<1> SUFFICES ASSUME ConfigInv, SelectOverlay PROVE ConfigInv'
  OBVIOUS
<1> DEFINE env == IF launch.flag # "" THEN launch.flag ELSE launch.appEnv
<1>1. /\ load.at = "edit" /\ UNCHANGED <<launch, cfg>>
      /\ load' = [load EXCEPT !.at = "dotenv", !.overlayEnv = env]
  BY DEF SelectOverlay, At
<1>2. env \in Envs /\ load \in Loads
  BY DEF ConfigInv, LoadTypes
<1>3. env = IF launch.flag # "" THEN launch.flag ELSE launch.appEnv
  OBVIOUS
<1> HIDE DEF env
<1>4. /\ load' \in Loads /\ load'.at = "dotenv" /\ load'.overlayEnv = env
      /\ load'.base = load.base /\ load'.named = load.named /\ load'.overlay = load.overlay
  BY <1>1, <1>2, OverlayUpdate, Zenon
<1>5. LoadTypes' /\ OverlayInv' /\ ProcessInv'
  BY <1>1, <1>3, <1>4 DEF ConfigInv, LoadTypes, OverlayInv, ProcessInv
<1>6. FileInv' /\ AcceptInv'
  BY <1>1, <1>4 DEF ConfigInv, FileInv, AcceptInv, Loaded
<1> QED  BY <1>5, <1>6 DEF ConfigInv

\* The process comes before the dotenv files, and the first of these before the others.
LEMMA DotenvStep == ConfigInv /\ loadDotenvFiles => ConfigInv'
<1> SUFFICES ASSUME ConfigInv, loadDotenvFiles PROVE ConfigInv'
  OBVIOUS
<1> DEFINE value == CASE launch.secret = "set" -> "process"
                      [] launch.secret = "unset" /\ FoundDotenv # {} -> Dotenvs[Min(FoundDotenv)]
                      [] OTHER -> ""
<1>1. /\ FoundDotenv = launch.dotenv \ (IF load.overlayEnv = "" THEN {1, 2} ELSE {})
      /\ FoundDotenv # {} =>
            Min(FoundDotenv) \in FoundDotenv /\ \A j \in FoundDotenv : Min(FoundDotenv) <= j
  BY FirstDotenv DEF ConfigInv
<1>2. /\ load.at = "dotenv" /\ UNCHANGED <<launch, cfg>>
      /\ load' = [load EXCEPT !.at = "base", !.process = value]
  BY <1>1 DEF loadDotenvFiles, At
<1>3. /\ launch.secret = "set" => value = "process"
      /\ launch.secret = "unset" /\ FoundDotenv # {} => value = Dotenvs[Min(FoundDotenv)]
      /\ launch.secret # "set" /\ ~(launch.secret = "unset" /\ FoundDotenv # {}) => value = ""
  OBVIOUS
<1>4. value \in Processes
  <2>1. FoundDotenv \subseteq 1 .. 4
    BY DEF ConfigInv, LoadTypes, FoundDotenv
  <2>2. \A i \in 1 .. 4 : Dotenvs[i] \in Processes
    <3>1. \A i \in 1 .. 4 : i = 1 \/ i = 2 \/ i = 3 \/ i = 4
      OBVIOUS
    <3>2. /\ Dotenvs[1] = "dotenv1" /\ Dotenvs[2] = "dotenv2"
          /\ Dotenvs[3] = "dotenv3" /\ Dotenvs[4] = "dotenv4"
      BY DEF Dotenvs
    <3> QED  BY <3>1, <3>2 DEF Processes
  <2> QED  BY <1>1, <1>3, <2>1, <2>2 DEF Processes
<1> HIDE DEF value
<1>5. /\ load' \in Loads /\ load'.at = "base" /\ load'.overlayEnv = load.overlayEnv
      /\ load'.base = load.base /\ load'.named = load.named /\ load'.overlay = load.overlay
      /\ load'.process = value
  <2>1. load \in Loads
    BY DEF ConfigInv, LoadTypes
  <2> QED  BY <1>2, <1>4, <2>1, ProcessUpdate, Zenon
<1>6. FoundDotenv' = FoundDotenv
  BY <1>2, <1>5 DEF FoundDotenv
<1>7. LoadTypes' /\ OverlayInv'
  BY <1>2, <1>5 DEF ConfigInv, LoadTypes, OverlayInv
<1>8. ProcessInv'
  BY <1>1, <1>2, <1>3, <1>5, <1>6 DEF ProcessInv
<1>9. FileInv' /\ AcceptInv'
  BY <1>2, <1>5 DEF ConfigInv, FileInv, AcceptInv, Loaded
<1> QED  BY <1>7, <1>8, <1>9 DEF ConfigInv

\* The primary file says what it says over the defaults.
LEMMA PrimaryStep == ConfigInv /\ ReadPrimary => ConfigInv'
<1> SUFFICES ASSUME ConfigInv, ReadPrimary PROVE ConfigInv'
  OBVIOUS
<1> DEFINE base == Primary
           full == launch.file[base] = "full"
           named == (base[2] = "config")
           plain == IF full THEN "base" ELSE load.plain
<1>1. /\ load.at = "base" /\ launch' = launch /\ base \in Files
      /\ load' = [load EXCEPT !.at = "overlay", !.base = base, !.named = named, !.plain = plain]
      /\ cfg' = IF full THEN [cfg EXCEPT !.Env = "test", !.Secret = "base"] ELSE cfg
  BY DEF ReadPrimary, At, Exists
<1>2. named \in BOOLEAN /\ plain \in {"default", "base", "overlay"} /\ load \in Loads
  <2>1. load \in Loads
    BY DEF ConfigInv, LoadTypes
  <2>2. load.plain \in {"default", "base", "overlay"}
    BY <2>1 DEF Loads
  <2>3. named \in BOOLEAN
    BY Zenon
  <2>4. plain \in {"default", "base", "overlay"}
    BY <2>2
  <2> QED  BY <2>1, <2>3, <2>4, Zenon
<1>3. (named => base[2] = "config") /\ (full => plain = "base")
  OBVIOUS
<1>4. /\ DOMAIN cfg' = DOMAIN cfg
      /\ full => cfg'.Secret = "base"
  BY <1>1 DEF ConfigInv, LoadTypes
<1>5. base # None
  BY <1>1, NoFile
<1> HIDE DEF named, plain, base
<1>6. /\ load' \in Loads /\ load'.at = "overlay" /\ load'.overlayEnv = load.overlayEnv
      /\ load'.base = base /\ load'.overlay = load.overlay /\ load'.named = named
      /\ load'.plain = plain /\ load'.process = load.process
  BY <1>1, <1>2, BaseUpdate, Zenon
<1>7. LoadTypes' /\ OverlayInv'
  BY <1>1, <1>4, <1>6 DEF ConfigInv, LoadTypes, OverlayInv
<1>8. FoundDotenv' = FoundDotenv
  BY <1>1, <1>6 DEF FoundDotenv
<1>9. ProcessInv'
  BY <1>1, <1>6, <1>8 DEF ConfigInv, ProcessInv
<1>10. FileInv'
  BY <1>1, <1>3, <1>4, <1>5, <1>6 DEF ConfigInv, FileInv, Loaded, Says
<1>11. AcceptInv'
  BY <1>6 DEF AcceptInv, Loaded
<1> QED  BY <1>7, <1>9, <1>10, <1>11 DEF ConfigInv

\* The overlay says what it says over the primary file.
LEMMA OverlayStep == ConfigInv /\ MergeOverlay => ConfigInv'
<1> SUFFICES ASSUME ConfigInv, MergeOverlay PROVE ConfigInv'
  OBVIOUS
<1> DEFINE over == Overlay
           full == launch.file[over] = "full"
           plain == IF full THEN "overlay" ELSE load.plain
<1>1. Exists(over) /\ load.overlayEnv # "" /\ load.named
  BY OverlayFound DEF MergeOverlay, ConfigInv
<1>2. /\ load.at = "overlay" /\ launch' = launch /\ Sibling \in Files
      /\ load' = [load EXCEPT !.at = "resolve", !.overlay = over, !.reported = Sibling,
                              !.plain = plain]
      /\ cfg' = IF full THEN [cfg EXCEPT !.Secret = "overlay"] ELSE cfg
  BY DEF MergeOverlay, At, Exists
<1>3. plain \in {"default", "base", "overlay"} /\ load \in Loads
  <2>1. load \in Loads
    BY DEF ConfigInv, LoadTypes
  <2>2. load.plain \in {"default", "base", "overlay"}
    BY <2>1 DEF Loads
  <2>3. plain \in {"default", "base", "overlay"}
    BY <2>2
  <2> QED  BY <2>1, <2>3, Zenon
<1>4. over \in Files /\ over # None
  BY <1>1, NoFile DEF Exists
<1>5. /\ DOMAIN cfg' = DOMAIN cfg
      /\ full => cfg'.Secret = "overlay"
      /\ ~full => cfg'.Secret = cfg.Secret
  BY <1>2 DEF ConfigInv, LoadTypes
<1>6. (full => plain = "overlay") /\ (~full => plain = load.plain)
  OBVIOUS
<1>7. load.base[2] = "config"
  BY <1>1 DEF ConfigInv, FileInv
<1> HIDE DEF plain, over
<1>8. /\ load' \in Loads /\ load'.at = "resolve" /\ load'.overlayEnv = load.overlayEnv
      /\ load'.base = load.base /\ load'.overlay = over /\ load'.named = load.named
      /\ load'.plain = plain /\ load'.process = load.process
  BY <1>2, <1>3, <1>4, MergeUpdate, Zenon
<1>9. LoadTypes' /\ OverlayInv'
  BY <1>2, <1>5, <1>8 DEF ConfigInv, LoadTypes, OverlayInv
<1>10. FoundDotenv' = FoundDotenv
  BY <1>2, <1>8 DEF FoundDotenv
<1>11. ProcessInv'
  BY <1>2, <1>8, <1>10 DEF ConfigInv, ProcessInv
<1>12. FileInv'
  <2>1. /\ Says(load.overlay)' <=> full
        /\ Says(load.base)' <=> Says(load.base)
        /\ ~Says(load.overlay)
    BY <1>2, <1>4, <1>8 DEF Says, ConfigInv, FileInv
  <2>2. Says(load.base) => load.plain = "base" /\ cfg.Secret = "base"
    BY <1>2, <2>1 DEF ConfigInv, FileInv
  <2> QED  BY <1>1, <1>5, <1>6, <1>7, <1>8, <2>1, <2>2 DEF FileInv, Loaded
<1>13. AcceptInv'
  BY <1>8 DEF AcceptInv, Loaded
<1> QED  BY <1>9, <1>11, <1>12, <1>13 DEF ConfigInv

\* A variable that is not empty wins over the files, the overlay's name over app.env.
LEMMA ResolveStep == ConfigInv /\ Resolve => ConfigInv'
<1> SUFFICES ASSUME ConfigInv, Resolve PROVE ConfigInv'
  OBVIOUS
<1> DEFINE secret == IF load.process # "" THEN load.process ELSE cfg.Secret
           env == IF load.overlayEnv # "" THEN load.overlayEnv
                  ELSE IF cfg.Env # "" THEN cfg.Env ELSE "dev"
<1>1. /\ load.at = "resolve" /\ launch' = launch /\ load' = [load EXCEPT !.at = "validate"]
      /\ cfg' = [cfg EXCEPT !.Secret = secret, !.Env = env]
  BY DEF Resolve, At
<1>2. /\ load.process # "" => secret = load.process
      /\ load.process = "" => secret = cfg.Secret
      /\ load.overlayEnv # "" => env = load.overlayEnv
  OBVIOUS
<1> HIDE DEF secret, env
<1>3. DOMAIN cfg' = DOMAIN cfg /\ cfg'.Secret = secret /\ cfg'.Env = env
  BY <1>1 DEF ConfigInv, LoadTypes
<1>4. /\ load' \in Loads /\ load'.at = "validate"
      /\ load'.overlayEnv = load.overlayEnv /\ load'.base = load.base
      /\ load'.named = load.named /\ load'.overlay = load.overlay
      /\ load'.plain = load.plain /\ load'.process = load.process
  <2>1. load \in Loads /\ "validate" \in Places
    BY DEF ConfigInv, LoadTypes, Places
  <2> QED  BY <1>1, <2>1, OnlyMoves, Zenon
<1>5. LoadTypes' /\ OverlayInv'
  BY <1>1, <1>3, <1>4 DEF ConfigInv, LoadTypes, OverlayInv
<1>6. FoundDotenv' = FoundDotenv
  BY <1>1, <1>4 DEF FoundDotenv
<1>7. ProcessInv'
  BY <1>1, <1>4, <1>6 DEF ConfigInv, ProcessInv
<1>8. FileInv'
  BY <1>1, <1>2, <1>3, <1>4 DEF ConfigInv, FileInv, Loaded, Says
<1>9. AcceptInv'
  BY <1>2, <1>3, <1>4 DEF AcceptInv, Loaded
<1> QED  BY <1>5, <1>7, <1>8, <1>9 DEF ConfigInv

\* Every command starts with a configuration of the defaults and nothing read.
LEMMA ConfigStarts == ConfigInit => ConfigInv
<1> SUFFICES ASSUME ConfigInit PROVE ConfigInv
  OBVIOUS
<1>1. load = Start /\ cfg = SampleDatabase
  BY DEF ConfigInit
<1>2. /\ launch.flag \in Envs /\ launch.appEnv \in Envs /\ launch.dotenv \subseteq 1 .. 4
  BY DEF ConfigInit, Envs
<1>3. /\ Start \in Loads /\ Start.at = "edit" /\ Start.overlay = None /\ Start.base = None
      /\ Start.named = FALSE
  BY DEF Start, Loads, Places, Envs, Processes
<1>4. "Env" \in DOMAIN cfg /\ "Secret" \in DOMAIN cfg
  <2>1. "Env" \in DOMAIN setDefaults /\ "Secret" \in DOMAIN setDefaults
    BY DEF setDefaults
  <2> QED  BY <1>1, <2>1 DEF SampleDatabase
<1>5. LoadTypes
  BY <1>1, <1>2, <1>3, <1>4 DEF LoadTypes
<1>6. OverlayInv /\ ProcessInv /\ FileInv /\ AcceptInv
  BY <1>1, <1>3 DEF OverlayInv, ProcessInv, FileInv, AcceptInv, Loaded
<1> QED  BY <1>5, <1>6 DEF ConfigInv

\* The configuration is layered as documented at every point of a command.
THEOREM ConfigInvariant == ConfigSpec => []ConfigInv
<1>1. ConfigInit => ConfigInv
  BY ConfigStarts
<1>2. ConfigInv /\ [ConfigNext]_configVars => ConfigInv'
  <2> SUFFICES ASSUME ConfigInv, [ConfigNext]_configVars PROVE ConfigInv'
    OBVIOUS
  <2>1. ASSUME NEW f \in DOMAIN Domain, NEW v \in Domain[f], Edit(f, v) PROVE ConfigInv'
    BY <2>1, EditStep
  <2>2. CASE SelectOverlay \/ loadDotenvFiles \/ ReadPrimary \/ MergeOverlay \/ Resolve
    BY <2>2, SelectStep, DotenvStep, PrimaryStep, OverlayStep, ResolveStep
  <2>3. CASE ReadPrimaryFails \/ MergeOverlayFails
    <3>1. /\ load' = [load EXCEPT !.at = "load_failed"] /\ UNCHANGED <<launch, cfg>>
          /\ load.at \in {"base", "overlay"}
      BY <2>3 DEF ReadPrimaryFails, MergeOverlayFails, Fails, At
    <3>2. "load_failed" \in Places
      BY DEF Places
    <3> QED  BY <3>1, <3>2, MovesOn
  <2>4. CASE ReadNone
    <3>1. /\ load' = [load EXCEPT !.at = "overlay"] /\ UNCHANGED <<launch, cfg>>
          /\ load.at = "base"
      BY <2>4 DEF ReadNone, At
    <3>2. "overlay" \in Places
      BY DEF Places
    <3>3. load.base = None
      BY <3>1 DEF ConfigInv, FileInv
    <3> QED  BY <3>1, <3>2, <3>3, MovesOn
  <2>5. CASE NoOverlay
    <3>1. /\ load' = [load EXCEPT !.at = "resolve"] /\ UNCHANGED <<launch, cfg>>
          /\ load.at = "overlay"
      BY <2>5 DEF NoOverlay, At
    <3>2. "resolve" \in Places
      BY DEF Places
    <3> QED  BY <3>1, <3>2, MovesOn
  <2>6. CASE Accept
    <3>1. /\ load' = [load EXCEPT !.at = "wire"] /\ UNCHANGED <<launch, cfg>>
          /\ load.at = "validate" /\ Validate(cfg)
      BY <2>6 DEF Accept, At
    <3>2. "wire" \in Places
      BY DEF Places
    <3> QED  BY <3>1, <3>2, MovesOn
  <2>7. CASE Refuse
    <3>1. /\ load' = [load EXCEPT !.at = "refused"] /\ UNCHANGED <<launch, cfg>>
          /\ load.at = "validate"
      BY <2>7 DEF Refuse, Fails, At
    <3>2. "refused" \in Places
      BY DEF Places
    <3> QED  BY <3>1, <3>2, MovesOn
  <2>8. CASE Wire
    <3>1. /\ load' = [load EXCEPT !.at = "running"] /\ UNCHANGED <<launch, cfg>>
          /\ load.at = "wire"
      BY <2>8 DEF Wire, At
    <3>2. "running" \in Places
      BY DEF Places
    <3> QED  BY <3>1, <3>2, MovesOn
  <2>9. CASE WireFails
    <3>1. /\ load' = [load EXCEPT !.at = "wire_failed"] /\ UNCHANGED <<launch, cfg>>
          /\ load.at = "wire"
      BY <2>9 DEF WireFails, Fails, At
    <3>2. "wire_failed" \in Places
      BY DEF Places
    <3> QED  BY <3>1, <3>2, MovesOn
  <2>10. CASE UNCHANGED configVars
    BY <2>10 DEF configVars, ConfigInv, LoadTypes, OverlayInv, ProcessInv, FoundDotenv, FileInv,
                 Says, AcceptInv, Loaded
  <2> QED  BY <2>1, <2>2, <2>3, <2>4, <2>5, <2>6, <2>7, <2>8, <2>9, <2>10 DEF ConfigNext
<1> QED  BY <1>1, <1>2, PTL DEF ConfigSpec

\* Whatever files and variables there are, and however many keys the primary file sets, a
\* secret comes from the highest layer that has one (config.go 280-365, 577-604).
THEOREM LayersInOrder == ConfigSpec => []PriorityHolds
<1>1. ConfigInv => PriorityHolds
  <2> SUFFICES ASSUME ConfigInv, Loaded PROVE PriorityHolds
    BY DEF PriorityHolds
  <2> DEFINE file == CASE Says(load.overlay) -> "overlay"
                       [] ~Says(load.overlay) /\ Says(load.base) -> "base"
                       [] OTHER -> ""
  <2>1. /\ Says(load.overlay) => file = "overlay"
        /\ ~Says(load.overlay) /\ Says(load.base) => file = "base"
        /\ ~Says(load.overlay) /\ ~Says(load.base) => file = ""
    OBVIOUS
  <2>2. load.overlay # None => load.overlayEnv # "" /\ load.base[2] = "config"
    BY DEF ConfigInv, FileInv
  <2> HIDE DEF file
  <2>3. file # "" => load.plain = file
    BY <2>1 DEF ConfigInv, FileInv
  <2>4. launch.secret = "set" => cfg.Secret = "process"
    BY DEF ConfigInv, ProcessInv, AcceptInv, Loaded
  <2>5. ASSUME launch.secret = "unset", FoundDotenv # {}
        PROVE  \E i \in FoundDotenv : cfg.Secret = Dotenvs[i] /\ \A j \in FoundDotenv : i <= j
    <3>1. PICK i \in FoundDotenv : load.process = Dotenvs[i] /\ \A j \in FoundDotenv : i <= j
      BY <2>5 DEF ConfigInv, ProcessInv, Loaded
    <3>2. Dotenvs[i] # ""
      <4>1. i \in 1 .. 4
        BY DEF ConfigInv, LoadTypes, FoundDotenv
      <4>2. i = 1 \/ i = 2 \/ i = 3 \/ i = 4
        BY <4>1
      <4>3. /\ Dotenvs[1] = "dotenv1" /\ Dotenvs[2] = "dotenv2"
            /\ Dotenvs[3] = "dotenv3" /\ Dotenvs[4] = "dotenv4"
        BY DEF Dotenvs
      <4> QED  BY <4>2, <4>3
    <3> QED  BY <3>1, <3>2 DEF ConfigInv, AcceptInv
  <2>6. launch.secret # "set" /\ ~(launch.secret = "unset" /\ FoundDotenv # {}) =>
          (file # "" => cfg.Secret = file)
    <3>1. launch.secret # "set" /\ ~(launch.secret = "unset" /\ FoundDotenv # {}) =>
            load.process = ""
      BY DEF ConfigInv, ProcessInv, Loaded
    <3> QED  BY <2>1, <3>1 DEF ConfigInv, FileInv
  <2>7. CASE launch.secret = "set"
    BY <2>2, <2>3, <2>4, <2>7 DEF PriorityHolds, file, Says, FoundDotenv
  <2>8. CASE launch.secret = "unset" /\ FoundDotenv # {}
    BY <2>2, <2>3, <2>5, <2>8 DEF PriorityHolds, file, Says, FoundDotenv
  <2>9. CASE launch.secret # "set" /\ ~(launch.secret = "unset" /\ FoundDotenv # {})
    BY <2>2, <2>3, <2>6, <2>9 DEF PriorityHolds, file, Says, FoundDotenv
  <2> QED  BY <2>7, <2>8, <2>9
<1> QED  BY <1>1, ConfigInvariant, PTL

\* What was accepted runs as it was asked for: for production with a token on the admin
\* routes, and never with a limit or a cache of this process alone in place of a shared
\* one (config.go 355-363, 394-404, 452-456, app/http.go 29, server/http.go 103-112).
THEOREM RunsAsAskedFor == ConfigSpec => []AcceptedIsWired
<1>1. ConfigInv => AcceptedIsWired
  <2> SUFFICES ASSUME ConfigInv, load.at = "running" PROVE AcceptedIsWired
    BY DEF AcceptedIsWired
  <2>1. /\ Validate(cfg) /\ (load.overlayEnv # "" => cfg.Env = load.overlayEnv)
        /\ load.overlayEnv = IF launch.flag # "" THEN launch.flag ELSE launch.appEnv
    BY DEF ConfigInv, AcceptInv, OverlayInv, Loaded
  <2>2. /\ cfg.Env = "prod" => cfg.Secret # ""
        /\ cfg.RateEnabled /\ cfg.RateStore = "redis" => cfg.RedisEnabled
        /\ cfg.CacheEnabled /\ cfg.CacheDriver \in {"redis", "multi"} => cfg.RedisEnabled
    BY <2>1, Zenon DEF Validate
  <2>3. load.overlayEnv = "prod" /\ cfg.HTTPEnabled => RequireAdminAuth(cfg)
    BY <2>1, <2>2 DEF RequireAdminAuth
  <2>4. launch.flag = "prod" \/ (launch.flag = "" /\ launch.appEnv = "prod") => cfg.Env = "prod"
    BY <2>1
  <2>5. /\ cfg.RateEnabled /\ cfg.RateStore = "redis" => LimiterStore(cfg) = "redis"
        /\ cfg.CacheEnabled /\ cfg.CacheDriver \in {"redis", "multi"} => RedisClient(cfg)
    BY <2>2 DEF LimiterStore, RedisClient
  <2> QED  BY <2>3, <2>4, <2>5 DEF AcceptedIsWired
<1> QED  BY <1>1, ConfigInvariant, PTL
(***************************************************************************)
(* The generator of models, for any tables, keys and declarations.         *)
(***************************************************************************)

Merging == {"merge", "load", "annotate"}
Detected == {"join", "validate", "write", "done"}

RelationFields == {"Type", "Through", "Source", "SourceColumn", "Target", "TargetColumn", "Field",
                   "ReverseField", "HasOne", "M2MJoin", "SkipReverse"}

\* A relation has all its fields and is between tables.
IsRelation(r) ==
    /\ DOMAIN r = RelationFields
    /\ r.Source \in Tables /\ r.Target \in Tables /\ r.Through \in Tables \cup {""}

\* Both ends of a relation are generated, from when it is known.
Ends(rs, tables) == ~ input.noExpand => \A r \in rs : r.Source \in tables /\ r.Target \in tables

\* A key whose reverse is one has a source that is unique.
Constrained(r) ==
    LET cols == splitCompositeColumns(r.SourceColumn) IN
    \/ cols = pkOf(r.Source)
    \/ \E i \in DOMAIN constraintsOf(r.Source) : cols = constraintsOf(r.Source)[i]
OnesUnique(rs) == \A r \in rs : ~ IsM2M(r) /\ r.HasOne => Constrained(r)

\* A many-to-many stands in for the reverse of a key.
StandsIn(m, r) == IsM2M(m) /\ m.Through = r.Source /\ r.Target \in {m.Source, m.Target}
Replaced(rs) == \A r \in rs : ~ IsM2M(r) /\ r.SkipReverse => \E m \in rs : StandsIn(m, r)

\* What holds where: nothing is known of a key before its table is read.
GenHolds(at, tables, rs) ==
    /\ at \in {"expand", "detect", "failed"} \cup Merging \cup Detected
    /\ tables \subseteq Tables /\ \A r \in rs : IsRelation(r)
    /\ at \in Merging => \A r \in rs : r.HasOne = FALSE
    /\ at \in Merging \cup {"detect"} => \A r \in rs : r.SkipReverse = FALSE
    /\ at # "failed" => Ends(rs, tables)
    /\ at \in Detected \cup {"detect"} => OnesUnique(rs)
    /\ at \in Detected => NoConflict(rs) /\ Replaced(rs)
    /\ at \in {"write", "done"} => validateRelationColumns(rs)

GenFields == {"at", "tables", "relations", "loaded", "written"}

GenInv ==
    /\ input.schema \in Schemas
    /\ \A r \in input.declared : Unmarshalled(r)
    /\ \A r \in input.physical : Physical(r)
    /\ DOMAIN gen = GenFields
    /\ GenHolds(gen.at, gen.tables, gen.relations)
    /\ gen.at = "done" => gen.written = gen.tables \ input.exclude

\* What merging overrides are names and the table a relation goes through.
LEMMA OverrideKeeps ==
    ASSUME NEW r, NEW s, IsRelation(r), IsRelation(s)
    PROVE  LET x == Override(r, s) IN
           /\ IsRelation(x)
           /\ x.Type = r.Type /\ x.Source = r.Source /\ x.SourceColumn = r.SourceColumn
           /\ x.Target = r.Target /\ x.TargetColumn = r.TargetColumn
           /\ x.HasOne = r.HasOne /\ x.SkipReverse = r.SkipReverse
           /\ x.Through = Or(s.Through, r.Through)
  BY DEF Override, IsRelation, RelationFields, Or

\* A merged relation is one of either side, or one of the first side overridden.
LEMMA MergedIs ==
    ASSUME NEW rs, NEW more, NEW x \in Merge(rs, more)
    PROVE  \/ x \in rs
           \/ x \in more
           \/ \E r \in rs : \E s \in more : key(s) = key(r) /\ x = Override(r, s)
<1>1. CASE x \in more
  BY <1>1
<1>2. ASSUME x \notin more
      PROVE  x \in rs \/ \E r \in rs : \E s \in more : key(s) = key(r) /\ x = Override(r, s)
  <2> DEFINE same(r) == {s \in more : key(s) = key(r)}
  <2>1. PICK r \in rs : x = IF same(r) = {} THEN r ELSE Override(r, CHOOSE s \in same(r) : TRUE)
    BY <1>2 DEF Merge
  <2>2. CASE same(r) = {}
    BY <2>1, <2>2
  <2>3. CASE same(r) # {}
    <3> DEFINE s == CHOOSE s \in same(r) : TRUE
    <3>1. s \in same(r)
      BY <2>3
    <3>2. x = Override(r, s)
      BY <2>1, <2>3
    <3> HIDE DEF s
    <3> QED  BY <3>1, <3>2
  <2> QED  BY <2>2, <2>3
<1> QED  BY <1>1, <1>2

\* Merging keeps ends, and what is known of keys.
Keeps(x, r) ==
    /\ x.Type = r.Type /\ x.Source = r.Source /\ x.SourceColumn = r.SourceColumn
    /\ x.Target = r.Target /\ x.HasOne = r.HasOne /\ x.SkipReverse = r.SkipReverse

LEMMA MergeKeeps ==
    ASSUME NEW rs, NEW more, \A r \in rs \cup more : IsRelation(r), NEW x \in Merge(rs, more)
    PROVE  IsRelation(x) /\ \E r \in rs \cup more : Keeps(x, r)
<1>1. CASE x \in rs \cup more
  BY <1>1 DEF Keeps
<1>2. CASE \E r \in rs : \E s \in more : key(s) = key(r) /\ x = Override(r, s)
  <2>1. PICK r \in rs, s \in more : x = Override(r, s)
    BY <1>2
  <2>2. IsRelation(r) /\ IsRelation(s)
    OBVIOUS
  <2> QED  BY <2>1, <2>2, OverrideKeeps DEF Keeps
<1> QED  BY <1>1, <1>2, MergedIs

\* What either side has, the other or an overridden one stands for.
LEMMA MergeHas ==
    ASSUME NEW rs, NEW more, NEW s \in more
    PROVE  \/ s \in Merge(rs, more)
           \/ \E r \in rs : \E u \in more : key(s) = key(r) /\ key(u) = key(r)
                                            /\ Override(r, u) \in Merge(rs, more)
<1>1. CASE \A r \in rs : key(r) # key(s)
  BY <1>1 DEF Merge
<1>2. ASSUME NEW r \in rs, key(r) = key(s)
      PROVE  \E u \in more : key(u) = key(r) /\ Override(r, u) \in Merge(rs, more)
  <2> DEFINE same == {y \in more : key(y) = key(r)}
             u == CHOOSE y \in same : TRUE
  <2>1. same # {}
    BY <1>2
  <2>2. u \in same
    BY <2>1
  <2>3. Override(r, u) \in Merge(rs, more)
    BY <2>1 DEF Merge
  <2> HIDE DEF u
  <2> QED  BY <2>2, <2>3
<1> QED  BY <1>1, <1>2

\* A relation as it is read has no more to it than its ends, its type and its names.
IsAsRead(r) == IsRelation(r) /\ r.HasOne = FALSE /\ r.SkipReverse = FALSE

LEMMA AsRead ==
    ASSUME NEW a, NEW b \in Tables \cup {""}, NEW c \in Tables, NEW d, NEW e \in Tables, NEW f,
           NEW g, NEW h
    PROVE  IsAsRead(Relation(a, b, c, d, e, f, g, h))
<1> DEFINE r == Relation(a, b, c, d, e, f, g, h)
<1>1. DOMAIN r = RelationFields
  BY DEF Relation, RelationFields
<1>2. r.Through = b /\ r.Source = c /\ r.Target = e /\ r.HasOne = FALSE /\ r.SkipReverse = FALSE
  BY DEF Relation
<1> QED  BY <1>1, <1>2 DEF IsAsRead, IsRelation

LEMMA DeclaredAsRead ==
    ASSUME NEW r, Unmarshalled(r) PROVE IsAsRead(r)
<1>1. r.Through \in Tables \cup {""} /\ r.Source \in Tables /\ r.Target \in Tables
  BY DEF Unmarshalled
<1>2. IsAsRead(Relation(r.Type, r.Through, r.Source, r.SourceColumn, r.Target, r.TargetColumn,
                        r.Field, r.ReverseField))
  BY <1>1, AsRead, Zenon
<1> QED  BY <1>2, Zenon DEF Unmarshalled

LEMMA PhysicalAsRead ==
    ASSUME NEW r, Physical(r) PROVE IsAsRead(r)
<1>1. "" \in Tables \cup {""} /\ r.Source \in Tables /\ r.Target \in Tables
  BY DEF Physical
<1>2. IsAsRead(Relation("", "", r.Source, r.SourceColumn, r.Target, r.TargetColumn, "", ""))
  BY <1>1, AsRead, Zenon
<1> QED  BY <1>2, Zenon DEF Physical

\* Whether a key is unique changes nothing else of it.
LEMMA AnnotatedIs ==
    ASSUME NEW rs, \A r \in rs : IsRelation(r), NEW x \in annotateHasOne(rs)
    PROVE  /\ IsRelation(x)
           /\ \E r \in rs : /\ x.Source = r.Source /\ x.Target = r.Target /\ x.Type = r.Type
                            /\ x.SourceColumn = r.SourceColumn /\ x.SkipReverse = r.SkipReverse
                            /\ x.HasOne = r.HasOne \/ UniqueSource(r)
<1>1. PICK r \in rs : x = IF ~ IsM2M(r) /\ UniqueSource(r) THEN [r EXCEPT !.HasOne = TRUE] ELSE r
  BY DEF annotateHasOne
<1>2. CASE x = r
  BY <1>2
<1>3. CASE UniqueSource(r) /\ x = [r EXCEPT !.HasOne = TRUE]
  <2>1. IsRelation(r)
    OBVIOUS
  <2> QED  BY <1>3, <2>1 DEF IsRelation, RelationFields
<1> QED  BY <1>1, <1>2, <1>3

\* A source that is unique is so by the primary key or a constraint.
LEMMA UniqueIsConstrained ==
    ASSUME NEW r, UniqueSource(r) PROVE Constrained(r)
<1>1. PICK c \in splitCompositeColumns(r.SourceColumn) :
        r.SourceColumn = <<c>> /\ (uniqueSingle(r.Source, c) \/ pkOf(r.Source) = {c})
  BY DEF UniqueSource
<1>2. splitCompositeColumns(r.SourceColumn) = {c}
  <2>1. DOMAIN <<c>> = {1} /\ <<c>>[1] = c
    OBVIOUS
  <2> QED  BY <1>1, <2>1 DEF splitCompositeColumns
<1>3. CASE uniqueSingle(r.Source, c)
  BY <1>2, <1>3 DEF uniqueSingle, Constrained
<1> QED  BY <1>1, <1>2, <1>3 DEF Constrained

\* The many-to-many of a junction is between the tables of its two keys.
Joins(m, t, rs) ==
    /\ IsAsRead(m) /\ IsM2M(m) /\ m.Through = t
    /\ \E l, r \in fksOf(t, rs) :
         fksOf(t, rs) = {l, r} /\ m.Source = l.Target /\ m.Target = r.Target

LEMMA AutoIs ==
    ASSUME NEW rs, \A r \in rs : IsRelation(r), NEW t, IsJunction(t, rs)
    PROVE  Joins(autoM2M(t, rs), t, rs)
<1> DEFINE fks == fksOf(t, rs)
           left == CHOOSE r \in fks : \E s \in fks : Rank[r.Target] < Rank[s.Target]
           right == CHOOSE r \in fks : \E s \in fks : Rank[s.Target] < Rank[r.Target]
           base == Relation("many-to-many", t, left.Target, left.TargetColumn, right.Target,
                            right.TargetColumn, "", "")
           m == autoM2M(t, rs)
<1>1. PICK p, q \in fks : fks = {p, q} /\ p.Target # q.Target
  BY DEF IsJunction
<1>2. p \in rs /\ q \in rs /\ p.Target \in Tables /\ q.Target \in Tables
  BY DEF fksOf, IsRelation
<1>3. /\ Rank[p.Target] \in Int /\ Rank[q.Target] \in Int /\ Rank[p.Target] # Rank[q.Target]
  BY <1>1, <1>2, GenAssumption
<1>4. Rank[p.Target] < Rank[q.Target] \/ Rank[q.Target] < Rank[p.Target]
  BY <1>3
<1>5. left \in fks /\ \E s \in fks : Rank[left.Target] < Rank[s.Target]
  BY <1>1, <1>4
<1>6. right \in fks /\ \E s \in fks : Rank[s.Target] < Rank[right.Target]
  BY <1>1, <1>4
<1>7. m = [base EXCEPT !.M2MJoin = <<Singular[left.Target], Singular[right.Target]>>]
  BY DEF autoM2M
<1> HIDE DEF left, right, m
<1>8. left # right
  BY <1>1, <1>3, <1>5, <1>6
<1>9. fks = {left, right}
  BY <1>1, <1>5, <1>6, <1>8
<1>10. left.Target \in Tables /\ right.Target \in Tables /\ t \in Tables
  BY <1>1, <1>2, <1>5, <1>6 DEF fksOf, IsRelation
<1>11. DOMAIN m = RelationFields
  BY <1>7 DEF Relation, RelationFields
<1>12. /\ m.Type = "many-to-many" /\ m.Through = t /\ m.Source = left.Target
       /\ m.Target = right.Target /\ m.HasOne = FALSE /\ m.SkipReverse = FALSE
  BY <1>7 DEF Relation
<1>13. IsAsRead(m) /\ IsM2M(m) /\ m.Through = t
  BY <1>10, <1>11, <1>12 DEF IsAsRead, IsRelation, IsM2M
<1>14. \E l, r \in fks : fks = {l, r} /\ m.Source = l.Target /\ m.Target = r.Target
  BY <1>5, <1>6, <1>9, <1>12
<1> QED  BY <1>13, <1>14 DEF Joins, m

\* A reverse is skipped of the keys of junctions, and nothing else changes.
LEMMA SkippedIs ==
    ASSUME NEW rs, \A r \in rs : IsRelation(r), NEW x \in applySkipReverse(rs)
    PROVE  /\ IsRelation(x)
           /\ \E r \in rs : /\ x.Source = r.Source /\ x.Target = r.Target /\ x.Type = r.Type
                            /\ x.SourceColumn = r.SourceColumn /\ x.HasOne = r.HasOne
                            /\ \/ x.SkipReverse = r.SkipReverse
                               \/ ~ IsM2M(r) /\ r.Source \in Junctions(rs)
<1>1. PICK r \in rs : x = IF ~ IsM2M(r) /\ r.Source \in Junctions(rs)
                          THEN [r EXCEPT !.SkipReverse = TRUE] ELSE r
  BY DEF applySkipReverse
<1>2. CASE x = r
  BY <1>2
<1>3. CASE ~ IsM2M(r) /\ r.Source \in Junctions(rs) /\ x = [r EXCEPT !.SkipReverse = TRUE]
  <2>1. IsRelation(r)
    OBVIOUS
  <2> QED  BY <1>3, <2>1 DEF IsRelation, RelationFields
<1> QED  BY <1>1, <1>2, <1>3

\* The many-to-manys that are found.
Autos(rs) == {autoM2M(t, rs) : t \in Junctions(rs)}

LEMMA AutosAre ==
    ASSUME NEW rs, \A r \in rs : IsRelation(r), NEW m \in Autos(rs)
    PROVE  /\ IsRelation(m) /\ IsM2M(m) /\ m.HasOne = FALSE /\ m.SkipReverse = FALSE
           /\ \E l, r \in rs : m.Source = l.Target /\ m.Target = r.Target
<1>1. PICK t \in Junctions(rs) : m = autoM2M(t, rs)
  BY DEF Autos
<1>2. IsJunction(t, rs)
  BY DEF Junctions
<1>3. fksOf(t, rs) \subseteq rs
  BY DEF fksOf
<1>4. /\ IsRelation(m) /\ IsM2M(m) /\ m.HasOne = FALSE /\ m.SkipReverse = FALSE
      /\ \E l, r \in fksOf(t, rs) : m.Source = l.Target /\ m.Target = r.Target
  <2>1. Joins(m, t, rs)
    BY <1>1, <1>2, AutoIs
  <2> QED  BY <2>1 DEF Joins, IsAsRead
<1> QED  BY <1>3, <1>4

\* Equal keys have equal types, ends and, of many-to-manys, tables between them.
LEMMA KeysAgree ==
    ASSUME NEW r, NEW s, key(r) = key(s)
    PROVE  /\ r.Type = s.Type /\ r.Source = s.Source /\ r.Target = s.Target
           /\ IsM2M(r) => r.Through = s.Through
<1>1. r.Type = s.Type /\ r.Source = s.Source /\ r.Target = s.Target
  BY DEF key
<1>2. ASSUME IsM2M(r) PROVE r.Through = s.Through
  <2>1. IsM2M(s)
    BY <1>1, <1>2 DEF IsM2M
  <2> QED  BY <1>2, <2>1 DEF key
<1> QED  BY <1>1, <1>2

\* After the detection, a key without a reverse has a many-to-many in its place.
LEMMA DetectReplaces ==
    ASSUME NEW rs, \A r \in rs : IsRelation(r) /\ r.SkipReverse = FALSE
    PROVE  Replaced(Merge(applySkipReverse(rs), Autos(rs)))
<1> DEFINE A == applySkipReverse(rs)
           B == Autos(rs)
<1>1. \A x \in A : IsRelation(x)
  BY SkippedIs
<1>2. \A m \in B : IsRelation(m)
  BY AutosAre
<1> SUFFICES ASSUME NEW x \in Merge(A, B), ~ IsM2M(x), x.SkipReverse
             PROVE  \E m \in Merge(A, B) : StandsIn(m, x)
  BY DEF Replaced
<1>3. PICK y \in A \cup B : /\ x.Type = y.Type /\ x.Source = y.Source /\ x.Target = y.Target
                           /\ x.SkipReverse = y.SkipReverse
  <2>1. \A z \in A \cup B : IsRelation(z)
    BY <1>1, <1>2
  <2> HIDE DEF A, B
  <2>2. \E r \in A \cup B : Keeps(x, r)
    BY <2>1, MergeKeeps
  <2> QED  BY <2>2 DEF Keeps
<1>4. y \in A
  BY <1>3, AutosAre
<1>5. PICK r \in rs : /\ y.Source = r.Source /\ y.Target = r.Target
                      /\ ~ IsM2M(r) /\ r.Source \in Junctions(rs)
  BY <1>3, <1>4, SkippedIs
<1> DEFINE t == r.Source
           m == autoM2M(t, rs)
<1>6. m \in B
  BY <1>5 DEF Autos
<1>7. IsJunction(t, rs) /\ r \in fksOf(t, rs)
  BY <1>5 DEF Junctions, fksOf
<1>8. IsM2M(m) /\ m.Through = t /\ r.Target \in {m.Source, m.Target}
  <2>0. Joins(m, t, rs)
    BY <1>7, AutoIs
  <2> HIDE DEF m
  <2>1. PICK p, q \in fksOf(t, rs) : /\ fksOf(t, rs) = {p, q}
                                     /\ m.Source = p.Target /\ m.Target = q.Target
    BY <2>0 DEF Joins
  <2>2. IsM2M(m) /\ m.Through = t
    BY <2>0 DEF Joins
  <2>3. r = p \/ r = q
    BY <1>7, <2>1
  <2> QED  BY <2>1, <2>2, <2>3
<1> HIDE DEF m
<1>9. ASSUME NEW n, IsM2M(n), n.Through = t, n.Source = m.Source, n.Target = m.Target
      PROVE  StandsIn(n, x)
  BY <1>3, <1>5, <1>8, <1>9 DEF StandsIn
<1>10. CASE m \in Merge(A, B)
  BY <1>8, <1>9, <1>10
<1>11. ASSUME NEW a \in A, NEW u \in B, key(m) = key(a), key(u) = key(a),
              Override(a, u) \in Merge(A, B)
       PROVE  \E n \in Merge(A, B) : StandsIn(n, x)
  <2> DEFINE n == Override(a, u)
  <2>1. /\ m.Type = a.Type /\ m.Source = a.Source /\ m.Target = a.Target /\ m.Through = a.Through
        /\ u.Type = a.Type /\ IsM2M(u)
    BY <1>8, <1>11, KeysAgree, AutosAre
  <2>2. u.Through = a.Through
    BY <1>11, <2>1, KeysAgree
  <2>3. n.Type = a.Type /\ n.Source = a.Source /\ n.Target = a.Target
        /\ n.Through = Or(u.Through, a.Through)
    BY <1>1, <1>2, OverrideKeeps
  <2>4. n.Through = a.Through
    BY <2>2, <2>3 DEF Or
  <2>5. IsM2M(n) /\ n.Through = t /\ n.Source = m.Source /\ n.Target = m.Target
    BY <1>8, <2>1, <2>3, <2>4 DEF IsM2M
  <2> HIDE DEF n
  <2>6. StandsIn(n, x)
    BY <1>9, <2>5
  <2> QED  BY <1>11, <2>6 DEF n
<1> QED  BY <1>6, <1>10, <1>11, MergeHas

\* The relation with its join filled in.
Joined(r, rs) ==
    IF ~ IsM2M(r) \/ r.M2MJoin # <<>> THEN r
    ELSE LET e == endsOf(r, rs)
             join == [i \in 1 .. 2 |-> Or((CHOOSE k \in e[i] : TRUE).Field,
                                          Singular[<<r.Source, r.Target>>[i]])] IN
         [r EXCEPT !.M2MJoin = join]

LEMMA JoinedIs ==
    ASSUME NEW rs, NEW r, IsRelation(r)
    PROVE  LET x == Joined(r, rs) IN
           /\ IsRelation(x) /\ x.Type = r.Type /\ x.Through = r.Through /\ x.Source = r.Source
           /\ x.SourceColumn = r.SourceColumn /\ x.Target = r.Target
           /\ x.TargetColumn = r.TargetColumn /\ x.Field = r.Field
           /\ x.ReverseField = r.ReverseField /\ x.HasOne = r.HasOne /\ x.SkipReverse = r.SkipReverse
<1> DEFINE x == Joined(r, rs)
<1>1. PICK join : x = r \/ x = [r EXCEPT !.M2MJoin = join]
  BY DEF Joined
<1>2. CASE x = [r EXCEPT !.M2MJoin = join]
  BY <1>2 DEF IsRelation, RelationFields
<1>3. CASE x = r
  BY <1>3
<1> QED  BY <1>1, <1>2, <1>3

\* The joins take no fields.
LEMMA JoinKeeps ==
    ASSUME NEW rs, \A r \in rs : IsRelation(r), NoConflict(rs), Replaced(rs)
    PROVE  NoConflict(resolveM2MJoins(rs)) /\ Replaced(resolveM2MJoins(rs))
<1> DEFINE J == resolveM2MJoins(rs)
<1>1. J = {Joined(r, rs) : r \in rs}
  BY DEF resolveM2MJoins, Joined
<1>2. ASSUME NEW r \in rs
      PROVE  LET x == Joined(r, rs) IN
             occupy(x) = occupy(r) /\ fieldName(x) = fieldName(r) /\ reverseName(x) = reverseName(r)
  BY JoinedIs DEF occupy, fieldName, reverseName, IsM2M
<1> HIDE DEF J
<1>3. NoConflict(J)
  <2>1. ASSUME NEW x \in J, x.Source = x.Target PROVE fieldName(x) # reverseName(x)
    <3>1. PICK r \in rs : x = Joined(r, rs)
      BY <1>1
    <3>2. r.Source = r.Target
      BY <2>1, <3>1, JoinedIs
    <3> QED  BY <1>2, <3>1, <3>2 DEF NoConflict
  <2>2. ASSUME NEW x \in J, NEW y \in J, x # y PROVE occupy(x) \cap occupy(y) = {}
    <3>1. PICK r \in rs : x = Joined(r, rs)
      BY <1>1
    <3>2. PICK s \in rs : y = Joined(s, rs)
      BY <1>1
    <3>3. r # s
      BY <2>2, <3>1, <3>2
    <3>4. occupy(r) \cap occupy(s) = {}
      BY <3>3 DEF NoConflict
    <3> QED  BY <1>2, <3>1, <3>2, <3>4
  <2> QED  BY <2>1, <2>2 DEF NoConflict
<1>4. Replaced(J)
  <2> SUFFICES ASSUME NEW x \in J, ~ IsM2M(x), x.SkipReverse
               PROVE  \E m \in J : StandsIn(m, x)
    BY DEF Replaced
  <2>1. PICK r \in rs : x = Joined(r, rs)
    BY <1>1
  <2>2. ~ IsM2M(r) /\ r.SkipReverse /\ x.Source = r.Source /\ x.Target = r.Target
    BY <2>1, JoinedIs DEF IsM2M
  <2>3. PICK m \in rs : StandsIn(m, r)
    BY <2>2 DEF Replaced
  <2>4. StandsIn(Joined(m, rs), x)
    BY <2>2, <2>3, JoinedIs DEF StandsIn, IsM2M
  <2> QED  BY <1>1, <2>4
<1> QED  BY <1>3, <1>4 DEF J

\* What was so of the schema stays so, as the schema does.
LEMMA SchemaStays ==
    ASSUME input' = input, NEW at, NEW tables, NEW rs, GenHolds(at, tables, rs)
    PROVE  GenHolds(at, tables, rs)'
<1>1. Ends(rs, tables) => Ends(rs, tables)'
  BY DEF Ends
<1>2. OnesUnique(rs) => OnesUnique(rs)'
  BY DEF OnesUnique, Constrained, pkOf, constraintsOf
<1>3. validateRelationColumns(rs) => validateRelationColumns(rs)'
  BY DEF validateRelationColumns, columnsOf, columnFields
<1> QED  BY <1>1, <1>2, <1>3 DEF GenHolds

\* A stage fails, or leaves what holds after it.
LEMMA StageStep ==
    ASSUME GenInv, NEW from, NEW to, NEW tables, NEW rs, NEW loaded, NEW ok \in BOOLEAN,
           Stage(from, to, tables, rs, loaded, ok), ok => GenHolds(to, tables, rs), to # "done"
    PROVE  GenInv'
<1>1. input' = input
  BY DEF Stage
<1>2. CASE ok
  <2>1. gen' = [at |-> to, tables |-> tables, relations |-> rs, loaded |-> loaded, written |-> {}]
    BY <1>2 DEF Stage
  <2>2. /\ DOMAIN gen' = GenFields
        /\ gen'.at = to /\ gen'.tables = tables /\ gen'.relations = rs
    BY <2>1 DEF GenFields
  <2>3. GenHolds(to, tables, rs)'
    BY <1>1, <1>2, SchemaStays
  <2> QED  BY <1>1, <2>2, <2>3 DEF GenInv
<1>3. CASE ~ok
  <2>1. gen' = [gen EXCEPT !.at = "failed"]
    BY <1>3 DEF Stage
  <2>2. /\ DOMAIN gen' = GenFields
        /\ gen'.at = "failed" /\ gen'.tables = gen.tables /\ gen'.relations = gen.relations
    BY <2>1 DEF GenInv, GenFields
  <2>3. GenHolds("failed", gen.tables, gen.relations)
    BY DEF GenInv, GenHolds, Merging, Detected
  <2>4. GenHolds("failed", gen.tables, gen.relations)'
    BY <1>1, <2>2, <2>3 DEF GenHolds, Merging, Detected
  <2> QED  BY <1>1, <2>2, <2>4 DEF GenInv
<1> QED  BY <1>2, <1>3

\* The tables are expanded by the ends of the relations.
LEMMA ExpandedHasEnds ==
    ASSUME NEW rs, \A r \in rs : IsRelation(r), gen.tables \subseteq Tables
    PROVE  Expanded(rs) \subseteq Tables /\ Ends(rs, Expanded(rs))
<1>0. Expanded(rs) \subseteq Tables
  <2> DEFINE E == {{r.Source, r.Target, r.Through} \ {""} : r \in rs}
  <2>1. ASSUME NEW S \in E PROVE S \subseteq Tables
    <3>1. PICK r \in rs : S = {r.Source, r.Target, r.Through} \ {""}
      OBVIOUS
    <3>2. r.Source \in Tables /\ r.Target \in Tables /\ r.Through \in Tables \cup {""}
      BY DEF IsRelation
    <3> QED  BY <3>1, <3>2
  <2>2. UNION E \subseteq Tables
    BY <2>1
  <2>3. expandTablesForRelations(gen.tables, rs) = gen.tables \cup UNION E
    BY DEF expandTablesForRelations
  <2> HIDE DEF E
  <2> QED  BY <2>2, <2>3 DEF Expanded
<1> SUFFICES ASSUME ~ input.noExpand, NEW r \in rs
             PROVE  r.Source \in Expanded(rs) /\ r.Target \in Expanded(rs)
  BY <1>0 DEF Ends
<1>1. r.Source # "" /\ r.Target # ""
  BY GenAssumption DEF IsRelation
<1> DEFINE ends == {r.Source, r.Target, r.Through} \ {""}
<1>2. r.Source \in ends /\ r.Target \in ends
  BY <1>1
<1>3. ends \in {{x.Source, x.Target, x.Through} \ {""} : x \in rs}
  OBVIOUS
<1> HIDE DEF ends
<1>4. ends \subseteq expandTablesForRelations(gen.tables, rs)
  BY <1>3 DEF expandTablesForRelations
<1> QED  BY <1>2, <1>4 DEF Expanded

LEMMA ExpandStep == GenInv /\ ExpandDeclared => GenInv'
<1> SUFFICES ASSUME GenInv, ExpandDeclared PROVE GenInv'
  OBVIOUS
<1> DEFINE to == IF input.with THEN "merge" ELSE "load"
           D == input.declared
           T == Expanded(D)
<1>1. \A r \in D : IsRelation(r) /\ r.HasOne = FALSE /\ r.SkipReverse = FALSE
  BY DeclaredAsRead DEF GenInv, IsAsRead
<1>2. T \subseteq Tables /\ Ends(D, T)
  BY <1>1, ExpandedHasEnds DEF GenInv, GenHolds
<1>3. to \in Merging /\ to \notin Detected /\ to # "failed" /\ to # "detect"
      /\ to # "write" /\ to # "done"
  BY DEF Merging, Detected
<1>4. Stage("expand", to, T, D, {}, validateRelations(D))
  BY DEF ExpandDeclared
<1> HIDE DEF to, T, D
<1>5. GenHolds(to, T, D)
  BY <1>1, <1>2, <1>3 DEF GenHolds
<1>6. validateRelations(D) \in BOOLEAN
  BY DEF validateRelations
<1> QED  BY <1>3, <1>4, <1>5, <1>6, StageStep

LEMMA MergeStep == GenInv /\ MergePhysical => GenInv'
<1> SUFFICES ASSUME GenInv, MergePhysical PROVE GenInv'
  OBVIOUS
<1> DEFINE P == {r \in input.physical : r.Source \in gen.tables}
           rs == Merge(P, gen.relations)
           T == Expanded(rs)
<1>1. gen.at = "merge"
  BY DEF MergePhysical, Stage
<1>2. \A r \in P \cup gen.relations : IsRelation(r) /\ r.HasOne = FALSE /\ r.SkipReverse = FALSE
  <2>1. \A r \in P : IsRelation(r) /\ r.HasOne = FALSE /\ r.SkipReverse = FALSE
    BY PhysicalAsRead DEF GenInv, IsAsRead
  <2> QED  BY <1>1, <2>1 DEF GenInv, GenHolds, Merging
<1>3. Stage("merge", "load", T, rs, {}, NoConflict(rs))
  BY DEF MergePhysical
<1> HIDE DEF P
<1>4. \A x \in rs : IsRelation(x) /\ x.HasOne = FALSE /\ x.SkipReverse = FALSE
  BY <1>2, MergeKeeps DEF Keeps
<1> HIDE DEF rs
<1>5. T \subseteq Tables /\ Ends(rs, T)
  BY <1>4, ExpandedHasEnds DEF GenInv, GenHolds
<1> HIDE DEF T
<1>6. GenHolds("load", T, rs)
  BY <1>4, <1>5 DEF GenHolds, Merging, Detected
<1>7. NoConflict(rs) \in BOOLEAN
  BY DEF NoConflict
<1> QED  BY <1>3, <1>6, <1>7, StageStep

LEMMA LoadStep == GenInv /\ LoadTables => GenInv'
<1> SUFFICES ASSUME GenInv, LoadTables PROVE GenInv'
  OBVIOUS
<1> DEFINE L == expandTablesForRelations(gen.tables, gen.relations)
<1>1. gen.at = "load" /\ Stage("load", "annotate", gen.tables, gen.relations, L, TRUE)
  BY DEF LoadTables, Stage
<1> HIDE DEF L
<1>2. GenHolds("annotate", gen.tables, gen.relations)
  BY <1>1 DEF GenInv, GenHolds, Merging, Detected
<1> QED  BY <1>1, <1>2, StageStep

LEMMA AnnotateStep == GenInv /\ Annotate => GenInv'
<1> SUFFICES ASSUME GenInv, Annotate PROVE GenInv'
  OBVIOUS
<1> DEFINE rs == annotateHasOne(gen.relations)
<1>1. gen.at = "annotate" /\ Stage("annotate", "detect", gen.tables, rs, gen.loaded, TRUE)
  BY DEF Annotate, Stage
<1>2. \A r \in gen.relations : IsRelation(r) /\ r.HasOne = FALSE /\ r.SkipReverse = FALSE
  BY <1>1 DEF GenInv, GenHolds, Merging
<1>3. ASSUME NEW x \in rs
      PROVE  /\ IsRelation(x) /\ x.SkipReverse = FALSE
             /\ \E r \in gen.relations : x.Source = r.Source /\ x.Target = r.Target
             /\ x.HasOne => Constrained(x)
  <2>1. PICK r \in gen.relations :
            /\ x.Source = r.Source /\ x.Target = r.Target /\ x.SourceColumn = r.SourceColumn
            /\ x.SkipReverse = r.SkipReverse /\ (x.HasOne = r.HasOne \/ UniqueSource(r))
    BY <1>2, AnnotatedIs
  <2>2. IsRelation(x)
    BY <1>2, AnnotatedIs
  <2>3. x.HasOne => Constrained(r)
    BY <1>2, <2>1, UniqueIsConstrained
  <2> QED  BY <1>2, <2>1, <2>2, <2>3 DEF Constrained
<1> HIDE DEF rs
<1>4. Ends(rs, gen.tables)
  BY <1>1, <1>3 DEF Ends, GenInv, GenHolds
<1>5. OnesUnique(rs)
  BY <1>3 DEF OnesUnique
<1>6. gen.tables \subseteq Tables
  BY DEF GenInv, GenHolds
<1>7. GenHolds("detect", gen.tables, rs)
  BY <1>3, <1>4, <1>5, <1>6 DEF GenHolds, Merging, Detected
<1> QED  BY <1>1, <1>7, StageStep

LEMMA DetectStep == GenInv /\ Detect => GenInv'
<1> SUFFICES ASSUME GenInv, Detect PROVE GenInv'
  OBVIOUS
<1> DEFINE old == gen.relations
           A == applySkipReverse(old)
           B == Autos(old)
           rs == Merge(A, B)
<1>1. gen.at = "detect" /\ Stage("detect", "join", gen.tables, rs, gen.loaded, NoConflict(rs))
  BY DEF Detect, Stage, Autos
<1>2. /\ \A r \in old : IsRelation(r) /\ r.SkipReverse = FALSE
      /\ OnesUnique(old) /\ Ends(old, gen.tables) /\ gen.tables \subseteq Tables
  BY <1>1 DEF GenInv, GenHolds
<1> HIDE DEF old
<1>3. \A x \in A \cup B : IsRelation(x)
  BY <1>2, SkippedIs, AutosAre
<1>4. ASSUME NEW x \in A \cup B
      PROVE  /\ ~ input.noExpand => x.Source \in gen.tables /\ x.Target \in gen.tables
             /\ ~ IsM2M(x) /\ x.HasOne => Constrained(x)
  <2>1. CASE x \in A
    <3>1. PICK r \in old : /\ x.Source = r.Source /\ x.Target = r.Target /\ x.Type = r.Type
                           /\ x.SourceColumn = r.SourceColumn /\ x.HasOne = r.HasOne
      BY <1>2, <2>1, SkippedIs
    <3> QED  BY <1>2, <3>1 DEF Ends, OnesUnique, Constrained, IsM2M
  <2>2. CASE x \in B
    <3>1. PICK p, q \in old : x.Source = p.Target /\ x.Target = q.Target
      BY <1>2, <2>2, AutosAre
    <3>2. IsM2M(x)
      BY <1>2, <2>2, AutosAre
    <3> QED  BY <1>2, <3>1, <3>2 DEF Ends
  <2> QED  BY <2>1, <2>2
<1>5. Replaced(rs)
  BY <1>2, DetectReplaces
<1> HIDE DEF A, B
<1>6. ASSUME NEW x \in rs
      PROVE  /\ IsRelation(x)
             /\ ~ input.noExpand => x.Source \in gen.tables /\ x.Target \in gen.tables
             /\ ~ IsM2M(x) /\ x.HasOne => Constrained(x)
  <2>1. IsRelation(x)
    BY <1>3, MergeKeeps
  <2>2. PICK r \in A \cup B : Keeps(x, r)
    BY <1>3, MergeKeeps
  <2> QED  BY <1>4, <2>1, <2>2 DEF Constrained, IsM2M, Keeps
<1> HIDE DEF rs
<1>7. Ends(rs, gen.tables) /\ OnesUnique(rs)
  BY <1>6 DEF Ends, OnesUnique
<1>8. NoConflict(rs) => GenHolds("join", gen.tables, rs)
  BY <1>2, <1>5, <1>6, <1>7 DEF GenHolds, Merging, Detected
<1>9. NoConflict(rs) \in BOOLEAN
  BY DEF NoConflict
<1> QED  BY <1>1, <1>8, <1>9, StageStep

LEMMA JoinStep == GenInv /\ Join => GenInv'
<1> SUFFICES ASSUME GenInv, Join PROVE GenInv'
  OBVIOUS
<1> DEFINE old == gen.relations
           found == \A r \in old : IsM2M(r) /\ r.M2MJoin = <<>> =>
                        {} \notin {endsOf(r, old)[i] : i \in 1 .. 2}
           J == resolveM2MJoins(old)
           rs == IF found THEN J ELSE {}
<1>1. gen.at = "join" /\ Stage("join", "validate", gen.tables, rs, gen.loaded, found)
  BY DEF Join, Stage
<1>2. /\ \A r \in old : IsRelation(r)
      /\ OnesUnique(old) /\ Ends(old, gen.tables) /\ NoConflict(old) /\ Replaced(old)
      /\ gen.tables \subseteq Tables
  BY <1>1 DEF GenInv, GenHolds, Detected
<1>3. found \in BOOLEAN
  OBVIOUS
<1> HIDE DEF old, found
<1>4. NoConflict(J) /\ Replaced(J)
  BY <1>2, JoinKeeps
<1>5. J = {Joined(r, old) : r \in old}
  BY DEF resolveM2MJoins, Joined
<1> HIDE DEF J
<1>6. ASSUME NEW x \in J
      PROVE  /\ IsRelation(x)
             /\ ~ input.noExpand => x.Source \in gen.tables /\ x.Target \in gen.tables
             /\ ~ IsM2M(x) /\ x.HasOne => Constrained(x)
  <2>1. PICK r \in old : x = Joined(r, old)
    BY <1>5
  <2>2. /\ IsRelation(x) /\ x.Type = r.Type /\ x.Source = r.Source
        /\ x.SourceColumn = r.SourceColumn /\ x.Target = r.Target /\ x.HasOne = r.HasOne
    BY <1>2, <2>1, JoinedIs
  <2> QED  BY <1>2, <2>2 DEF Ends, OnesUnique, Constrained, IsM2M
<1>7. Ends(J, gen.tables) /\ OnesUnique(J)
  BY <1>6 DEF Ends, OnesUnique
<1>8. found => rs = J
  OBVIOUS
<1>9. GenHolds("validate", gen.tables, J)
  BY <1>2, <1>4, <1>6, <1>7 DEF GenHolds, Merging, Detected
<1> HIDE DEF rs
<1> QED  BY <1>1, <1>3, <1>8, <1>9, StageStep

LEMMA ValidateStep == GenInv /\ ValidateColumns => GenInv'
<1> SUFFICES ASSUME GenInv, ValidateColumns PROVE GenInv'
  OBVIOUS
<1> DEFINE ok == validateRelationColumns(gen.relations)
<1>1. gen.at = "validate" /\ Stage("validate", "write", gen.tables, gen.relations, gen.loaded, ok)
  BY DEF ValidateColumns, Stage
<1>2. ok \in BOOLEAN
  BY DEF validateRelationColumns
<1>3. ok => GenHolds("write", gen.tables, gen.relations)
  BY <1>1 DEF GenInv, GenHolds, Merging, Detected
<1> HIDE DEF ok
<1> QED  BY <1>1, <1>2, <1>3, StageStep

\* Of the tables that are settled, those that are excluded stay unwritten, or the write fails.
LEMMA WriteStep == GenInv /\ WriteModels => GenInv'
<1> SUFFICES ASSUME GenInv, WriteModels PROVE GenInv'
  OBVIOUS
<1>1. gen.at = "write" /\ input' = input
  BY DEF WriteModels
<1>2. GenHolds("write", gen.tables, gen.relations)
  BY <1>1 DEF GenInv
<1>3. /\ GenHolds("done", gen.tables, gen.relations)
      /\ GenHolds("failed", gen.tables, gen.relations)
  BY <1>2 DEF GenHolds, Merging, Detected
<1>4. gen'.tables = gen.tables /\ gen'.relations = gen.relations =>
        /\ GenHolds("done", gen.tables, gen.relations)'
        /\ GenHolds("failed", gen.tables, gen.relations)'
  BY <1>1, <1>3, SchemaStays
<1>5. CASE gen' = [gen EXCEPT !.at = "done", !.written = gen.tables \ input.exclude]
  <2>1. /\ DOMAIN gen' = GenFields
        /\ gen'.at = "done" /\ gen'.tables = gen.tables /\ gen'.relations = gen.relations
        /\ gen'.written = gen.tables \ input.exclude
    BY <1>5 DEF GenInv, GenFields
  <2> QED  BY <1>1, <1>4, <2>1 DEF GenInv
<1>6. ASSUME NEW W, gen' = [gen EXCEPT !.at = "failed", !.written = W]
      PROVE  GenInv'
  <2>1. /\ DOMAIN gen' = GenFields
        /\ gen'.at = "failed" /\ gen'.tables = gen.tables /\ gen'.relations = gen.relations
    BY <1>6 DEF GenInv, GenFields
  <2> QED  BY <1>1, <1>4, <2>1 DEF GenInv
<1> QED  BY <1>5, <1>6 DEF WriteModels

\* Stage by stage, what is known of tables, relations and written models stays true.
THEOREM GenInvariant == GenSpec => []GenInv
<1>1. GenInit => GenInv
  <2> SUFFICES ASSUME GenInit PROVE GenInv
    OBVIOUS
  <2>1. /\ input.schema \in Schemas /\ input.physical \subseteq ForeignKeys
        /\ input.declared \subseteq Declarations /\ input.tables \in Requests
    BY DEF GenInit
  <2>2. /\ DOMAIN gen = GenFields /\ gen.at = "expand"
        /\ gen.relations = {} /\ gen.tables = input.tables
    BY DEF GenInit, Begin, GenFields
  <2>3. GenHolds("expand", gen.tables, {})
    BY <2>1, <2>2, GenAssumption DEF GenHolds, Ends, Merging, Detected
  <2> QED  BY <2>1, <2>2, <2>3, GenAssumption DEF GenInv
<1>2. GenInv /\ [GenNext]_genVars => GenInv'
  <2> SUFFICES ASSUME GenInv, [GenNext]_genVars PROVE GenInv'
    OBVIOUS
  <2>1. CASE UNCHANGED genVars
    <3>1. input' = input /\ gen' = gen
      BY <2>1 DEF genVars
    <3>2. GenHolds(gen.at, gen.tables, gen.relations)
      BY DEF GenInv
    <3>3. GenHolds(gen.at, gen.tables, gen.relations)'
      BY <3>1, <3>2, SchemaStays
    <3> QED  BY <3>1, <3>3 DEF GenInv
  <2> QED  BY <2>1, ExpandStep, MergeStep, LoadStep, AnnotateStep, DetectStep, JoinStep,
              ValidateStep, WriteStep DEF GenNext
<1> QED  BY <1>1, <1>2, PTL DEF GenSpec

\* The two fields a relation may have, each in the model of an end.
Forward(r) == Field(fieldName(r), r, "field", r.Target)
Backward(r) == Field(reverseName(r), r, "reverse", r.Source)
ForwardIn(t, r) == r.Source = t
BackwardIn(t, r) == r.Target = t /\ (IsM2M(r) \/ ~ r.SkipReverse)

\* A field of a model is that of a column, or either field of a relation.
LEMMA FieldIs ==
    ASSUME NEW t, NEW f \in Fields(t)
    PROVE  \/ \E c \in columnsOf(t) : f = [name |-> ToCamelCase(c), of |-> <<c>>, type |-> ""]
           \/ \E r \in gen.relations : \/ ForwardIn(t, r) /\ f = Forward(r)
                                       \/ BackwardIn(t, r) /\ f = Backward(r)
<1> DEFINE F1 == {Field(fieldName(r), r, "field", r.Target) : r \in fksOf(t, gen.relations)}
           F2 == {Field(reverseName(r), r, "reverse", r.Source) :
                    r \in {x \in gen.relations : ~ IsM2M(x) /\ x.Target = t /\ ~ x.SkipReverse}}
           F3 == {Field(fieldName(r), r, "field", r.Target) :
                    r \in {x \in gen.relations : IsM2M(x) /\ x.Source = t}}
           F4 == {Field(reverseName(r), r, "reverse", r.Source) :
                    r \in {x \in gen.relations : IsM2M(x) /\ x.Target = t}}
           F0 == {[name |-> ToCamelCase(c), of |-> <<c>>, type |-> ""] : c \in columnsOf(t)}
<1>1. Fields(t) = F0 \cup F1 \cup F2 \cup (F3 \cup F4)
  BY DEF Fields, writeM2MFields
<1>2. CASE f \in F0
  BY <1>2
<1>3. CASE f \in F1
  BY <1>3 DEF fksOf, ForwardIn, Forward
<1>4. CASE f \in F2
  BY <1>4 DEF BackwardIn, Backward
<1>5. CASE f \in F3
  BY <1>5 DEF ForwardIn, Forward
<1>6. CASE f \in F4
  BY <1>6 DEF BackwardIn, Backward
<1> HIDE DEF F0, F1, F2, F3, F4
<1>7. f \in F0 \/ f \in F1 \/ f \in F2 \/ f \in F3 \/ f \in F4
  BY <1>1
<1> QED  BY <1>2, <1>3, <1>4, <1>5, <1>6, <1>7

\* The names a relation's fields have are those it occupies.
LEMMA OccupiedIs ==
    ASSUME NEW t, NEW r
    PROVE  /\ ForwardIn(t, r) => <<t, Forward(r).name>> \in occupy(r)
           /\ BackwardIn(t, r) => <<t, Backward(r).name>> \in occupy(r)
<1>1. Forward(r).name = fieldName(r) /\ Backward(r).name = reverseName(r)
  BY DEF Forward, Backward, Field
<1> QED  BY <1>1 DEF ForwardIn, BackwardIn, occupy

\* Whatever the schema, the declared relations and the options, a model has no two fields of
\* one name, so long as its columns have different names in Go (relation.go 262-318,
\* model.go 375-451).
THEOREM GeneratedFieldsDistinct ==
    ASSUME ColumnsNamedApart PROVE GenSpec => []FieldsDistinct
<1>1. GenInv => FieldsDistinct
  <2> SUFFICES ASSUME GenInv, gen.at = "done", NEW t \in gen.tables,
                      NEW f \in Fields(t), NEW g \in Fields(t), f.name = g.name
               PROVE  f = g
    BY DEF FieldsDistinct, Done
  <2> DEFINE rs == gen.relations
             Col(c) == [name |-> ToCamelCase(c), of |-> <<c>>, type |-> ""]
             Of(r, x) == (ForwardIn(t, r) /\ x = Forward(r)) \/ (BackwardIn(t, r) /\ x = Backward(r))
  <2>1. NoConflict(rs) /\ validateRelationColumns(rs) /\ t \in Tables /\ input.schema \in Schemas
    BY DEF GenInv, GenHolds, Detected
  <2>2. ASSUME NEW c \in columnsOf(t), NEW d \in columnsOf(t), f = Col(c), g = Col(d) PROVE f = g
    <3>1. ToCamelCase(c) = ToCamelCase(d)
      BY <2>2
    <3>2. c = d
      BY <2>1, <3>1 DEF ColumnsNamedApart, columnsOf
    <3> QED  BY <2>2, <3>2
  <2>3. ASSUME NEW r \in rs, NEW x, Of(r, x) PROVE <<t, x.name>> \in occupy(r)
    BY <2>3, OccupiedIs
  <2>4. ASSUME NEW c \in columnsOf(t), NEW r \in rs, NEW x, Of(r, x) PROVE x.name # ToCamelCase(c)
    <3>1. <<t, x.name>> \in occupy(r)
      BY <2>3, <2>4
    <3>2. <<t, x.name>>[2] \notin columnFields(<<t, x.name>>[1])
      BY <2>1, <3>1 DEF validateRelationColumns
    <3>3. <<t, x.name>>[2] = x.name /\ <<t, x.name>>[1] = t
      OBVIOUS
    <3>4. ToCamelCase(c) \in columnFields(t)
      BY DEF columnFields
    <3> QED  BY <3>2, <3>3, <3>4
  <2>5. ASSUME NEW r \in rs, NEW s \in rs, Of(r, f), Of(s, g) PROVE f = g
    <3>1. <<t, f.name>> \in occupy(r) /\ <<t, f.name>> \in occupy(s)
      BY <2>3, <2>5
    <3>2. r = s
      BY <2>1, <3>1 DEF NoConflict
    <3>3. ASSUME ForwardIn(t, r), BackwardIn(t, r) PROVE Forward(r).name # Backward(r).name
      <4>1. r.Source = r.Target
        BY <3>3 DEF ForwardIn, BackwardIn
      <4>2. fieldName(r) # reverseName(r)
        BY <2>1, <4>1 DEF NoConflict
      <4> QED  BY <4>2 DEF Forward, Backward, Field
    <3> QED  BY <2>5, <3>2, <3>3
  <2>6. (\E c \in columnsOf(t) : f = Col(c)) \/ \E r \in rs : Of(r, f)
    BY FieldIs
  <2>7. (\E c \in columnsOf(t) : g = Col(c)) \/ \E r \in rs : Of(r, g)
    BY FieldIs
  <2>8. \A c : Col(c).name = ToCamelCase(c)
    OBVIOUS
  <2> HIDE DEF Col, Of
  <2> QED  BY <2>2, <2>4, <2>5, <2>6, <2>7, <2>8
<1> QED  BY <1>1, GenInvariant, PTL

\* Whatever junctions are found, a key is followed from both its ends: its reverse is left out
\* only for a many-to-many in its place, and is one only of a unique source (relation.go
\* 322-342, 351-419, 525-537).
THEOREM KeysNavigable == GenSpec => []BothEndsNavigable
<1>1. GenInv => BothEndsNavigable
  <2> SUFFICES ASSUME GenInv, gen.at = "done", NEW r \in gen.relations, ~ IsM2M(r)
               PROVE  /\ r.SkipReverse => \E m \in gen.relations :
                            /\ IsM2M(m) /\ m.Through = r.Source
                            /\ r.Target \in {m.Source, m.Target}
                      /\ r.HasOne => Constrained(r)
    BY DEF BothEndsNavigable, Done, Constrained
  <2> QED  BY DEF GenInv, GenHolds, Detected, Replaced, StandsIn, OnesUnique
<1> QED  BY <1>1, GenInvariant, PTL

\* The type of a field of a written model is written too, unless its own table is one that
\* Exclude names, also where a junction found after the tables were settled adds the field
\* (model.go 97-119, 182-196, 453-473).
THEOREM TypesGenerated == GenSpec => []ReferencesGenerated
<1>1. GenInv => ReferencesGenerated
  <2> SUFFICES ASSUME GenInv, gen.at = "done", ~ input.noExpand, NEW t \in gen.written,
                      NEW f \in Fields(t), f.type # ""
               PROVE  f.type \in gen.written \cup input.exclude
    BY DEF ReferencesGenerated, Done
  <2>0. gen.written = gen.tables \ input.exclude
    BY DEF GenInv
  <2>1. \A r \in gen.relations : r.Source \in gen.tables /\ r.Target \in gen.tables
    BY DEF GenInv, GenHolds, Ends
  <2>2. \A r : Forward(r).type = r.Target /\ Backward(r).type = r.Source
    BY DEF Forward, Backward, Field
  <2>3. PICK r \in gen.relations : f = Forward(r) \/ f = Backward(r)
    <3>1. \A c : [name |-> ToCamelCase(c), of |-> <<c>>, type |-> ""].type = ""
      OBVIOUS
    <3> QED  BY <3>1, FieldIs
  <2> QED  BY <2>0, <2>1, <2>2, <2>3
<1> QED  BY <1>1, GenInvariant, PTL

(***************************************************************************)
(* The framing, for any payloads the checksum tells apart, any number of   *)
(* frames, of damaged cells and of cells a read takes.                     *)
(***************************************************************************)

\* The frames sent are what Encode makes.
IsFrame(f, j) == \E payload \in Payloads : f = Encode(codec.peer, MessageTypeRequest, j, payload)

\* From cell p of s on there is what frame f has from its cell k on, but for noise: all of
\* it, or as much of it as s has.
Whole(s, p, f, k) ==
    \A d \in 0 .. (Len(f) - k) : p + d <= Len(s) /\ s[p + d] \in {Noise, f[k + d]}
Some(s, f, k) ==
    \A d \in 0 .. (Len(f) - k) : 1 + d <= Len(s) => s[1 + d] \in {Noise, f[k + d]}

WireTypes ==
    /\ transport \in {"tcp", "udp"}
    /\ codec \in [peer : CodecTypes, receiver : CodecTypes]
    /\ sent \in Seq(Seq(Int)) /\ Len(sent) <= MaxFrames
    /\ net \in Seq(Seq(Int))
    /\ \A data \in read : data \in Seq(Int) /\ Len(data) > 0

SentInv == \A j \in 1 .. Len(sent) : IsFrame(sent[j], j)

\* A datagram is a frame; any place of the stream is one of a frame whose rest is yet to come.
DatagramInv ==
    transport = "udp" =>
        \A i \in 1 .. Len(net) : Len(net[i]) > 0 /\ \E j \in 1 .. Len(sent) : Whole(net[i], 1, sent[j], 1)
StreamInv ==
    transport = "tcp" =>
        /\ Len(net) <= 1
        /\ Len(net) = 1 => \A p \in 1 .. Len(net[1]) : \E j \in 1 .. Len(sent) :
                                \E k \in 1 .. Len(sent[j]) : Whole(net[1], p, sent[j], k)

\* What was read is from one place of a frame on, of a datagram from the first.
ReadInv ==
    \A data \in read : \E j \in 1 .. Len(sent) : \E k \in 1 .. Len(sent[j]) :
        (transport = "udp" => k = 1) /\ Some(data, sent[j], k)

WireInv == WireTypes /\ SentInv /\ DatagramInv /\ StreamInv /\ ReadInv

LEMMA PayloadIs ==
    ASSUME NEW payload \in Payloads
    PROVE  /\ payload \in Seq(Int) /\ payload \in Received
           /\ Len(payload) \in 1 .. MaxPayload
           /\ \A i \in 1 .. Len(payload) : payload[i] \in Bytes
           /\ Checksum(payload) \in Nat
<1>1. PICK n \in 1 .. MaxPayload : payload \in [1 .. n -> Bytes]
  BY DEF Payloads
<1>2. n \in Nat
  BY <1>1, WireAssumption
<1>3. payload \in Seq(Bytes) /\ Len(payload) = n
  BY <1>1, <1>2
<1>4. payload \in [1 .. n -> Bytes \cup {Noise}]
  BY <1>1
<1>5. payload \in Received
  BY <1>1, <1>4 DEF Received
<1>6. Checksum(payload) \in Nat
  BY <1>5, ChecksumAssumption
<1>7. payload \in [1 .. n -> Int]
  <2>1. Bytes \subseteq Int
    BY WireAssumption
  <2> QED  BY <1>1, <2>1
<1>8. payload \in Seq(Int)
  BY <1>2, <1>7
<1> QED  BY <1>1, <1>3, <1>5, <1>6, <1>8

\* A frame is its header, then its payload.
IsEncoded(f, c, id, payload) ==
    /\ f \in Seq(Int) /\ Len(f) = 8 + Len(payload)
    /\ f[1] = 1000 /\ f[2] = 1 /\ f[3] = 1 /\ f[4] = id /\ f[5] = c /\ f[6] = 0
    /\ f[7] = Len(payload) /\ f[8] = Checksum(payload)
    /\ \A i \in 1 .. Len(payload) : f[8 + i] = payload[i]

LEMMA FrameIs ==
    ASSUME NEW c \in CodecTypes, NEW id \in Nat, NEW payload \in Payloads
    PROVE  IsEncoded(Encode(c, MessageTypeRequest, id, payload), c, id, payload)
<1> DEFINE n == Len(payload)
           sum == Checksum(payload)
           h == <<1000, 1, 1, id, c, 0, n, sum>>
           f == Encode(c, MessageTypeRequest, id, payload)
<1>1. n \in Nat /\ sum \in Nat /\ payload \in Seq(Int)
  BY PayloadIs
<1>2. c \in Int
  BY DEF CodecTypes
<1>3. f = h \o payload
  BY DEF Encode, MagicNumber, ProtocolVersion, MessageTypeRequest
<1> HIDE DEF n, sum, f
<1>4. h \in Seq(Int)
  BY <1>1, <1>2
<1>5. Len(h) = 8
  OBVIOUS
<1>6. /\ h[1] = 1000 /\ h[2] = 1 /\ h[3] = 1 /\ h[4] = id /\ h[5] = c /\ h[6] = 0
      /\ h[7] = n /\ h[8] = sum
  OBVIOUS
<1> HIDE DEF h
<1>7. /\ f \in Seq(Int) /\ Len(f) = Len(h) + Len(payload)
      /\ \A i \in 1 .. Len(h) + Len(payload) :
            f[i] = IF i <= Len(h) THEN h[i] ELSE payload[i - Len(h)]
  BY <1>1, <1>3, <1>4, ConcatProperties
<1>8. f \in Seq(Int) /\ Len(f) = 8 + Len(payload)
  BY <1>5, <1>7
<1>9. Len(payload) \in Nat
  BY <1>1
<1>10. \A i \in 1 .. 8 : f[i] = h[i]
  BY <1>5, <1>7, <1>9
<1>11. \A i \in 1 .. Len(payload) : f[8 + i] = payload[i]
  BY <1>5, <1>7, <1>9
<1>12. /\ f[1] = h[1] /\ f[2] = h[2] /\ f[3] = h[3] /\ f[4] = h[4] /\ f[5] = h[5]
       /\ f[6] = h[6] /\ f[7] = h[7] /\ f[8] = h[8]
  BY <1>10
<1>13. IsEncoded(f, c, id, payload)
  BY <1>6, <1>8, <1>11, <1>12 DEF IsEncoded, n, sum
<1> QED  BY <1>13 DEF f

\* The payload of data, cell by cell.
LEMMA PayloadCells ==
    ASSUME NEW data \in Seq(Int), NEW n \in Nat, Len(data) = 8 + n
    PROVE  /\ PayloadOf(data) \in Seq(Int) /\ Len(PayloadOf(data)) = n
           /\ \A i \in 1 .. n : PayloadOf(data)[i] = data[8 + i]
<1> DEFINE q == SubSeq(data, 9, Len(data))
<1>1. PayloadOf(data) = q
  BY DEF PayloadOf, ProtocolHeaderSize
<1>2. \A i \in 9 .. Len(data) : data[i] \in Int
  BY ElementOfSeq
<1>3. q \in Seq(Int)
  BY <1>2, SubSeqProperties
<1>4. Len(q) = IF 9 <= Len(data) THEN Len(data) - 9 + 1 ELSE 0
  BY SubSeqProperties
<1>5. Len(q) = n
  BY <1>4
<1>6. \A i \in 1 .. Len(data) - 9 + 1 : q[i] = data[9 + i - 1]
  BY SubSeqProperties
<1>7. ASSUME NEW i \in 1 .. n PROVE q[i] = data[8 + i]
  <2>1. i \in 1 .. Len(data) - 9 + 1 /\ 9 + i - 1 = 8 + i
    OBVIOUS
  <2> HIDE DEF q
  <2> QED  BY <1>6, <2>1
<1> QED  BY <1>1, <1>3, <1>5, <1>7

\* A sent frame, its payload and its header.
LEMMA SentIs ==
    ASSUME WireTypes, SentInv, NEW j \in 1 .. Len(sent)
    PROVE  \E payload \in Payloads : /\ PayloadOf(sent[j]) = payload
                                     /\ IsEncoded(sent[j], codec.peer, j, payload)
<1> DEFINE f == sent[j]
<1>1. PICK payload \in Payloads : f = Encode(codec.peer, MessageTypeRequest, j, payload)
  BY DEF SentInv, IsFrame
<1>2. codec.peer \in CodecTypes /\ j \in Nat
  BY DEF WireTypes
<1>3. IsEncoded(f, codec.peer, j, payload)
  BY <1>1, <1>2, FrameIs, Zenon
<1> HIDE DEF f
<1>4. payload \in Seq(Int) /\ Len(payload) \in Nat
  BY PayloadIs
<1> DEFINE n == Len(payload)
           q == PayloadOf(f)
<1>5. f \in Seq(Int) /\ n \in Nat /\ Len(f) = 8 + n
  BY <1>3, <1>4 DEF IsEncoded
<1> HIDE DEF n
<1>6. q \in Seq(Int) /\ Len(q) = n /\ \A i \in 1 .. n : q[i] = f[8 + i]
  BY <1>5, PayloadCells, Zenon
<1> HIDE DEF q
<1>7. \A i \in 1 .. n : f[8 + i] = payload[i]
  BY <1>3 DEF IsEncoded, n
<1>8. \A i \in 1 .. Len(q) : q[i] = payload[i]
  BY <1>6, <1>7
<1>9. Len(q) = Len(payload)
  BY <1>6 DEF n
<1>10. q = payload
  BY <1>4, <1>6, <1>8, <1>9, SeqEqual
<1> QED  BY <1>3, <1>10 DEF f, q

\* Data that begins as a frame does and that Decode accepts is that frame.
LEMMA DecodedIsSent ==
    ASSUME WireTypes, SentInv, NEW data \in Seq(Int), NEW j \in 1 .. Len(sent),
           Some(data, sent[j], 1), Decode(codec.receiver, data)
    PROVE  /\ Len(sent[j]) = Len(data) /\ PayloadOf(sent[j]) = PayloadOf(data)
           /\ codec.peer = codec.receiver
<1> DEFINE f == sent[j]
           q == PayloadOf(data)
<1>0. Noise \in Int /\ Noise < 0
  BY DEF Noise
<1>a. PICK payload \in Payloads : PayloadOf(f) = payload /\ IsEncoded(f, codec.peer, j, payload)
  BY SentIs
<1>1. /\ PayloadOf(f) = payload /\ f \in Seq(Int) /\ Len(f) = 8 + Len(payload)
      /\ f[5] = codec.peer /\ f[7] = Len(payload) /\ f[8] = Checksum(payload)
      /\ \A i \in 1 .. Len(payload) : f[8 + i] = payload[i]
  BY <1>a DEF IsEncoded
<1>2. /\ payload \in Seq(Int) /\ payload \in Received /\ Len(payload) \in 1 .. MaxPayload
      /\ Len(payload) \in Nat /\ Checksum(payload) \in Nat
      /\ \A i \in 1 .. Len(payload) : payload[i] \in Bytes
  BY PayloadIs
<1>3. Len(data) \in Nat /\ codec.receiver \in {0, 1}
  BY DEF WireTypes, CodecTypes
<1>4. /\ Len(data) >= 8 /\ data[5] = codec.receiver /\ Len(data) - 8 = data[7]
      /\ data[8] = Checksum(q)
  BY DEF Decode, Header, ProtocolHeaderSize
<1>5. \A d \in 0 .. (Len(f) - 1) : 1 + d <= Len(data) => data[1 + d] \in {Noise, f[1 + d]}
  BY DEF Some
<1> HIDE DEF f, q
<1>6. ASSUME NEW i \in 1 .. Len(f), i <= Len(data) PROVE data[i] \in {Noise, f[i]}
  <2> DEFINE d == i - 1
  <2>1. d \in 0 .. (Len(f) - 1) /\ 1 + d = i
    BY <1>1, <1>2
  <2> HIDE DEF d
  <2> QED  BY <1>5, <1>6, <2>1
<1>7. Len(f) \in Int /\ Len(f) >= 8 /\ Len(data) \in Int /\ Len(data) >= 8
  <2>1. Len(f) = 8 + Len(payload) /\ Len(payload) \in Nat
    BY <1>1, <1>2
  <2>2. Len(data) >= 8
    BY <1>4
  <2> QED  BY <1>3, <2>1, <2>2
<1>8. data[5] \in {Noise, f[5]} /\ data[7] \in {Noise, f[7]} /\ data[8] \in {Noise, f[8]}
  <2>1. /\ 5 \in 1 .. Len(f) /\ 7 \in 1 .. Len(f) /\ 8 \in 1 .. Len(f)
        /\ 5 <= Len(data) /\ 7 <= Len(data) /\ 8 <= Len(data)
    BY <1>7
  <2> QED  BY <1>6, <2>1
<1>9. codec.peer = codec.receiver
  <2>1. codec.receiver # Noise
    BY <1>0, <1>3
  <2>2. data[5] = codec.receiver /\ f[5] = codec.peer
    BY <1>1, <1>4
  <2> QED  BY <1>8, <2>1, <2>2
<1>10. Len(data) = 8 + Len(payload)
  <2>1. Len(data) - 8 = data[7] /\ f[7] = Len(payload)
    BY <1>1, <1>4
  <2>2. Len(payload) \in Nat
    BY <1>2
  <2>3. data[7] # Noise
    BY <1>0, <1>7, <2>1
  <2>4. data[7] = f[7]
    BY <1>8, <2>3
  <2> QED  BY <1>7, <2>1, <2>2, <2>4
<1>11. /\ q \in Seq(Int) /\ Len(q) = Len(payload)
       /\ \A i \in 1 .. Len(payload) : q[i] = data[8 + i]
  BY <1>2, <1>10, PayloadCells DEF q
<1>12. ASSUME NEW i \in 1 .. Len(payload) PROVE q[i] \in Bytes \cup {Noise}
  <2>1. 8 + i \in 1 .. Len(f) /\ 8 + i <= Len(data)
    BY <1>1, <1>2, <1>10
  <2>2. data[8 + i] \in {Noise, f[8 + i]}
    BY <1>6, <2>1
  <2>3. f[8 + i] = payload[i] /\ q[i] = data[8 + i] /\ payload[i] \in Bytes
    BY <1>1, <1>2, <1>11
  <2> QED  BY <2>2, <2>3
<1>13. q \in Received
  <2>1. q = [i \in 1 .. Len(payload) |-> q[i]]
    BY <1>2, <1>11
  <2>2. q \in [1 .. Len(payload) -> Bytes \cup {Noise}]
    BY <1>12, <2>1
  <2> QED  BY <1>2, <2>2 DEF Received
<1>14. Checksum(q) = Checksum(payload)
  <2>1. Checksum(q) \in Nat
    BY <1>13, ChecksumAssumption
  <2> QED  BY <1>0, <1>1, <1>4, <1>8, <2>1
<1>15. q = payload
  BY <1>2, <1>11, <1>13, <1>14, ChecksumAssumption
<1> QED  BY <1>1, <1>9, <1>10, <1>15 DEF f, q

\* A frame that arrives as it was sent is accepted.
LEMMA FrameDecodes ==
    ASSUME WireTypes, SentInv, NEW j \in 1 .. Len(sent), codec.peer = codec.receiver
    PROVE  Decode(codec.receiver, sent[j])
<1> DEFINE f == sent[j]
<1>a. PICK payload \in Payloads : PayloadOf(f) = payload /\ IsEncoded(f, codec.peer, j, payload)
  BY SentIs
<1>1. /\ PayloadOf(f) = payload /\ Len(f) = 8 + Len(payload) /\ f[1] = 1000 /\ f[2] = 1
      /\ f[5] = codec.peer /\ f[7] = Len(payload) /\ f[8] = Checksum(payload)
  BY <1>a DEF IsEncoded
<1>2. Len(payload) \in Nat
  BY PayloadIs
<1> HIDE DEF f
<1>3. Len(f) >= 8 /\ Len(f) - 8 = f[7]
  BY <1>1, <1>2
<1>4. Decode(codec.receiver, f)
  BY <1>1, <1>3 DEF Decode, Header, ProtocolHeaderSize, MagicNumber, ProtocolVersion
<1> QED  BY <1>4 DEF f

\* Where what is accepted begins with a frame, Decode is exact.
LEMMA BeginsExact ==
    ASSUME WireInv, \A data \in read : Decode(codec.receiver, data) =>
                                           \E j \in 1 .. Len(sent) : Some(data, sent[j], 1)
    PROVE  DecodeExact
<1> SUFFICES ASSUME NEW data \in read
             PROVE  /\ Decode(codec.receiver, data) =>
                        \E i \in DOMAIN sent : /\ Len(sent[i]) = Len(data)
                                               /\ PayloadOf(sent[i]) = PayloadOf(data)
                                               /\ codec.peer = codec.receiver
                    /\ data \in Range(sent) /\ codec.peer = codec.receiver =>
                        Decode(codec.receiver, data)
                    /\ Decode(codec.receiver, data) => Delivered(data) = {PayloadOf(data)}
  BY DEF DecodeExact
<1>0. WireTypes /\ SentInv
  BY DEF WireInv
<1>1. DOMAIN sent = 1 .. Len(sent) /\ data \in Seq(Int)
  BY <1>0 DEF WireTypes
<1>2. ASSUME Decode(codec.receiver, data)
      PROVE  \E i \in DOMAIN sent : /\ Len(sent[i]) = Len(data)
                                    /\ PayloadOf(sent[i]) = PayloadOf(data)
                                    /\ codec.peer = codec.receiver
  <2>1. PICK j \in 1 .. Len(sent) : Some(data, sent[j], 1)
    BY <1>2
  <2>2. /\ Len(sent[j]) = Len(data) /\ PayloadOf(sent[j]) = PayloadOf(data)
        /\ codec.peer = codec.receiver
    BY <1>0, <1>1, <1>2, <2>1, DecodedIsSent
  <2> QED  BY <1>1, <2>2
<1>3. ASSUME data \in Range(sent), codec.peer = codec.receiver PROVE Decode(codec.receiver, data)
  <2>1. PICK j \in 1 .. Len(sent) : data = sent[j]
    BY <1>1, <1>3 DEF Range
  <2> QED  BY <1>0, <1>3, <2>1, FrameDecodes
<1>4. Decode(codec.receiver, data) => Delivered(data) = {PayloadOf(data)}
  BY DEF Decode, Delivered, ParseHeader
<1> QED  BY <1>2, <1>3, <1>4

\* The first cell that may be the magic number is the first of a frame.
LEMMA MagicIsFirst ==
    ASSUME MagicMarks, WireTypes, SentInv, NEW j \in 1 .. Len(sent), NEW k \in 1 .. Len(sent[j]),
           sent[j][k] = MagicNumber
    PROVE  k = 1
<1> DEFINE f == sent[j]
<1>a. PICK payload \in Payloads : PayloadOf(f) = payload /\ IsEncoded(f, codec.peer, j, payload)
  BY SentIs
<1>1. /\ f \in Seq(Int) /\ Len(f) = 8 + Len(payload)
      /\ f[2] = 1 /\ f[3] = 1 /\ f[4] = j /\ f[5] = codec.peer /\ f[6] = 0
      /\ f[7] = Len(payload) /\ f[8] = Checksum(payload)
      /\ \A i \in 1 .. Len(payload) : f[8 + i] = payload[i]
  BY <1>a DEF IsEncoded
<1>2. Len(payload) \in 1 .. MaxPayload /\ \A i \in 1 .. Len(payload) : payload[i] \in Bytes
  BY PayloadIs
<1>3. j < 1000 /\ Len(payload) < 1000 /\ Checksum(payload) # 1000 /\ 1000 \notin Bytes
  BY <1>2, WireAssumption DEF MagicMarks, MagicNumber, WireTypes
<1>4. codec.peer \in {0, 1}
  BY DEF WireTypes, CodecTypes
<1>5. f[k] = 1000 /\ k \in Int /\ 1 <= k /\ k <= 8 + Len(payload)
  BY <1>1, <1>2, WireAssumption DEF MagicNumber
<1> HIDE DEF f
<1>6. k # 2 /\ k # 3 /\ k # 4 /\ k # 5 /\ k # 6 /\ k # 7 /\ k # 8
  <2>1. f[2] # 1000 /\ f[3] # 1000 /\ f[6] # 1000
    BY <1>1
  <2>2. f[4] # 1000 /\ f[8] # 1000
    BY <1>1, <1>3
  <2>3. f[5] # 1000
    BY <1>1, <1>4
  <2>4. f[7] # 1000
    <3>1. Len(payload) # 1000
      <4> DEFINE n == Len(payload)
      <4>1. n \in Nat /\ n < 1000
        BY <1>3, PayloadIs
      <4> HIDE DEF n
      <4>2. n # 1000
        BY <4>1
      <4> QED  BY <4>2 DEF n
    <3> QED  BY <1>1, <3>1
  <2> QED  BY <1>5, <2>1, <2>2, <2>3, <2>4
<1>7. ASSUME k > 8 PROVE FALSE
  <2> DEFINE i == k - 8
  <2>1. i \in 1 .. Len(payload) /\ 8 + i = k
    BY <1>2, <1>5, <1>7, WireAssumption
  <2> HIDE DEF i
  <2>2. f[8 + i] = payload[i] /\ payload[i] \in Bytes
    BY <1>1, <1>2, <2>1
  <2> QED  BY <1>3, <1>5, <2>1, <2>2
<1> QED  BY <1>5, <1>6, <1>7

----------------------------------------------------------------------------
(* Every step keeps it.                                                    *)

\* More behind a sequence changes nothing in it.
LEMMA WholeExtends ==
    ASSUME NEW s \in Seq(Int), NEW e \in Seq(Int), NEW p \in Nat \ {0}, NEW f \in Seq(Int),
           NEW k \in 1 .. Len(f), Whole(s, p, f, k)
    PROVE  Whole(s \o e, p, f, k)
<1> SUFFICES ASSUME NEW d \in 0 .. (Len(f) - k)
             PROVE  p + d <= Len(s \o e) /\ (s \o e)[p + d] \in {Noise, f[k + d]}
  BY DEF Whole
<1> DEFINE t == s \o e
           i == p + d
<1>1. /\ Len(t) = Len(s) + Len(e)
      /\ \A x \in 1 .. Len(s) + Len(e) : t[x] = IF x <= Len(s) THEN s[x] ELSE e[x - Len(s)]
  BY ConcatProperties
<1>2. i <= Len(s) /\ s[i] \in {Noise, f[k + d]}
  BY DEF Whole
<1>3. Len(s) \in Nat /\ Len(e) \in Nat /\ i \in Nat \ {0}
  OBVIOUS
<1> HIDE DEF t, i
<1>4. i \in 1 .. Len(s) + Len(e) /\ i <= Len(t)
  BY <1>1, <1>2, <1>3
<1>5. t[i] = s[i]
  BY <1>1, <1>2, <1>4
<1> QED  BY <1>2, <1>4, <1>5 DEF t, i

\* What is put behind it is there whole.
LEMMA WholeBehind ==
    ASSUME NEW s \in Seq(Int), NEW f \in Seq(Int), NEW k \in 1 .. Len(f)
    PROVE  Whole(s \o f, Len(s) + k, f, k)
<1> SUFFICES ASSUME NEW d \in 0 .. (Len(f) - k)
             PROVE  Len(s) + k + d <= Len(s \o f) /\ (s \o f)[Len(s) + k + d] = f[k + d]
  BY DEF Whole
<1> DEFINE t == s \o f
           n == Len(s)
           i == k + d
<1>1. /\ Len(t) = n + Len(f)
      /\ \A x \in 1 .. n + Len(f) : t[x] = IF x <= n THEN s[x] ELSE f[x - n]
  BY ConcatProperties
<1>2. n \in Nat /\ Len(f) \in Nat /\ i \in 1 .. Len(f) /\ Len(s) + k + d = n + i
  OBVIOUS
<1> HIDE DEF t, n, i
<1>3. n + i \in 1 .. n + Len(f) /\ ~ (n + i <= n) /\ n + i - n = i
  BY <1>2
<1>4. t[n + i] = f[i]
  <2> DEFINE y == n + i
             l == n + Len(f)
  <2>1. y \in 1 .. l
    BY <1>3
  <2>2. ~ (y <= n)
    BY <1>3
  <2>3. y - n = i
    BY <1>2
  <2>4. \A x \in 1 .. l : t[x] = IF x <= n THEN s[x] ELSE f[x - n]
    BY <1>1
  <2> HIDE DEF y, l
  <2>5. t[y] = IF y <= n THEN s[y] ELSE f[y - n]
    BY <2>1, <2>4, Zenon
  <2>6. t[y] = f[i]
    BY <2>2, <2>3, <2>5
  <2> QED  BY <2>6 DEF y
<1>5. n + i <= Len(t)
  BY <1>1, <1>2
<1> QED  BY <1>2, <1>4, <1>5 DEF t, i

\* A damaged cell is noise.
LEMMA WholeDamaged ==
    ASSUME NEW s \in Seq(Int), NEW x \in 1 .. Len(s), NEW p \in Nat \ {0}, NEW f, NEW k,
           Whole(s, p, f, k)
    PROVE  Whole([s EXCEPT ![x] = Noise], p, f, k)
<1> DEFINE t == [s EXCEPT ![x] = Noise]
<1>1. t \in Seq(Int) /\ Len(t) = Len(s)
  BY ExceptSeq DEF Noise
<1>2. \A i \in 1 .. Len(s) : t[i] = s[i] \/ t[i] = Noise
  OBVIOUS
<1> HIDE DEF t
<1>3. ASSUME NEW d \in 0 .. (Len(f) - k)
      PROVE  p + d <= Len(t) /\ t[p + d] \in {Noise, f[k + d]}
  <2>1. p + d <= Len(s) /\ s[p + d] \in {Noise, f[k + d]}
    BY DEF Whole
  <2>2. p + d \in 1 .. Len(s)
    BY <2>1
  <2> QED  BY <1>1, <1>2, <2>1, <2>2
<1> QED  BY <1>3 DEF Whole, t

\* A prefix has some of it.
LEMMA PrefixHasSome ==
    ASSUME NEW s \in Seq(Int), NEW n \in 1 .. Len(s), NEW f, NEW k, Whole(s, 1, f, k)
    PROVE  LET q == SubSeq(s, 1, n) IN q \in Seq(Int) /\ Len(q) = n /\ Some(q, f, k)
<1> DEFINE q == SubSeq(s, 1, n)
<1>1. n \in Nat /\ n <= Len(s) /\ 1 <= n
  OBVIOUS
<1>2. \A i \in 1 .. n : s[i] \in Int
  BY ElementOfSeq
<1>3. q \in Seq(Int)
  BY <1>1, <1>2, SubSeqProperties
<1>4. Len(q) = IF 1 <= n THEN n - 1 + 1 ELSE 0
  BY <1>1, <1>2, SubSeqProperties
<1>5. \A i \in 1 .. n - 1 + 1 : q[i] = s[1 + i - 1]
  BY <1>1, <1>2, SubSeqProperties
<1>6. Len(q) = n
  BY <1>1, <1>4
<1>7. ASSUME NEW i \in 1 .. n PROVE q[i] = s[i]
  <2>1. i \in 1 .. n - 1 + 1 /\ 1 + i - 1 = i
    OBVIOUS
  <2> HIDE DEF q
  <2> QED  BY <1>5, <2>1
<1> HIDE DEF q
<1>8. ASSUME NEW d \in 0 .. (Len(f) - k), 1 + d <= Len(q) PROVE q[1 + d] \in {Noise, f[k + d]}
  <2>1. s[1 + d] \in {Noise, f[k + d]}
    BY DEF Whole
  <2>2. 1 + d \in 1 .. n
    BY <1>6, <1>8
  <2> QED  BY <1>7, <2>1, <2>2
<1> QED  BY <1>3, <1>6, <1>8 DEF Some, q

\* The rest of a sequence has what was in it further on.
LEMMA WholeOfRest ==
    ASSUME NEW s \in Seq(Int), NEW n \in 1 .. Len(s), n < Len(s), NEW p \in 1 .. Len(s) - n,
           NEW f, NEW k, Whole(s, n + p, f, k)
    PROVE  Whole(SubSeq(s, n + 1, Len(s)), p, f, k)
<1> DEFINE q == SubSeq(s, n + 1, Len(s))
           m == n + 1
           l == Len(s)
<1>1. m \in Int /\ l \in Int /\ m <= l /\ n \in Nat
  OBVIOUS
<1>2. \A i \in m .. l : s[i] \in Int
  BY ElementOfSeq
<1>3. Len(q) = IF m <= l THEN l - m + 1 ELSE 0
  BY <1>1, <1>2, SubSeqProperties
<1>4. \A i \in 1 .. l - m + 1 : q[i] = s[m + i - 1]
  BY <1>1, <1>2, SubSeqProperties
<1> HIDE DEF q
<1>5. Len(q) = l - n
  BY <1>1, <1>3
<1>6. ASSUME NEW i \in 1 .. l - n PROVE q[i] = s[n + i]
  <2>1. i \in 1 .. l - m + 1 /\ m + i - 1 = n + i
    OBVIOUS
  <2> QED  BY <1>4, <2>1
<1>7. ASSUME NEW d \in 0 .. (Len(f) - k) PROVE p + d <= Len(q) /\ q[p + d] \in {Noise, f[k + d]}
  <2>1. n + p + d <= l /\ s[n + p + d] \in {Noise, f[k + d]}
    BY DEF Whole
  <2> DEFINE i == p + d
  <2>2. i \in 1 .. l - n /\ n + p + d = n + i
    BY <1>1, <2>1
  <2> HIDE DEF i
  <2>3. q[i] = s[n + i]
    BY <1>6, <2>2
  <2> QED  BY <1>5, <2>1, <2>2, <2>3 DEF i
<1> QED  BY <1>7 DEF Whole, q

\* A sequence has itself.
LEMMA WholeSelf ==
    ASSUME NEW f \in Seq(Int), NEW k \in 1 .. Len(f) PROVE Whole(f, k, f, k)
<1>1. \A d \in 0 .. (Len(f) - k) : k + d <= Len(f)
  OBVIOUS
<1> QED  BY <1>1 DEF Whole

\* What is left when an element is removed was there.
SomeOf(t, s) == \A y \in 1 .. Len(t) : \E x \in 1 .. Len(s) : t[y] = s[x]

LEMMA RemovedIs ==
    ASSUME NEW S, NEW s \in Seq(S), NEW i \in 1 .. Len(s)
    PROVE  RemoveAt(s, i) \in Seq(S) /\ SomeOf(RemoveAt(s, i), s)
<1> DEFINE R == {s[x] : x \in 1 .. Len(s)}
           a == SubSeq(s, 1, i - 1)
           b == SubSeq(s, i + 1, Len(s))
           t == RemoveAt(s, i)
<1>1. Len(s) \in Nat /\ i \in Int /\ 1 <= i /\ i <= Len(s)
  OBVIOUS
<1>2. t = a \o b
  BY DEF RemoveAt
<1>3. \A x \in 1 .. i - 1 : s[x] \in R
  BY <1>1
<1>4. \A x \in i + 1 .. Len(s) : s[x] \in R
  BY <1>1
<1>5. \A x \in 1 .. Len(s) : s[x] \in S
  BY ElementOfSeq
<1>6. R \subseteq S
  BY <1>5
<1> HIDE DEF R
<1>7. a \in Seq(R)
  BY <1>1, <1>3, SubSeqProperties
<1>8. b \in Seq(R)
  BY <1>1, <1>4, SubSeqProperties
<1> HIDE DEF a, b, t
<1>9. t \in Seq(R)
  BY <1>2, <1>7, <1>8, ConcatProperties
<1>10. \A y \in 1 .. Len(t) : t[y] \in R
  BY <1>9, ElementOfSeq
<1>11. t \in Seq(S)
  <2>1. t \in [1 .. Len(t) -> S] /\ Len(t) \in Nat
    BY <1>6, <1>9, <1>10
  <2> QED  BY <2>1
<1> QED  BY <1>10, <1>11 DEF R, t, SomeOf

\* A frame is sent.
LEMMA SendStep ==
    ASSUME WireInv, NEW payload \in Payloads, Send(MessageTypeRequest, payload)
    PROVE  WireInv'
<1> DEFINE n == Len(sent)
           frame == Encode(codec.peer, MessageTypeRequest, n + 1, payload)
<1>1. /\ WireTypes /\ SentInv /\ DatagramInv /\ StreamInv /\ ReadInv
  BY DEF WireInv
<1>2. n \in Nat /\ codec.peer \in CodecTypes
  BY <1>1 DEF WireTypes
<1>3. frame \in Seq(Int) /\ Len(frame) = 8 + Len(payload) /\ Len(payload) \in Nat
  <2>1. n + 1 \in Nat
    BY <1>2
  <2> HIDE DEF n
  <2>2. frame \in Seq(Int) /\ Len(frame) = 8 + Len(payload)
    BY <1>2, <2>1, FrameIs DEF IsEncoded
  <2>3. Len(payload) \in Nat
    BY PayloadIs
  <2> QED  BY <2>2, <2>3
<1>4. /\ n < MaxFrames /\ sent' = Append(sent, frame) /\ transport' = transport /\ codec' = codec
      /\ read' = read
      /\ net' = IF transport = "udp" \/ net = <<>> THEN Append(net, frame) ELSE <<net[1] \o frame>>
  BY DEF Send
<1>5. IsFrame(frame, n + 1)
  BY DEF IsFrame
<1> HIDE DEF frame
<1>6. Len(frame) \in Nat /\ Len(frame) > 0
  BY <1>3
<1>7. sent \in Seq(Seq(Int)) /\ net \in Seq(Seq(Int))
  BY <1>1 DEF WireTypes
<1>8. /\ sent' \in Seq(Seq(Int)) /\ Len(sent') = n + 1
      /\ \A j \in 1 .. n : sent'[j] = sent[j]
  BY <1>3, <1>4, <1>7, AppendProperties
<1>9. sent'[n + 1] = frame
  BY <1>3, <1>4, <1>7, AppendProperties
<1> HIDE DEF n
<1>10. \A j \in 1 .. n : j \in 1 .. Len(sent') /\ sent'[j] = sent[j]
  BY <1>2, <1>8
<1>11. n + 1 \in 1 .. Len(sent')
  BY <1>2, <1>8
<1>12. SentInv'
  <2> SUFFICES ASSUME NEW j \in 1 .. Len(sent') PROVE IsFrame(sent'[j], j)
    BY <1>4 DEF SentInv, IsFrame
  <2>1. j \in 1 .. n \/ j = n + 1
    BY <1>2, <1>8
  <2>2. CASE j = n + 1
    BY <1>5, <1>9, <2>2
  <2>3. CASE j \in 1 .. n
    <3>1. IsFrame(sent[j], j)
      BY <1>1, <2>3 DEF SentInv, n
    <3> QED  BY <1>10, <2>3, <3>1
  <2> QED  BY <2>1, <2>2, <2>3
<1>13. ReadInv'
  <2> SUFFICES ASSUME NEW data \in read
               PROVE  \E j \in 1 .. Len(sent') : \E k \in 1 .. Len(sent'[j]) :
                            (transport = "udp" => k = 1) /\ Some(data, sent'[j], k)
    BY <1>4 DEF ReadInv
  <2>1. PICK j \in 1 .. n : \E k \in 1 .. Len(sent[j]) :
                            (transport = "udp" => k = 1) /\ Some(data, sent[j], k)
    BY <1>1 DEF ReadInv, n
  <2> QED  BY <1>10, <2>1
<1>14. CASE transport = "udp"
  <2>1. net' = Append(net, frame)
    BY <1>4, <1>14
  <2>2. /\ net' \in Seq(Seq(Int)) /\ Len(net') = Len(net) + 1
        /\ \A i \in 1 .. Len(net) : net'[i] = net[i]
    BY <1>3, <1>7, <2>1, AppendProperties
  <2>3. net'[Len(net) + 1] = frame
    BY <1>3, <1>7, <2>1, AppendProperties
  <2>4. ASSUME NEW i \in 1 .. Len(net')
        PROVE  Len(net'[i]) > 0 /\ \E j \in 1 .. Len(sent') : Whole(net'[i], 1, sent'[j], 1)
    <3>1. i \in 1 .. Len(net) \/ i = Len(net) + 1
      BY <1>7, <2>2
    <3>2. CASE i = Len(net) + 1
      <4>1. Whole(frame, 1, frame, 1)
        BY <1>3, <1>6, WholeSelf
      <4> QED  BY <1>6, <1>9, <1>11, <2>3, <3>2, <4>1
    <3>3. CASE i \in 1 .. Len(net)
      <4>1. PICK j \in 1 .. n : Len(net[i]) > 0 /\ Whole(net[i], 1, sent[j], 1)
        BY <1>1, <1>14, <3>3 DEF DatagramInv, n
      <4> QED  BY <1>10, <2>2, <3>3, <4>1
    <3> QED  BY <3>1, <3>2, <3>3
  <2>5. DatagramInv' /\ StreamInv'
    BY <1>4, <1>14, <2>4 DEF DatagramInv, StreamInv
  <2>6. WireTypes'
    BY <1>1, <1>2, <1>4, <1>8, <2>2, WireAssumption DEF WireTypes
  <2> QED  BY <1>12, <1>13, <2>5, <2>6 DEF WireInv
<1>15. CASE transport = "tcp" /\ net = <<>>
  <2>1. net' = Append(net, frame) /\ Len(net) = 0
    BY <1>4, <1>15
  <2>2. net' \in Seq(Seq(Int)) /\ Len(net') = 1
    BY <1>3, <1>7, <2>1, AppendProperties
  <2>3. net'[1] = frame
    <3>1. net'[Len(net) + 1] = frame
      BY <1>3, <1>7, <2>1, AppendProperties
    <3> QED  BY <2>1, <3>1
  <2>4. ASSUME NEW q \in 1 .. Len(net'[1])
        PROVE  \E j \in 1 .. Len(sent') : \E k \in 1 .. Len(sent'[j]) : Whole(net'[1], q, sent'[j], k)
    <3>1. Whole(frame, q, frame, q)
      BY <1>3, <2>3, WholeSelf
    <3> QED  BY <1>9, <1>11, <2>3, <3>1
  <2>5. DatagramInv' /\ StreamInv'
    BY <1>4, <1>15, <2>2, <2>4 DEF DatagramInv, StreamInv
  <2>6. WireTypes'
    BY <1>1, <1>2, <1>4, <1>8, <2>2, WireAssumption DEF WireTypes
  <2> QED  BY <1>12, <1>13, <2>5, <2>6 DEF WireInv
<1>16. CASE transport = "tcp" /\ net # <<>>
  <2> DEFINE s == net[1]
             t == s \o frame
  <2>1. net' = <<t>>
    BY <1>4, <1>16
  <2>2. Len(net) = 1
    <3>1. Len(net) <= 1
      BY <1>1, <1>16 DEF StreamInv
    <3>2. Len(net) # 0
      BY <1>7, <1>16
    <3>3. Len(net) \in Nat
      BY <1>7, LenProperties
    <3> QED  BY <3>1, <3>2, <3>3
  <2>3. s \in Seq(Int)
    BY <1>7, <2>2, ElementOfSeq
  <2>4. t \in Seq(Int) /\ Len(t) = Len(s) + Len(frame)
    BY <1>3, <2>3, ConcatProperties
  <2>5. \A q \in 1 .. Len(s) : \E j \in 1 .. n : \E k \in 1 .. Len(sent[j]) : Whole(s, q, sent[j], k)
    BY <1>1, <1>16, <2>2 DEF StreamInv, n
  <2> HIDE DEF s
  <2>6. ASSUME NEW q \in 1 .. Len(t)
        PROVE  \E j \in 1 .. Len(sent') : \E k \in 1 .. Len(sent'[j]) : Whole(t, q, sent'[j], k)
    <3>1. Len(s) \in Nat
      BY <2>3
    <3>2. CASE q <= Len(s)
      <4>1. q \in 1 .. Len(s)
        BY <3>1, <3>2
      <4>2. PICK j \in 1 .. n : \E k \in 1 .. Len(sent[j]) : Whole(s, q, sent[j], k)
        BY <2>5, <4>1
      <4>3. PICK k \in 1 .. Len(sent[j]) : Whole(s, q, sent[j], k)
        BY <4>2
      <4>4. sent[j] \in Seq(Int)
        BY <1>7, ElementOfSeq DEF n
      <4>5. Whole(t, q, sent[j], k)
        <5>1. q \in Nat \ {0}
          BY <3>1, <4>1
        <5> QED  BY <1>3, <2>3, <4>3, <4>4, <5>1, WholeExtends
      <4> QED  BY <1>10, <4>5
    <3>3. CASE q > Len(s)
      <4> DEFINE k == q - Len(s)
      <4>1. k \in 1 .. Len(frame) /\ q = Len(s) + k
        BY <1>6, <2>4, <3>1, <3>3
      <4> HIDE DEF k
      <4>2. Whole(t, q, frame, k)
        BY <1>3, <2>3, <4>1, WholeBehind
      <4> QED  BY <1>9, <1>11, <4>1, <4>2
    <3> QED  BY <3>1, <3>2, <3>3
  <2> HIDE DEF t
  <2>7. net' \in Seq(Seq(Int)) /\ Len(net') = 1 /\ net'[1] = t
    BY <2>1, <2>4
  <2>8. DatagramInv' /\ StreamInv'
    <3>1. DatagramInv'
      BY <1>4, <1>16 DEF DatagramInv
    <3>2. \A q \in 1 .. Len(net'[1]) : \E j \in 1 .. Len(sent') : \E k \in 1 .. Len(sent'[j]) :
            Whole(net'[1], q, sent'[j], k)
      BY <2>6, <2>7
    <3>3. StreamInv'
      BY <2>7, <3>2 DEF StreamInv
    <3> QED  BY <3>1, <3>3
  <2>9. WireTypes'
    BY <1>1, <1>2, <1>4, <1>8, <2>7, WireAssumption DEF WireTypes
  <2> QED  BY <1>12, <1>13, <2>8, <2>9 DEF WireInv
<1> QED  BY <1>1, <1>14, <1>15, <1>16 DEF WireTypes

\* A step of the network or of a reader: no frame is sent, and the rest is as it was.
LEMMA NothingSent ==
    ASSUME WireInv, UNCHANGED <<transport, codec, sent>>, net' \in Seq(Seq(Int)),
           \A data \in read' : data \in Seq(Int) /\ Len(data) > 0,
           DatagramInv', StreamInv', ReadInv'
    PROVE  WireInv'
<1>1. WireTypes /\ SentInv
  BY DEF WireInv
<1>2. WireTypes'
  BY <1>1 DEF WireTypes
<1>3. SentInv'
  BY <1>1 DEF SentInv, IsFrame
<1> QED  BY <1>2, <1>3 DEF WireInv

\* A cell is damaged.
LEMMA DamageStep ==
    ASSUME WireInv, NEW i \in DOMAIN net, NEW x \in DOMAIN net[i], Damage(i, x)
    PROVE  WireInv'
<1> DEFINE n == Len(net)
           s == net[i]
           t == [s EXCEPT ![x] = Noise]
<1>1. /\ WireTypes /\ DatagramInv /\ StreamInv /\ ReadInv
  BY DEF WireInv
<1>2. net \in Seq(Seq(Int)) /\ \A data \in read : data \in Seq(Int) /\ Len(data) > 0
  BY <1>1 DEF WireTypes
<1>3. n \in Nat /\ i \in 1 .. n
  BY <1>2
<1>4. s \in Seq(Int)
  BY <1>2, <1>3, ElementOfSeq
<1>5. x \in 1 .. Len(s)
  BY <1>4
<1>6. net' = [net EXCEPT ![i] = t] /\ UNCHANGED <<transport, codec, sent, read>>
  BY DEF Damage
<1>7. t \in Seq(Int) /\ Len(t) = Len(s)
  BY <1>4, <1>5, ExceptSeq DEF Noise
<1>8. \A p \in Nat \ {0} : \A f, k : Whole(s, p, f, k) => Whole(t, p, f, k)
  BY <1>4, <1>5, WholeDamaged
<1> HIDE DEF t
<1>9. net' \in Seq(Seq(Int)) /\ Len(net') = n
  BY <1>2, <1>3, <1>6, <1>7, ExceptSeq
<1>10. net'[i] = t /\ \A y \in 1 .. n : y # i => net'[y] = net[y]
  BY <1>2, <1>3, <1>6
<1> HIDE DEF s, n
<1>11. DatagramInv'
  <2> SUFFICES ASSUME transport = "udp", NEW y \in 1 .. n
               PROVE  Len(net'[y]) > 0 /\ \E j \in 1 .. Len(sent) : Whole(net'[y], 1, sent[j], 1)
    BY <1>6, <1>9 DEF DatagramInv
  <2>1. PICK j \in 1 .. Len(sent) : Len(net[y]) > 0 /\ Whole(net[y], 1, sent[j], 1)
    BY <1>1 DEF DatagramInv, n
  <2>2. CASE y = i
    <3>1. Len(s) > 0 /\ Whole(s, 1, sent[j], 1)
      BY <2>1, <2>2 DEF s
    <3>2. Len(t) > 0 /\ Whole(t, 1, sent[j], 1)
      BY <1>7, <1>8, <3>1
    <3> QED  BY <1>10, <2>2, <3>2
  <2>3. CASE y # i
    BY <1>10, <2>1, <2>3
  <2> QED  BY <2>2, <2>3
<1>12. StreamInv'
  <2> SUFFICES ASSUME transport = "tcp"
               PROVE  /\ n <= 1
                      /\ n = 1 => \A p \in 1 .. Len(net'[1]) : \E j \in 1 .. Len(sent) :
                                        \E k \in 1 .. Len(sent[j]) : Whole(net'[1], p, sent[j], k)
    BY <1>6, <1>9 DEF StreamInv
  <2>1. n <= 1 /\ i = 1 /\ n = 1
    BY <1>1, <1>3 DEF StreamInv, n
  <2>2. \A p \in 1 .. Len(s) : \E j \in 1 .. Len(sent) : \E k \in 1 .. Len(sent[j]) :
            Whole(s, p, sent[j], k)
    BY <1>1, <2>1 DEF StreamInv, n, s
  <2>3. ASSUME NEW p \in 1 .. Len(t)
        PROVE  \E j \in 1 .. Len(sent) : \E k \in 1 .. Len(sent[j]) : Whole(t, p, sent[j], k)
    <3>1. p \in 1 .. Len(s) /\ p \in Nat \ {0}
      BY <1>4, <1>7
    <3> QED  BY <1>8, <2>2, <3>1
  <2> QED  BY <1>10, <2>1, <2>3
<1>13. ReadInv'
  BY <1>1, <1>6 DEF ReadInv
<1> QED  BY <1>2, <1>6, <1>9, <1>11, <1>12, <1>13, NothingSent

\* Some of the stream is read.
LEMMA StreamStep ==
    ASSUME WireInv, net # <<>>, NEW n \in 1 .. Len(net[1]), ReadStream(n)
    PROVE  WireInv'
<1> DEFINE s == net[1]
           q == SubSeq(s, 1, n)
           r == SubSeq(s, n + 1, Len(s))
<1>1. WireTypes /\ StreamInv
  BY DEF WireInv
<1>2. /\ transport = "tcp" /\ read' = {q} /\ UNCHANGED <<transport, codec, sent>>
      /\ net' = IF n = Len(s) THEN <<>> ELSE <<r>>
  BY DEF ReadStream
<1>3. net \in Seq(Seq(Int)) /\ Len(net) = 1
  <2>1. net \in Seq(Seq(Int))
    BY <1>1 DEF WireTypes
  <2>2. Len(net) <= 1
    BY <1>1, <1>2 DEF StreamInv
  <2>3. Len(net) # 0
    BY <2>1
  <2>4. Len(net) \in Nat
    BY <2>1, LenProperties
  <2>5. Len(net) = 1
    BY <2>2, <2>3, <2>4
  <2> QED  BY <2>1, <2>5
<1>4. s \in Seq(Int)
  BY <1>3, ElementOfSeq
<1>5. \A p \in 1 .. Len(s) : \E j \in 1 .. Len(sent) : \E k \in 1 .. Len(sent[j]) :
        Whole(s, p, sent[j], k)
  BY <1>1, <1>2, <1>3 DEF StreamInv
<1>6. n \in 1 .. Len(s) /\ Len(s) \in Nat
  BY <1>4
<1> HIDE DEF s
<1>7. PICK j \in 1 .. Len(sent) : \E k \in 1 .. Len(sent[j]) : Whole(s, 1, sent[j], k)
  <2>1. 1 \in 1 .. Len(s)
    BY <1>6
  <2> QED  BY <1>5, <2>1
<1>8. PICK k \in 1 .. Len(sent[j]) : Whole(s, 1, sent[j], k)
  BY <1>7
<1>9. q \in Seq(Int) /\ Len(q) = n /\ Some(q, sent[j], k)
  BY <1>4, <1>6, <1>8, PrefixHasSome
<1> HIDE DEF q
<1>10. \A data \in read' : data \in Seq(Int) /\ Len(data) > 0
  BY <1>2, <1>6, <1>9
<1>11. ReadInv'
  BY <1>2, <1>9 DEF ReadInv
<1>12. DatagramInv'
  BY <1>2 DEF DatagramInv
<1>13. CASE n = Len(s)
  <2>1. net' = <<>>
    BY <1>2, <1>13
  <2>2. net' \in Seq(Seq(Int)) /\ Len(net') = 0
    BY <2>1
  <2>3. StreamInv'
    BY <2>2 DEF StreamInv
  <2> QED  BY <1>2, <1>10, <1>11, <1>12, <2>2, <2>3, NothingSent
<1>14. CASE n # Len(s)
  <2>1. n < Len(s) /\ n \in Nat
    BY <1>6, <1>14
  <2>2. \A y \in n + 1 .. Len(s) : s[y] \in Int
    BY <1>4, <2>1, ElementOfSeq
  <2>3. r \in Seq(Int)
    BY <1>6, <2>1, <2>2, SubSeqProperties
  <2>4. Len(r) = Len(s) - n
    <3>1. Len(r) = IF n + 1 <= Len(s) THEN Len(s) - (n + 1) + 1 ELSE 0
      BY <1>6, <2>1, <2>2, SubSeqProperties
    <3> HIDE DEF r
    <3> QED  BY <1>6, <2>1, <3>1
  <2>5. \A p \in 1 .. Len(s) - n : \A f, m : Whole(s, n + p, f, m) => Whole(r, p, f, m)
    BY <1>4, <1>6, <2>1, WholeOfRest
  <2> HIDE DEF r
  <2>6. ASSUME NEW p \in 1 .. Len(r)
        PROVE  \E y \in 1 .. Len(sent) : \E m \in 1 .. Len(sent[y]) : Whole(r, p, sent[y], m)
    <3>1. p \in 1 .. Len(s) - n /\ n + p \in 1 .. Len(s)
      BY <1>6, <2>1, <2>4
    <3> QED  BY <1>5, <2>5, <3>1
  <2>7. net' = <<r>>
    BY <1>2, <1>14
  <2>8. net' \in Seq(Seq(Int)) /\ Len(net') = 1 /\ net'[1] = r
    BY <2>3, <2>7
  <2>9. StreamInv'
    BY <1>2, <2>6, <2>8 DEF StreamInv
  <2> QED  BY <1>2, <1>10, <1>11, <1>12, <2>8, <2>9, NothingSent
<1> QED  BY <1>13, <1>14

\* Of a datagram the buffer holds at least a cell, and no more than there are.
LEMMA BufferHolds ==
    ASSUME NEW n \in Nat, n > 0 PROVE Min({DatagramBuf, n}) \in 1 .. n
<1> DEFINE S == {DatagramBuf, n}
           m == Min(S)
<1>1. DatagramBuf \in Nat /\ DatagramBuf > 0
  BY WireAssumption
<1>2. \E x \in S : \A y \in S : x <= y
  BY <1>1
<1>3. m \in S /\ \A y \in S : m <= y
  BY <1>2 DEF Min
<1> HIDE DEF m
<1>4. m \in Nat /\ m > 0 /\ m <= n
  BY <1>1, <1>3
<1> QED  BY <1>4 DEF m

\* What a datagram that is gone leaves on the way.
LEMMA DatagramsLeft ==
    ASSUME WireInv, transport = "udp", UNCHANGED <<transport, sent>>, NEW i \in 1 .. Len(net),
           net' = RemoveAt(net, i)
    PROVE  net' \in Seq(Seq(Int)) /\ DatagramInv' /\ StreamInv'
<1>1. WireTypes /\ DatagramInv
  BY DEF WireInv
<1>2. net \in Seq(Seq(Int))
  BY <1>1 DEF WireTypes
<1>3. net' \in Seq(Seq(Int)) /\ SomeOf(net', net)
  BY <1>2, RemovedIs, Zenon
<1>4. DatagramInv'
  BY <1>1, <1>3 DEF DatagramInv, SomeOf
<1>5. StreamInv'
  BY DEF StreamInv
<1> QED  BY <1>3, <1>4, <1>5

\* A datagram is read.
LEMMA DatagramStep ==
    ASSUME WireInv, NEW i \in DOMAIN net, ReadDatagram(i)
    PROVE  WireInv'
<1> DEFINE s == net[i]
           n == Min({DatagramBuf, Len(s)})
           q == SubSeq(s, 1, n)
<1>1. WireTypes /\ SentInv /\ DatagramInv
  BY DEF WireInv
<1>2. net \in Seq(Seq(Int)) /\ i \in 1 .. Len(net) /\ sent \in Seq(Seq(Int))
  BY <1>1 DEF WireTypes
<1>3. /\ transport = "udp" /\ read' = {q} /\ UNCHANGED <<transport, codec, sent>>
      /\ net' = RemoveAt(net, i)
  BY DEF ReadDatagram
<1>4. s \in Seq(Int)
  BY <1>2, ElementOfSeq
<1>5. PICK j \in 1 .. Len(sent) : Len(s) > 0 /\ Whole(s, 1, sent[j], 1)
  BY <1>1, <1>2, <1>3 DEF DatagramInv
<1>6. n \in 1 .. Len(s)
  BY <1>4, <1>5, BufferHolds
<1> HIDE DEF s, n
<1>7. q \in Seq(Int) /\ Len(q) = n /\ Some(q, sent[j], 1)
  BY <1>4, <1>5, <1>6, PrefixHasSome
<1>8. n > 0
  BY <1>4, <1>6
<1> HIDE DEF q
<1>9. \A data \in read' : data \in Seq(Int) /\ Len(data) > 0
  BY <1>3, <1>7, <1>8
<1>10. 1 \in 1 .. Len(sent[j])
  <2>1. PICK payload \in Payloads : Len(sent[j]) = 8 + Len(payload)
    BY <1>1, SentIs DEF IsEncoded
  <2>2. Len(payload) \in Nat
    BY PayloadIs
  <2> QED  BY <2>1, <2>2
<1>11. ReadInv'
  BY <1>3, <1>7, <1>10 DEF ReadInv
<1>12. net' \in Seq(Seq(Int)) /\ DatagramInv' /\ StreamInv'
  BY <1>2, <1>3, DatagramsLeft
<1> QED  BY <1>3, <1>9, <1>11, <1>12, NothingSent

\* A datagram is lost.
LEMMA LoseStep ==
    ASSUME WireInv, NEW i \in DOMAIN net, Lose(i)
    PROVE  WireInv'
<1>1. WireTypes /\ ReadInv
  BY DEF WireInv
<1>2. i \in 1 .. Len(net) /\ \A data \in read : data \in Seq(Int) /\ Len(data) > 0
  BY <1>1 DEF WireTypes
<1>3. transport = "udp" /\ UNCHANGED <<transport, codec, sent, read>> /\ net' = RemoveAt(net, i)
  BY DEF Lose
<1>4. net' \in Seq(Seq(Int)) /\ DatagramInv' /\ StreamInv'
  BY <1>2, <1>3, DatagramsLeft
<1>5. ReadInv'
  BY <1>1, <1>3 DEF ReadInv
<1> QED  BY <1>2, <1>3, <1>4, <1>5, NothingSent

\* Whatever is lost, reordered, cut or damaged, what is under way and what was read is some
\* of a frame from one of its cells on, but for noise (custom_protocol.go 92-130).
THEOREM WireInvariant == WireSpec => []WireInv
<1>1. WireInit => WireInv
  <2> SUFFICES ASSUME WireInit PROVE WireInv
    OBVIOUS
  <2>1. /\ transport \in {"tcp", "udp"} /\ codec \in [peer : CodecTypes, receiver : CodecTypes]
        /\ net = <<>> /\ sent = <<>> /\ read = {}
    BY DEF WireInit
  <2>2. Len(net) = 0 /\ Len(sent) = 0
    BY <2>1
  <2>3. WireTypes
    BY <2>1, <2>2, WireAssumption DEF WireTypes
  <2>4. SentInv /\ DatagramInv /\ StreamInv /\ ReadInv
    BY <2>1, <2>2 DEF SentInv, DatagramInv, StreamInv, ReadInv
  <2> QED  BY <2>3, <2>4 DEF WireInv
<1>2. WireInv /\ [WireNext]_wireVars => WireInv'
  <2> SUFFICES ASSUME WireInv, [WireNext]_wireVars PROVE WireInv'
    OBVIOUS
  <2>1. CASE \E payload \in Payloads : Send(MessageTypeRequest, payload)
    BY <2>1, SendStep
  <2>2. CASE \E i \in DOMAIN net : Lose(i)
    BY <2>2, LoseStep
  <2>3. CASE \E i \in DOMAIN net : ReadDatagram(i)
    BY <2>3, DatagramStep
  <2>4. CASE \E i \in DOMAIN net : \E k \in DOMAIN net[i] : Damage(i, k)
    BY <2>4, DamageStep
  <2>5. CASE net # <<>> /\ \E n \in 1 .. Len(net[1]) : ReadStream(n)
    BY <2>5, StreamStep
  <2>6. CASE UNCHANGED wireVars
    BY <2>6 DEF wireVars, WireInv, WireTypes, SentInv, IsFrame, DatagramInv, StreamInv, ReadInv
  <2> QED  BY <2>1, <2>2, <2>3, <2>4, <2>5, <2>6 DEF WireNext
<1> QED  BY <1>1, <1>2, PTL DEF WireSpec

\* Over UDP Decode accepts a whole frame that arrived as it was sent and nothing else, also
\* where a payload has a frame in it: a datagram begins with its header (custom_protocol.go
\* 132-198).
THEOREM DatagramsDecodeExactly == WireSpec => [](transport = "udp" => DecodeExact)
<1>1. WireInv => (transport = "udp" => DecodeExact)
  <2> SUFFICES ASSUME WireInv, transport = "udp" PROVE DecodeExact
    OBVIOUS
  <2>1. \A data \in read : \E j \in 1 .. Len(sent) : Some(data, sent[j], 1)
    BY DEF WireInv, ReadInv
  <2> QED  BY <2>1, BeginsExact
<1> QED  BY <1>1, WireInvariant, PTL

\* Over TCP, where a read may begin anywhere in a frame, the same holds as long as no other
\* cell of a frame is the magic number (custom_protocol.go 132-198, tcp.go 259-279).
THEOREM DecodeIsExact == ASSUME MagicMarks PROVE WireSpec => []DecodeExact
<1>1. WireInv => DecodeExact
  <2> SUFFICES ASSUME WireInv, NEW data \in read, Decode(codec.receiver, data)
               PROVE  \E j \in 1 .. Len(sent) : Some(data, sent[j], 1)
    BY BeginsExact
  <2>1. WireTypes /\ SentInv /\ sent \in Seq(Seq(Int)) /\ data \in Seq(Int) /\ Len(data) > 0
    BY DEF WireInv, WireTypes
  <2>2. PICK j \in 1 .. Len(sent) : \E k \in 1 .. Len(sent[j]) : Some(data, sent[j], k)
    BY DEF WireInv, ReadInv
  <2>3. PICK k \in 1 .. Len(sent[j]) : Some(data, sent[j], k)
    BY <2>2
  <2>4. data[1] = MagicNumber
    BY DEF Decode, Header
  <2>5. data[1] \in {Noise, sent[j][k]}
    <3>1. sent[j] \in Seq(Int)
      BY <2>1, ElementOfSeq
    <3>2. 0 \in 0 .. (Len(sent[j]) - k) /\ 1 + 0 <= Len(data) /\ 1 + 0 = 1 /\ k + 0 = k
      BY <2>1, <3>1
    <3>3. data[1 + 0] \in {Noise, sent[j][k + 0]}
      BY <2>3, <3>2 DEF Some
    <3> QED  BY <3>2, <3>3
  <2>6. sent[j][k] = MagicNumber
    <3>1. MagicNumber # Noise
      BY DEF MagicNumber, Noise
    <3> QED  BY <2>4, <2>5, <3>1
  <2>7. k = 1
    BY <2>1, <2>6, MagicIsFirst
  <2> QED  BY <2>3, <2>7
<1> QED  BY <1>1, WireInvariant, PTL

==============================================================================
