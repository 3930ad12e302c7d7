---------------------------- MODULE ConfigReader ----------------------------
(***************************************************************************)
(* GSWConfig.c with GSWPropList.c, GSWApp.c and GSWTemplates.c: what the   *)
(* adaptor takes from its configuration file, for all applications, over   *)
(* changes of the file, and which pages it builds with that.  When the     *)
(* file is read, and how an instance is chosen, is in LoadBalancing.       *)
(*                                                                         *)
(* A file does not parse, or has global settings and entries for some      *)
(* names, whose fields may be Absent.  An app or an instance is named by   *)
(* its key and a generation, so that a structure that was freed differs    *)
(* from the one that takes its place.                                      *)
(***************************************************************************)
EXTENDS Integers, Sequences, FiniteSets, SequencesExt

CONSTANTS
    Names,     \* keys of applications
    Numbers,   \* keys of instances
    Files,     \* what the file may say, when it is read
    Gens,      \* bound: structures of one key at a time
    MaxLoads,  \* bound: changes of the file that are read
    Absent

\* The sets of numbers are those of a file, and a path is named by whose it is.
ASSUME FilesAssumption ==
    /\ Absent \notin {"own", "common"} /\ IsFiniteSet(Numbers)
    /\ \A f \in {g \in Files : g.parses} :
         /\ f.global.templates \in {"common", Absent}
         /\ DOMAIN f.apps \subseteq Names
         /\ \A n \in DOMAIN f.apps : /\ f.apps[n].instances \subseteq Numbers
                                     /\ f.apps[n].templates \in {"own", Absent}

VARIABLES
    lastFile,  \* history: the file as it was last read
    loads,   \* history: how often it was read
    global,  \* g_gswConfig
    dict,    \* g_pAppDict: from names to structures
    app, instance,  \* GSWApp and GSWAppInstance structures that are allocated
    emptied, \* history: the file took all instances of an application of which
             \* a request held one
    crashed  \* "no", or what the process died of

readerVars == <<lastFile, loads, global, dict, app, instance, emptied, crashed>>

AppIds == Names \X Gens
InstIds == Names \X Numbers \X Gens

(***************************************************************************)
(* Settings.                                                               *)
(***************************************************************************)
\* mktime, as the day and its seconds; before 1970 it is no date.
MkTime(y, mon, d, h, m, s) ==
    LET day == (y * 12 + mon) * 31 + d
        seconds == (h * 60 + m) * 60 + s
    IN  IF y < 1970 THEN <<0, 0>> ELSE <<day + seconds \div 86400, seconds % 86400>>

\* unavailableUntil, YYYYMMDD or YYYYMMDD-HHMMSS: a bad date is none, a bad
\* hour or second is the last one.  Minutes are compared as hours are again, so
\* that mktime carries those from 60 to 99 over.
UnavailableUntil(date) ==
    IF date = Absent \/ date.y < 1900 \/ date.mon \notin 1 .. 12 \/ date.d \notin 1 .. 31
    THEN <<0, 0>>
    ELSE LET t == date.time
         IN  CASE t = Absent -> MkTime(date.y, date.mon, date.d, 0, 0, 0)
               [] t # Absent /\ t.h \notin 0 .. 23 -> MkTime(date.y, date.mon, date.d, 23, 0, 0)
               [] OTHER -> MkTime(date.y, date.mon, date.d, t.h, t.m,
                                  IF t.s \in 0 .. 59 THEN t.s ELSE 59)

\* Mutant: a path that is not in the file any more stays.
SettledKeeping(old, e) ==
    [old EXCEPT !.canDump = e.canDump = "YES", !.switch = e.switch # "NO",
                !.until = UnavailableUntil(e.until),
                !.templates = IF e.templates = Absent THEN @ ELSE e.templates,
                !.headers = IF e.header = Absent THEN @ ELSE Append(@, e.header)]

\* An application's settings are set, or set back; its headers are added to
\* those it has.
Settled(old, e) ==
    [old EXCEPT !.canDump = e.canDump = "YES", !.switch = e.switch # "NO",
                !.until = UnavailableUntil(e.until),
                !.templates = e.templates,
                !.headers = IF e.header = Absent THEN @ ELSE Append(@, e.header)]

GlobalSettings(g) ==
    [canDumpStatus |-> g.canDumpStatus = "YES", templates |-> g.templates, debug |-> FALSE]

NoSettings == [canDumpStatus |-> Absent, templates |-> Absent]

\* GSWApp_New.
NewApp == [canDump |-> FALSE, switch |-> FALSE, until |-> <<0, 0>>, templates |-> Absent,
           headers |-> <<>>, instances |-> {}, usage |-> 1]

(***************************************************************************)
(* Structures.                                                             *)
(***************************************************************************)
\* A generation of a key that is not allocated; nothing points to it either.
FreeApps(n) ==
    {a \in AppIds : a[1] = n /\ a \notin DOMAIN app
                    /\ \A x \in DOMAIN instance : instance[x].app # a}
FreeInsts(n, k) == {x \in InstIds : x[1] = n /\ x[2] = k /\ x \notin DOMAIN instance}
FreshApp(n) == CHOOSE a \in FreeApps(n) : TRUE
FreshInst(n, k) == CHOOSE x \in FreeInsts(n, k) : TRUE

\* GSWDict_ValueForKey in the dictionary of the application's instances.
Current(n, k) ==
    IF n \in DOMAIN dict THEN {x \in app[dict[n]].instances : x[2] = k} ELSE {}

\* Instances of n after it was read with entry e: those of the file, valid.
Read(n, e) ==
    UNION {IF Current(n, k) # {} THEN Current(n, k) ELSE {FreshInst(n, k)} : k \in e.instances}

\* The structure of n, new or the one it has.
Target(n) == IF n \in DOMAIN dict THEN dict[n] ELSE FreshApp(n)
Held(n) == IF n \in DOMAIN dict THEN app[dict[n]].instances ELSE {}

\* GSWApp_FreeNotValidInstances: out of the dictionary, and freed if unused.
FreeNotValid(n, e) == {x \in Held(n) \ Read(n, e) : instance[x].opened = 0}

\* Mutant: the name of an application that goes stays in the dictionary.
RemainingAll(listed) == DOMAIN dict \union {n \in DOMAIN listed : listed[n].instances # {}}

\* The applications after the file was read: those it lists with instances, and
\* those it does not list any more.
Remaining(listed) ==
    (DOMAIN dict \ DOMAIN listed) \union {n \in DOMAIN listed : listed[n].instances # {}}

\* GSWPropList_TestString frees the constant "not found" for a host or a port
\* that an instance does not have.
Incomplete(listed) == \E n \in DOMAIN listed : ~listed[n].complete /\ listed[n].instances # {}

(***************************************************************************)
(* What pages show of the configuration.                                   *)
(***************************************************************************)
\* GSWConfig_DumpGSWApps: the applications of a page with a list.
DumpGSWApps(force) == {n \in DOMAIN dict : force \/ app[dict[n]].canDump}

\* GSWTemplate_GetTemplate, for an application or none: the file of its path,
\* that of the common path, or what is built in (Absent).
GetTemplate(n, exist) ==
    LET own == IF n \in DOMAIN dict THEN app[dict[n]].templates ELSE Absent
    IN  IF own \in exist THEN own
        ELSE IF global.templates \in exist THEN global.templates ELSE Absent

(***************************************************************************)
(* Actions.                                                                *)
(***************************************************************************)
ReaderInit ==
    /\ lastFile = Absent /\ loads = 0
    /\ global = [canDumpStatus |-> FALSE, templates |-> Absent, debug |-> TRUE]
    /\ dict = <<>> /\ emptied = FALSE /\ crashed = "no"
    /\ app = <<>> /\ instance = <<>>

\* bound: there is a generation for what the entries need.
HasRoom(listed) ==
    \A n \in DOMAIN listed :
        /\ n \in DOMAIN dict \/ FreeApps(n) # {}
        /\ \A k \in listed[n].instances : Current(n, k) # {} \/ FreeInsts(n, k) # {}

\* The structure of an application with entry e, and its instances after it is read.
AppOf(n, e) ==
    [Settled(IF n \in DOMAIN dict THEN app[dict[n]] ELSE NewApp, e)
       EXCEPT !.instances = Read(n, e),
              !.usage = @ - Cardinality(FreeNotValid(n, e))]

\* What the entries need, and what goes with them.
ListedIn(file) == IF file.parses THEN file.apps ELSE <<>>
AllRead(listed) == UNION {Read(n, listed[n]) : n \in DOMAIN listed}
AllGone(listed) == UNION {FreeNotValid(n, listed[n]) : n \in DOMAIN listed}
KeptApps(listed) ==
    {a \in DOMAIN app : a[1] \notin DOMAIN listed}
      \union {Target(n) : n \in {m \in DOMAIN listed : listed[m].instances # {}}}

\* An application that is listed without instances is freed (KeptApps), whoever
\* holds one of those that it had.
Empties(listed) ==
    \E n \in DOMAIN listed \intersect DOMAIN dict, x \in DOMAIN instance :
        /\ listed[n].instances = {}
        /\ instance[x].opened = 1 /\ instance[x].app = dict[n]

\* GSWConfig_LoadConfiguration, when the file is newer.  What does not parse
\* has no settings and no applications.
ReadConfiguration(file) ==
    /\ crashed = "no" /\ loads < MaxLoads /\ loads' = loads + 1
    /\ LET listed == ListedIn(file)
       IN  /\ HasRoom(listed)
           /\ IF Incomplete(listed)
              THEN /\ crashed' = "missing"
                   /\ UNCHANGED <<lastFile, global, dict, app, instance, emptied>>
              ELSE /\ global' = GlobalSettings(IF file.parses THEN file.global ELSE NoSettings)
                   /\ dict' = [n \in Remaining(listed) |->
                                 IF n \in DOMAIN listed THEN Target(n) ELSE dict[n]]
                   /\ app' = [a \in KeptApps(listed) |->
                                IF a[1] \in DOMAIN listed THEN AppOf(a[1], listed[a[1]]) ELSE app[a]]
                   /\ instance' =
                        [x \in (DOMAIN instance \ AllGone(listed)) \union AllRead(listed) |->
                           IF x \in AllRead(listed)
                           THEN [app |-> Target(x[1]), valid |-> TRUE,
                                 opened |-> IF x \in DOMAIN instance THEN instance[x].opened ELSE 0]
                           ELSE [instance[x] EXCEPT !.valid = FALSE]]
                   /\ emptied' = (emptied \/ Empties(listed))
                   /\ lastFile' = file /\ UNCHANGED crashed

\* The load balancing takes a valid instance for a request.
TakeInstance(x) ==
    /\ crashed = "no" /\ x \in DOMAIN instance
    /\ instance[x].valid /\ instance[x].opened = 0
    /\ instance' = [instance EXCEPT ![x].opened = 1]
    /\ UNCHANGED <<lastFile, loads, global, dict, app, emptied, crashed>>

WithoutInstance(x) == [y \in DOMAIN instance \ {x} |-> instance[y]]

\* The last request ends: GSWAppInstance_FreeIFND when the instance is not
\* valid any more, which takes it from its application.
ReleaseInstance(x) ==
    /\ crashed = "no" /\ x \in DOMAIN instance /\ instance[x].opened = 1
    /\ IF instance[x].valid
       THEN instance' = [instance EXCEPT ![x].opened = 0] /\ UNCHANGED app
       ELSE /\ instance[x].app \in DOMAIN app
            /\ instance' = WithoutInstance(x)
            /\ app' = [app EXCEPT ![instance[x].app].instances = @ \ {x},
                                  ![instance[x].app].usage = @ - 1]
    /\ UNCHANGED <<lastFile, loads, global, dict, emptied, crashed>>

\* The same when its application was freed before: GSWAppInstance_Free looks its
\* number up in what was the dictionary of that application and lowers what was
\* its counter.  The process dies of it, or goes on; an application that was
\* allocated since may lie at that place.
ReleaseDangling(x) ==
    /\ crashed = "no" /\ x \in DOMAIN instance /\ instance[x].opened = 1
    /\ ~instance[x].valid /\ instance[x].app \notin DOMAIN app
    /\ \/ crashed' = "dangling" /\ UNCHANGED <<app, instance>>
       \/ /\ instance' = WithoutInstance(x)
          /\ \/ UNCHANGED app
             \/ \E a \in DOMAIN app : app' = [app EXCEPT ![a].usage = @ - 1]
          /\ UNCHANGED crashed
    /\ UNCHANGED <<lastFile, loads, global, dict, emptied>>

ReaderNext ==
    \/ \E file \in Files : ReadConfiguration(file)
    \/ \E x \in InstIds : TakeInstance(x) \/ ReleaseInstance(x) \/ ReleaseDangling(x)

ReaderSpec == ReaderInit /\ [][ReaderNext]_readerVars

(***************************************************************************)
(* Properties.                                                             *)
(***************************************************************************)
Listed == IF lastFile = Absent THEN <<>> ELSE ListedIn(lastFile)
ValidOf(n) == {x \in app[dict[n]].instances : instance[x].valid}

SettingsAreRead ==
    /\ \A n \in DOMAIN Listed : (n \in DOMAIN dict) <=> (Listed[n].instances # {})
    /\ \A n \in DOMAIN dict \intersect DOMAIN Listed :
         LET e == Listed[n]
             a == app[dict[n]]
         IN  /\ a.canDump = (e.canDump = "YES") /\ a.switch = (e.switch # "NO")
             /\ a.until = UnavailableUntil(e.until) /\ a.templates = e.templates
             /\ e.header # Absent => Contains(a.headers, e.header)
             /\ {x[2] : x \in ValidOf(n)} = e.instances
             /\ Cardinality(ValidOf(n)) = Cardinality(e.instances)
    /\ \A n \in DOMAIN dict \ DOMAIN Listed : ValidOf(n) = {}

PagesAreAllowed ==
    /\ \A n \in DumpGSWApps(FALSE) \intersect DOMAIN Listed : Listed[n].canDump = "YES"
    /\ \A n \in Names, exist \in SUBSET {"own", "common"} :
         LET template == GetTemplate(n, exist)
         IN  /\ template \in exist \union {Absent}
             /\ template = "common" => lastFile.parses /\ lastFile.global.templates = "common"
             /\ template = "own" /\ n \in DOMAIN Listed => Listed[n].templates = "own"

\* After a load the file is in force, whatever was read before: an application
\* with instances has the settings of the file and no others, and its valid
\* instances are those of the file; an application without instances is gone;
\* one that the file does not list any more has no valid instance.  A page
\* lists an application of the file only if that allows it, and its template
\* is from a path that the file names.
InForce == lastFile # Absent => SettingsAreRead /\ PagesAreAllowed

\* The dictionaries hold what is in memory: each name an application that was
\* not freed, each number of an application an instance of its own that was not;
\* and what is in memory is in a dictionary or in use.  An instance outlives its
\* application, and the pointer to what was freed is followed, only when the file
\* took all instances of an application and kept its entry while a request held
\* one: not when the application went from the file, nor when it has others.
InMemory ==
    /\ \A n \in DOMAIN dict : dict[n] \in DOMAIN app
    /\ \A a \in DOMAIN app :
         /\ a[1] \in DOMAIN dict /\ dict[a[1]] = a
         /\ \A x \in app[a].instances : x \in DOMAIN instance /\ instance[x].app = a
    /\ \A x \in DOMAIN instance :
         \/ instance[x].opened > 0
         \/ instance[x].app \in DOMAIN app /\ x \in app[instance[x].app].instances
    /\ ~emptied => /\ crashed # "dangling"
                   /\ \A x \in DOMAIN instance : instance[x].app \in DOMAIN app

\* The inductive invariant, with what InMemory and InForce rest on: what the
\* structures may hold,
EntriesOfFiles == UNION {{f.apps[n] : n \in DOMAIN f.apps} : f \in {g \in Files : g.parses}}
AppStructures ==
    [canDump : BOOLEAN, switch : BOOLEAN,
     until : {<<0, 0>>} \union {UnavailableUntil(e.until) : e \in EntriesOfFiles},
     templates : {"own", Absent}, headers : Seq({e.header : e \in EntriesOfFiles}),
     instances : SUBSET InstIds, usage : Int]
InstStructures == [app : AppIds, valid : BOOLEAN, opened : {0, 1}]
ReaderTypeOK ==
    /\ dict \in [DOMAIN dict -> AppIds] /\ DOMAIN dict \subseteq Names
    /\ app \in [DOMAIN app -> AppStructures] /\ DOMAIN app \subseteq AppIds
    /\ instance \in [DOMAIN instance -> InstStructures] /\ DOMAIN instance \subseteq InstIds

\* that keys are names and numbers, each of an application once, that what is
\* valid is in its dictionary,
KeysInv ==
    /\ \A n \in DOMAIN dict : dict[n][1] = n
    /\ \A x \in DOMAIN instance : instance[x].app[1] = x[1]
    /\ \A a \in DOMAIN app : \A x, y \in app[a].instances : x[2] = y[2] => x = y
    /\ \A x \in DOMAIN instance : instance[x].valid =>
         instance[x].app \in DOMAIN app /\ x \in app[instance[x].app].instances

\* and that the settings are those of a file.
FileInv ==
    lastFile # Absent =>
        /\ lastFile \in Files
        /\ global.templates = IF lastFile.parses THEN lastFile.global.templates ELSE Absent
        /\ SettingsAreRead
TableInv == ReaderTypeOK /\ InMemory /\ KeysInv /\ FileInv

\* An entry that must be there and is not is an error in the log ("Error If Not
\* Exists"), not the end of the process.
MissingIsReported == crashed # "missing"
=============================================================================
