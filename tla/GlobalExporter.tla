--------------------------- MODULE GlobalExporter ---------------------------
(***************************************************************************)
(* The exporter of src/management: GlobalExporter (global_exporter.cc)     *)
(* and the exportees that register with it (exported_stat.h,               *)
(* exported_config.h).  An exportee is a C++ object built and destroyed by *)
(* its owner's thread in steps: the base constructor (AbstractExportedStat *)
(* or AbstractExportedConfig) adds the object to the exporter, then the    *)
(* derived constructor sets up the variable or callbacks; the derived      *)
(* destructor runs and its members are destroyed, then the base destructor *)
(* removes the object.  Every exporter call (the HTTP /varz and /configz   *)
(* handlers) holds mutex_ throughout, so it is one atomic step that calls  *)
(* GetValue, ResetValue or SetValue on the exportees it finds.  A value is *)
(* a small integer; the parse of SetConfig's string (libc strtol and       *)
(* friends) is abstracted to its result, a record [ok, v].                 *)
(***************************************************************************)
EXTENDS Integers, FiniteSets

CONSTANTS
    Exportees,    \* the exportee objects
    NameOf,       \* NameOf[e]: the name e is constructed with
    Stats,        \* the exportees that are stats; the others are configs
    CanReset,     \* the stats whose ResetValue returns true
    Valid,        \* the values the configs' validation (or set) callback accepts
    Inputs,       \* ParseValue results of the strings SetConfig is given
    Values,       \* the values of the exported variables
    NoExportee

VARIABLES
    phase,     \* phase[e]: "none", "base" (registered, derived part not yet
               \* built), "ready", or "dying" (derived part destroyed)
    stats,     \* exported_stats_: name -> exportee (NoExportee if absent)
    configs,   \* exported_configs_
    value,     \* value[e]: the variable or state e exports
    crashed,   \* a CHECK has failed
    called     \* the exportees whose virtual methods the last exporter call ran

vars == <<phase, stats, configs, value, crashed, called>>

Names == {NameOf[e] : e \in Exportees}
Configs == Exportees \ Stats
Phases == {"none", "base", "ready", "dying"}

\* The map of the exporter an exportee goes to (is_stat).
MapOf(e) == IF e \in Stats THEN stats ELSE configs
Registered(m) == {m[n] : n \in {x \in Names : m[x] # NoExportee}}

\* ExportedStatVariable::ResetValue and ExportedStatCallback::ResetValue:
\* store T() when resetting is allowed, else return false.
ResetValue(e) == IF e \in CanReset THEN 0 ELSE value[e]

\* ExportedConfigParameter::SetValue and ExportedConfigCallback::SetValue:
\* ParseValue, then the validation (or set) callback, then the store.
SetValue(e, in) == in.ok /\ in.v \in Valid

Init == /\ phase = [e \in Exportees |-> "none"]
        /\ stats = [n \in Names |-> NoExportee]
        /\ configs = [n \in Names |-> NoExportee]
        /\ value \in [Exportees -> Values]
        /\ crashed = FALSE
        /\ called = {}

\* The base constructor: ExportStat / ExportConfig, i.e. Add(this, is_stat)
\* under mutex_, whose CHECK aborts on a name already registered.
Construct(e) ==
    LET n == NameOf[e] IN
    /\ ~crashed /\ phase[e] = "none"
    /\ IF MapOf(e)[n] # NoExportee
       THEN crashed' = TRUE /\ UNCHANGED <<phase, stats, configs>>
       ELSE /\ phase' = [phase EXCEPT ![e] = "base"]
            /\ IF e \in Stats THEN stats' = [stats EXCEPT ![n] = e] /\ UNCHANGED configs
                              ELSE configs' = [configs EXCEPT ![n] = e] /\ UNCHANGED stats
            /\ UNCHANGED crashed
    /\ UNCHANGED value /\ called' = {}

\* The derived constructor finishes: variable_ / callbacks are set.
Constructed(e) == /\ ~crashed /\ phase[e] = "base"
                  /\ phase' = [phase EXCEPT ![e] = "ready"]
                  /\ UNCHANGED <<stats, configs, value, crashed>> /\ called' = {}

\* The owner changes the exported variable (an atomic store).
Update(e, v) == /\ ~crashed /\ phase[e] = "ready"
                /\ value' = [value EXCEPT ![e] = v]
                /\ UNCHANGED <<phase, stats, configs, crashed>> /\ called' = {}

\* The derived destructor (it logs its own last value) and its members'
\* destructors run; the object is still registered.
Destruct(e) == /\ ~crashed /\ phase[e] = "ready"
               /\ phase' = [phase EXCEPT ![e] = "dying"]
               /\ UNCHANGED <<stats, configs, value, crashed>> /\ called' = {}

\* The base destructor: UnexportStat / UnexportConfig, i.e. Remove, which
\* erases the name from the map (a false result is only logged).
Destructed(e) ==
    LET n == NameOf[e] IN
    /\ ~crashed /\ phase[e] = "dying"
    /\ phase' = [phase EXCEPT ![e] = "none"]
    /\ IF e \in Stats THEN stats' = [stats EXCEPT ![n] = NoExportee] /\ UNCHANGED configs
                      ELSE configs' = [configs EXCEPT ![n] = NoExportee] /\ UNCHANGED stats
    /\ UNCHANGED <<value, crashed>> /\ called' = {}

\* RenderOne / GetOne (RenderStat, RenderConfig, GetStatValue,
\* GetConfigValue): FindWithDefault, then GetValue on what was found.
RenderOne(m, n) == /\ ~crashed
                   /\ called' = IF m[n] # NoExportee THEN {m[n]} ELSE {}
                   /\ UNCHANGED <<phase, stats, configs, value, crashed>>

\* RenderAll (RenderAllStats, RenderAllConfigs): GetValue on every entry.
RenderAll(m) == /\ ~crashed
                /\ called' = Registered(m)
                /\ UNCHANGED <<phase, stats, configs, value, crashed>>

\* ResetStat(name): FindCopy in exported_stats_, then ResetValue.
ResetStat(n) == LET e == stats[n] IN
    /\ ~crashed
    /\ IF e # NoExportee
       THEN value' = [value EXCEPT ![e] = ResetValue(e)] /\ called' = {e}
       ELSE UNCHANGED value /\ called' = {}
    /\ UNCHANGED <<phase, stats, configs, crashed>>

\* ResetAllStats: ResetValue on every entry of exported_stats_.
ResetAllStats == LET R == Registered(stats) IN
    /\ ~crashed
    /\ value' = [e \in Exportees |-> IF e \in R THEN ResetValue(e) ELSE value[e]]
    /\ called' = R
    /\ UNCHANGED <<phase, stats, configs, crashed>>

\* SetConfig(name, value): FindCopy in exported_configs_, SetValue, and on
\* success GetValue for the reply.
SetConfig(n, in) == LET e == configs[n] IN
    /\ ~crashed
    /\ IF e # NoExportee
       THEN /\ value' = IF SetValue(e, in) THEN [value EXCEPT ![e] = in.v] ELSE value
            /\ called' = {e}
       ELSE UNCHANGED value /\ called' = {}
    /\ UNCHANGED <<phase, stats, configs, crashed>>

Owner(e) == \/ Construct(e) \/ Constructed(e) \/ Destruct(e) \/ Destructed(e)
            \/ \E v \in Values : Update(e, v)

\* A /varz request (HttpServer::HandleVarz): no parameter renders every
\* stat, var=, resetvar= and resetallvars=1 call RenderStat, ResetStat and
\* ResetAllStats; any other request only formats an error.
HandleVarz == \/ RenderAll(stats)
              \/ \E n \in Names : RenderOne(stats, n) \/ ResetStat(n)
              \/ ResetAllStats

\* A /configz request (HttpServer::HandleConfigz): no parameter renders
\* every config, param= renders one, and param= with value= (in either
\* order) calls SetConfig.
HandleConfigz == \/ RenderAll(configs)
                 \/ \E n \in Names : RenderOne(configs, n)
                 \/ \E n \in Names, in \in Inputs : SetConfig(n, in)

Exporter == HandleVarz \/ HandleConfigz

Next == (\E e \in Exportees : Owner(e)) \/ Exporter

Spec == Init /\ [][Next]_vars

-----------------------------------------------------------------------------
TypeOK == /\ phase \in [Exportees -> Phases]
          /\ stats \in [Names -> Exportees \cup {NoExportee}]
          /\ configs \in [Names -> Exportees \cup {NoExportee}]
          /\ value \in [Exportees -> Values]
          /\ crashed \in BOOLEAN
          /\ called \subseteq Exportees

\* "Ownership of the pointers is not taken and they must remain valid": the
\* exporter calls GetValue, ResetValue or SetValue only on an exportee whose
\* derived part is built and not yet destroyed.  Registration in the base
\* constructor and removal in the base destructor leave windows in which a
\* concurrent /varz or /configz request finds a half-built object.
NoCallOnPartialObject == \A e \in called : phase[e] = "ready"
=============================================================================
