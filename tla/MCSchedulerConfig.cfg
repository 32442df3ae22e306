\* Everybody configures; two conversions, one of them not through the plugin.
SPECIFICATION Spec
CONSTANTS
    defaults = defaults
    spelled = spelled
    small = small
    huge = huge
    poolOnly = poolOnly
    plain = plain
    direct = direct
    Processors = 6
    Clients = {defaults, spelled, small, huge, poolOnly}
    Request <- MCRequest
    Native = {poolOnly}
    Conversions = {plain, direct}
    Direct = {direct}
    Starved = {plain, direct}
    Cancelled = {plain, direct}
    Values = 2
INVARIANTS
    SettingsAgree
    
    SuccessIsComplete
PROPERTIES
    SettingsFrozen
\* Every call is made once.
CHECK_DEADLOCK FALSE
