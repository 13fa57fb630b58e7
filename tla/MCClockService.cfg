\* The clock example's timers: three alarms and four requests
\* (set_tick_interval, cancel_alarm, close_service), ids of 2 bits so
\* that no id is reused while its alarm is outstanding (see the hazard
\* on the wrap of nextAlarmId).
CONSTANTS
  MaxAlarms = 3
  MaxRequests = 4
  IdBits = 2
SPECIFICATION Spec
INVARIANT TypeOK
INVARIANT AlarmAlwaysFound
INVARIANT TickerFollowsInterval
PROPERTY AlarmsPurged
PROPERTY TicksContinue
CHECK_DEADLOCK FALSE
