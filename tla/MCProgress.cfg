SPECIFICATION ProgressSpec
CHECK_DEADLOCK FALSE
PROPERTY EveryAskAnswered
PROPERTY WeatherArrives
PROPERTY FramesEnd
PROPERTY MovesEnd
PROPERTY ScreenSettles
PROPERTY BattlesGoOn
