SPECIFICATION FunctionsSpec
CONSTANT MaxEntries = 2
INVARIANTS LayersAnswer CommandLineIsRead InkIsKept PictureIsLegible
INVARIANTS RequestsAreAnswered SecretsStayApart TelemetryArrives
CHECK_DEADLOCK FALSE
