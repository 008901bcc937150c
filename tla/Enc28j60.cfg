SPECIFICATION EncSpec
CONSTANT RxUnits = 3
PROPERTY FailMeansDisconnected
