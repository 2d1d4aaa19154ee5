SPECIFICATION FairSpec
CHECK_DEADLOCK FALSE
 
PROPERTY QueueDrains
PROPERTY MoneyArrives
PROPERTY RowsCatchUp
