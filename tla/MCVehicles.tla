------------------------------- MODULE MCVehicles -------------------------------
EXTENDS Vehicles

\* Limits that differ by type, in either order, so that figures, types and limits
\* can be mistaken for one another.
LimitsOnBothSides == {[nedc |-> 1, wltp |-> 2, euro |-> 6], [nedc |-> 2, wltp |-> 1, euro |-> 5]}

\* Half a gram, a gram and a half, two grams, and three, beyond every limit.
SomeFigures == [type : EmissionTypes, half : {1, 3, 4, 6}] \cup {[type |-> "other", half |-> 2]}

SomeEntries == {<<>>} \cup {<<e>> : e \in SomeFigures} \cup (SomeFigures \X SomeFigures)

Car(entries) == [entries |-> entries, electric |-> FALSE, class |-> "M1", power |-> 0,
                 owners |-> Customers, refused |-> FALSE]

Motorcycle(power) == [Car(<<>>) EXCEPT !.class = "L3", !.power = power]

SomeAnswers ==
    {Car(entries) : entries \in SomeEntries}
        \cup {Motorcycle(power) : power \in {0, 12, 36}}
        \cup {[Car(<<>>) EXCEPT !.electric = TRUE],
              [Car(<<>>) EXCEPT !.class = "T1"],
              [Car(<<>>) EXCEPT !.refused = TRUE],
              [Car(<<>>) EXCEPT !.owners = {}],
              [Car(<<>>) EXCEPT !.owners = {None}]}

SomeRows == {[electric |-> FALSE, type |-> "NEDC", emission |-> 1, euro |-> 6],
             [electric |-> TRUE, type |-> "WLTP", emission |-> 0, euro |-> 5]}
================================================================================
